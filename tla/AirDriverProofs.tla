-------------------------- MODULE AirDriverProofs --------------------------
(***************************************************************************)
(* Proofs about AirDriver.  The inductive invariant IInv names, for every  *)
(* place of a prove, what its environments hold and which value each name  *)
(* is bound to, and what has run by then with which inputs.  That every    *)
(* call is bound, that nothing dead stays and that the key's sections stay *)
(* whole then follows from the tables of AirPrograms and Replay.  Traced   *)
(* says how far the transcript and the proof are at every place; with it a *)
(* finished proof is whole.  Keeping says that nothing was used before it  *)
(* existed, whether or not a prove is under way; with it every step is one *)
(* of GenProof.                                                            *)
(***************************************************************************)
EXTENDS AirDriver, FiniteFacts, TLAPS
-----------------------------------------------------------------------------
(* Where a prove is.                                                       *)

Place(p) ==
    CASE p = "idle"            -> 0
      [] p = "witness_calc"    -> 1
      [] p = "commit1"         -> 2
      [] p = "logup"           -> 3
      [] p = "commit2"         -> 4
      [] p = "quotient"        -> 5
      [] p = "quotient_commit" -> 6
      [] p = "lev"             -> 7
      [] p = "evals"           -> 8
      [] p = "evals_sum"       -> 9
      [] p = "deep"            -> 10
      [] p = "deep_concat"     -> 11
      [] p = "commit"          -> 12
      [] p = "fold"            -> 12
      [] p = "fri_final"       -> 13
      [] p = "grind"           -> 14
      [] p = "open_const"      -> 15
      [] p = "custom"          -> 16
      [] p = "open_cm1"        -> 17
      [] p = "open_cm2"        -> 18
      [] p = "open_qsec"       -> 19
      [] p = "layers"          -> 20
      [] p = "end"             -> 21

Places ==
    { "idle", "witness_calc", "commit1", "logup", "commit2", "quotient", "quotient_commit",
      "lev", "evals", "evals_sum", "deep", "deep_concat", "commit", "fold", "fri_final", "grind",
      "open_const", "custom", "open_cm1", "open_cm2", "open_qsec", "layers", "end" }

Past(p) == Place(pc) > Place(p)

InPlace ==
    /\ pc \in Places
    /\ pc = "witness_calc" => air.witness
    /\ pc = "quotient" => k \in DOMAIN air.q
    /\ pc = "evals" => k \in DOMAIN air.e
    /\ pc = "deep" => k \in DOMAIN air.d
    /\ pc = "custom" => k \in DOMAIN air.customs
    /\ pc \in { "commit", "fold", "layers" } => k \in Rounds(air)

\* How many windows, rounds and trees it has behind it.
Behind(p, sizes) == IF Past(p) THEN Len(sizes) ELSE IF pc = p THEN k - 1 ELSE 0
Committed == IF Past("fold") THEN air.rounds
             ELSE IF pc = "commit" THEN k ELSE IF pc = "fold" THEN k + 1 ELSE 0
FoldedRounds == IF Past("fold") THEN air.rounds ELSE IF pc \in { "commit", "fold" } THEN k ELSE 0
LayersOpened == IF Past("layers") THEN air.rounds ELSE IF pc = "layers" THEN k ELSE 0

-----------------------------------------------------------------------------
(* The environments.                                                       *)

Only(condition, names) == IF condition THEN names ELSE {}

CustomNames(c) == { <<"custom_ext", c>>, <<"custom_layers", c>> }

OfTheSetup ==
    { <<"zi">>, <<"domain">>, <<"const_root">> } \cup Named("custom_root", Ids(air))
      \cup Only(Len(air.q) > 1, Parts("rows", air.q))

CustomsLeft == { air.customs[j] : j \in { i \in DOMAIN air.customs : keep \/ i > Behind("custom", air.customs) } }

KeyNames ==
    OfTheSetup
      \cup Only(keep \/ ~Past("logup"), BaseNames(air))
      \cup Only(keep \/ ~Past("open_const"), { <<"const_ext">>, <<"const_layers">> })
      \cup UNION { CustomNames(c) : c \in CustomsLeft }

InstanceNames ==
    Scalars \cup { <<"challenges">> }
      \cup Only(~Past("logup"), { <<"trace">> })
      \cup Only(Past("commit1"), { <<"root1">> })
      \cup Only(Past("commit1") /\ ~Past("open_cm1"), { <<"cm1_ext">>, <<"cm1_layers">> })
      \cup Only(Past("logup") /\ air.sum, { <<"airgroupvalue">> })
      \cup Only(Past("logup") /\ ~Past("commit2"), { <<"cm2">> })
      \cup Only(Past("commit2"), { <<"root2">>, <<"airgroupvalues">> })
      \cup Only(Past("commit2") /\ ~Past("open_cm2"), { <<"cm2_ext">>, <<"cm2_layers">> })
      \cup Only(Past("quotient_commit"), { <<"xi">>, <<"rootq">> })
      \cup Only(Past("quotient_commit") /\ ~Past("open_qsec"), { <<"qsec">>, <<"qsec_layers">> })
      \cup Only(Past("lev") /\ ~Past("evals_sum"), { <<"lev">> })
      \cup Only(Past("evals_sum"), { <<"evals">>, <<"vf1">>, <<"vf2">> })

EnvNames == KeyNames \cup InstanceNames

\* The value a name is bound to.
Means(n) ==
    CASE n[1] \in { "const_base", "custom_base" } -> Host(n)
      [] n[1] \in { "zi", "domain" }              -> Out(Run(<<"constants">>), n)
      [] n[1] \in { "const_root", "const_ext" }   -> Out(Run(<<"const_setup">>), n)
      [] n[1] = "const_layers"                    -> Out(Run(<<"const_setup">>), <<"const_setup_layers">>)
      [] n[1] \in { "custom_root", "custom_ext" } -> Out(Run(<<"custom_setup", n[2]>>), n)
      [] n[1] = "custom_layers" -> Out(Run(<<"custom_setup", n[2]>>), <<"custom_setup_layers", n[2]>>)
      [] n[1] = "rows"          -> Window(StartOf(air.q, n[2]))
      [] n[1] \in { "publics", "proofvalues" } -> Host(n)
      [] n[1] = "airvalues"  -> IF Past("logup") THEN AirvaluesOut ELSE Host(n)
      [] n[1] = "trace"      -> IF Past("witness_calc") THEN Trace(air) ELSE Host(n)
      [] n[1] = "challenges" -> ChallengesUpTo(IF Past("commit2") THEN NStages + 1 ELSE 2)
      [] n[1] \in { "root1", "cm1_ext", "cm1_layers" } -> Out(Run(<<"commit1">>), n)
      [] n[1] \in { "cm2", "airgroupvalue" }           -> Out(Run(<<"logup">>), n)
      [] n[1] \in { "root2", "cm2_ext", "cm2_layers" } -> Out(Run(<<"commit2">>), n)
      [] n[1] = "airgroupvalues"                       -> AirgroupvaluesOut(air)
      [] n[1] \in { "rootq", "qsec", "qsec_layers" }   -> Out(Run(<<"quotient_commit">>), n)
      [] n[1] = "xi"    -> Squeezed(<<"std_xi">>)
      [] n[1] = "vf1"   -> Squeezed(<<"std_vf1">>)
      [] n[1] = "vf2"   -> Squeezed(<<"std_vf2">>)
      [] n[1] = "lev"   -> Out(Run(<<"lev">>), n)
      [] n[1] = "evals" -> EvalsOut

IsMap(f) == f = [n \in DOMAIN f |-> f[n]]

EnvHolds ==
    /\ IsMap(env)
    /\ DOMAIN env = EnvNames
    /\ \A n \in EnvNames : env[n] = Means(n)

\* The outputs of the first windows of a batch, by their number.
PartsHold(f, prefix, runs, out, m) ==
    /\ IsMap(f)
    /\ DOMAIN f = { <<prefix, j>> : j \in 1..m }
    /\ \A j \in 1..m : f[<<prefix, j>>] = Out(runs[j], out)

PartsAre ==
    /\ pc \in { "quotient", "quotient_commit" } =>
          PartsHold(parts, "q", QuotientWindows(air), <<"q">>, Behind("quotient", air.q))
    /\ pc \in { "evals", "evals_sum" } =>
          PartsHold(parts, "evals", EvalsWindows(air), <<"evals">>, Behind("evals", air.e))
    /\ pc \in { "deep", "deep_concat" } =>
          PartsHold(parts, "fri_pol", DeepWindows(air), <<"fri_pol">>, Behind("deep", air.d))
    /\ pc \notin { "quotient", "quotient_commit", "evals", "evals_sum", "deep", "deep_concat" } => parts = <<>>

\* What a round's commit leaves for the openings, until it is opened.
LayerHolds(layer, i) ==
    /\ IsMap(layer)
    /\ DOMAIN layer = { <<"fri_leaves", i>>, <<"fri_root", i>>, <<"fri_layers", i>> }
    /\ \A n \in DOMAIN layer : layer[n] = Out(Run(<<"fri_commit", i>>), n)

LayersAre ==
    /\ IsMap(layers)
    /\ DOMAIN layers = 1..Committed
    /\ \A j \in 1..Committed :
          IF j <= LayersOpened THEN layers[j] = <<>> ELSE LayerHolds(layers[j], j - 1)

CodewordIs ==
    /\ pc \in { "commit", "fold" } => codeword = Codeword(k)
    /\ pc = "fri_final" => codeword = Codeword(air.rounds)

EnvIs ==
    IF pc = "idle" THEN env = <<>> /\ parts = <<>> /\ layers = <<>>
    ELSE /\ EnvHolds
         /\ PartsAre
         /\ LayersAre
         /\ CodewordIs

-----------------------------------------------------------------------------
(* The history.                                                            *)

SinglePlaces ==
    { "commit1", "logup", "commit2", "quotient_commit", "lev", "evals_sum", "deep_concat",
      "fri_final", "grind", "open_const", "open_cm1", "open_cm2", "open_qsec" }

WitnessRan == Only(air.witness /\ Past("witness_calc"), { Run(<<"witness_calc">>) })
SinglesRan == { Run(<<p>>) : p \in { x \in SinglePlaces : Past(x) } }
QuotientsRan == { QuotientRun(air, j) : j \in 1..Behind("quotient", air.q) }
EvalsRan == { EvalsRun(air, j) : j \in 1..Behind("evals", air.e) }
DeepsRan == { DeepRun(air, j) : j \in 1..Behind("deep", air.d) }
CommitsRan == { Run(<<"fri_commit", i>>) : i \in 0..(Committed - 1) }
FoldsRan == { Run(<<"fri_fold", i>>) : i \in 0..(FoldedRounds - 1) }
CustomsRan == { Run(<<"open_custom", air.customs[j]>>) : j \in 1..Behind("custom", air.customs) }
LayersRan == { Run(<<"open_fri", i>>) : i \in 0..(LayersOpened - 1) }

RunsSoFar ==
    RunsOf(SetupNames(air)) \cup WitnessRan \cup SinglesRan
      \cup QuotientsRan \cup EvalsRan \cup DeepsRan \cup CommitsRan \cup FoldsRan
      \cup CustomsRan \cup LayersRan

RanAsScheduled ==
    /\ \A r \in ran : r.run \in Runs(air) /\ r.args = ArgsOf(air, r.run)
    /\ pc # "idle" => { r.run : r \in ran } = RunsSoFar

IInv ==
    /\ air \in Airs
    /\ proves \in 0..MaxProves
    /\ keep \in BOOLEAN
    /\ KeptSectionsAreTheKeys
    /\ InPlace
    /\ EnvIs
    /\ RanAsScheduled
-----------------------------------------------------------------------------
(* Environments.                                                           *)

\* Two environments joined: the names of both, the first's values first.
IsJoin(g, e, f) ==
    /\ IsMap(g)
    /\ DOMAIN g = DOMAIN e \cup DOMAIN f
    /\ \A n \in DOMAIN e : g[n] = e[n]
    /\ \A n \in DOMAIN f \ DOMAIN e : g[n] = f[n]

LEMMA JoinIs == ASSUME NEW e, NEW f PROVE IsJoin(e ++ f, e, f)
BY DEF ++, IsMap, IsJoin

LEMMA BindIs ==
    ASSUME NEW name, NEW value
    PROVE  IsMap(Bind(name, value)) /\ DOMAIN Bind(name, value) = {name} /\ Bind(name, value)[name] = value
BY DEF Bind, IsMap

LEMMA WithoutIs ==
    ASSUME NEW e, NEW names
    PROVE  /\ IsMap(Without(e, names))
           /\ DOMAIN Without(e, names) = DOMAIN e \ names
           /\ \A n \in DOMAIN e \ names : Without(e, names)[n] = e[n]
BY DEF Without, IsMap

OutsOf(run) == Programs(air)[run[1]].out

\* A program's outputs join the environment ...
IsRunInto(f, e, run) ==
    /\ IsMap(f)
    /\ DOMAIN f = OutsOf(run) \cup DOMAIN e
    /\ \A n \in OutsOf(run) : f[n] = Out(run, n)
    /\ \A n \in DOMAIN e \ OutsOf(run) : f[n] = e[n]

LEMMA RunIntoIs ==
    ASSUME NEW e, NEW run, <<>> \notin OutsOf(run)
    PROVE  IsRunInto(RunInto(e, run), e, run)
BY DEF RunInto, RunIntoRenamed, ++, IsMap, OutsOf, IsRunInto

\* ... one of them under another name.
IsRenamed(f, e, run, from, to) ==
    /\ IsMap(f)
    /\ DOMAIN f = (OutsOf(run) \ {from}) \cup {to} \cup DOMAIN e
    /\ \A n \in OutsOf(run) \ {from} : f[n] = Out(run, n)
    /\ f[to] = Out(run, from)
    /\ \A n \in DOMAIN e \ (OutsOf(run) \cup {to}) : f[n] = e[n]

LEMMA RunIntoRenamedIs ==
    ASSUME NEW e, NEW run, NEW from, NEW to, from \in OutsOf(run), to \notin OutsOf(run)
    PROVE  IsRenamed(RunIntoRenamed(e, run, from, to), e, run, from, to)
BY DEF RunIntoRenamed, ++, IsMap, OutsOf, IsRenamed

\* What a program whose inputs are all there gets.
LEMMA ArgsAre ==
    ASSUME NEW a, NEW run, NEW e, NEW g, IsMap(g), DOMAIN g = Programs(a)[run[1]].in,
           DOMAIN g # {}, DOMAIN g \subseteq DOMAIN e, \A n \in DOMAIN g : e[n] = g[n]
    PROVE  Args(a, run, e) = g
<1>1. Programs(a)[run[1]].in \cap DOMAIN e = DOMAIN g
  OBVIOUS
<1>2. [n \in DOMAIN g |-> e[n]] = [n \in DOMAIN g |-> g[n]]
  OBVIOUS
<1>3. QED
  BY <1>1, <1>2 DEF Args, IsMap

-----------------------------------------------------------------------------
(* The AIR.                                                                *)

LEMMA AirIs ==
    ASSUME NEW a, IsAir(a)
    PROVE  /\ a.customs \in Seq(Nat) /\ a.airvalues \in Seq(Nat)
           /\ a.q \in Seq(Nat \ {0}) /\ a.e \in Seq(Nat \ {0}) /\ a.d \in Seq(Nat \ {0})
           /\ Len(a.q) \in Nat \ {0} /\ Len(a.e) \in Nat \ {0} /\ Len(a.d) \in Nat \ {0}
           /\ Len(a.customs) \in Nat
           /\ a.rounds \in Nat
           /\ a.witness \in BOOLEAN /\ a.sum \in BOOLEAN
           /\ \A i, j \in DOMAIN a.customs : a.customs[i] = a.customs[j] => i = j
<1>1. /\ a.customs \in Seq(Nat) /\ a.airvalues \in Seq(Nat)
      /\ a.q \in Seq(Nat \ {0}) /\ a.e \in Seq(Nat \ {0}) /\ a.d \in Seq(Nat \ {0})
      /\ a.rounds \in Nat
      /\ a.witness \in BOOLEAN /\ a.sum \in BOOLEAN
  BY DEF IsAir
<1>2. QED
  BY <1>1 DEF IsAir

-----------------------------------------------------------------------------
(* The programs.                                                           *)

SetupKinds == { "constants", "const_setup", "custom_setup" }
StageKinds == { "witness_calc", "commit1", "logup", "commit2", "quotient", "quotient_commit" }
OpeningKinds == { "lev", "evals", "evals_sum", "deep", "deep_concat" }
FriKinds == { "fri_commit", "fri_fold", "fri_final", "grind" }
TreeKinds == { "open_const", "open_custom", "open_cm1", "open_cm2", "open_qsec", "open_fri" }

\* A program's kind says what it is for.
LEMMA Kinds ==
    ASSUME NEW a
    PROVE  /\ \A p \in SetupNames(a) : p[1] \in SetupKinds
           /\ \A p \in StageNames(a) : p[1] \in StageKinds
           /\ \A p \in OpeningNames(a) : p[1] \in OpeningKinds
           /\ \A p \in FriNames(a) : p[1] \in FriKinds
           /\ \A p \in TreeNames(a) : p[1] \in TreeKinds
BY DEF SetupNames, StageNames, OpeningNames, FriNames, TreeNames, QuotientNames, Named,
       SetupKinds, StageKinds, OpeningKinds, FriKinds, TreeKinds

LEMMA ProgramIs == ASSUME NEW i, NEW o PROVE Program(i, o).in = i /\ Program(i, o).out = o
BY DEF Program

LEMMA ProgramOf ==
    ASSUME NEW a
    PROVE  /\ \A p \in SetupNames(a) : Programs(a)[p] = SetupProgram(p)
           /\ \A p \in StageNames(a) : Programs(a)[p] = StageProgram(a, p)
           /\ \A p \in OpeningNames(a) : Programs(a)[p] = OpeningProgram(a, p)
           /\ \A p \in FriNames(a) : Programs(a)[p] = FriProgram(p)
           /\ \A p \in TreeNames(a) : Programs(a)[p] = TreeProgram(p)
BY Kinds DEF Programs, ProgramNames, SetupKinds, StageKinds, OpeningKinds, FriKinds, TreeKinds

LEMMA SetupPrograms ==
    /\ Programs(air)[<<"constants">>] = Program({}, { <<"zi">>, <<"domain">> })
    /\ Programs(air)[<<"const_setup">>] =
         Program({ <<"const_base">> }, { <<"const_root">>, <<"const_ext">>, <<"const_setup_layers">> })
    /\ \A c \in Ids(air) : Programs(air)[<<"custom_setup", c>>] =
         Program({ <<"custom_base", c>> },
                 { <<"custom_root", c>>, <<"custom_ext", c>>, <<"custom_setup_layers", c>> })
<1>1. /\ <<"constants">> \in SetupNames(air) /\ <<"const_setup">> \in SetupNames(air)
      /\ \A c \in Ids(air) : <<"custom_setup", c>> \in SetupNames(air)
  BY DEF SetupNames, Named
<1>2. \A p \in SetupNames(air) : Programs(air)[p] = SetupProgram(p)
  BY ProgramOf
<1>3. SetupProgram(<<"constants">>) = Program({}, { <<"zi">>, <<"domain">> })
  BY DEF SetupProgram
<1>4. SetupProgram(<<"const_setup">>) =
         Program({ <<"const_base">> }, { <<"const_root">>, <<"const_ext">>, <<"const_setup_layers">> })
  BY DEF SetupProgram
<1>5. \A c : SetupProgram(<<"custom_setup", c>>) =
         Program({ <<"custom_base", c>> },
                 { <<"custom_root", c>>, <<"custom_ext", c>>, <<"custom_setup_layers", c>> })
  BY DEF SetupProgram
<1>6. QED
  BY <1>1, <1>2, <1>3, <1>4, <1>5

LEMMA StagePrograms ==
    /\ Programs(air)[<<"commit1">>] = Program({ <<"trace">> }, { <<"root1">>, <<"cm1_ext">>, <<"cm1_layers">> })
    /\ Programs(air)[<<"logup">>] =
                 Program(WitnessInputs(air) \cup { <<"challenges">> },
                    { <<"cm2">>, <<"airvalues">> } \cup (IF air.sum THEN { <<"airgroupvalue">> } ELSE {}))
    /\ Programs(air)[<<"commit2">>] = Program({ <<"cm2">> }, { <<"root2">>, <<"cm2_ext">>, <<"cm2_layers">> })
    /\ Programs(air)[<<"quotient_commit">>] =
                 Program(Parts("q", air.q), { <<"qsec">>, <<"rootq">>, <<"qsec_layers">> })
    /\ air.witness => Programs(air)[<<"witness_calc">>] = Program(WitnessInputs(air), { <<"trace">> })
    /\ \A p \in QuotientNames(air) : Programs(air)[p] =
                 Program(QuotientInputs(air) \cup (IF Len(air.q) = 1 THEN {} ELSE { <<"rows">> }), { <<"q">> })
<1>1. /\ <<"commit1">> \in StageNames(air) /\ <<"logup">> \in StageNames(air)
      /\ <<"commit2">> \in StageNames(air) /\ <<"quotient_commit">> \in StageNames(air)
      /\ air.witness => <<"witness_calc">> \in StageNames(air)
      /\ QuotientNames(air) \subseteq StageNames(air)
  BY DEF StageNames
<1>2. \A p \in StageNames(air) : Programs(air)[p] = StageProgram(air, p)
  BY ProgramOf
<1>3. StageProgram(air, <<"commit1">>) = Program({ <<"trace">> }, { <<"root1">>, <<"cm1_ext">>, <<"cm1_layers">> })
  BY DEF StageProgram
<1>4. StageProgram(air, <<"logup">>) =
         Program(WitnessInputs(air) \cup { <<"challenges">> },
                 { <<"cm2">>, <<"airvalues">> } \cup (IF air.sum THEN { <<"airgroupvalue">> } ELSE {}))
  BY DEF StageProgram
<1>5. StageProgram(air, <<"commit2">>) = Program({ <<"cm2">> }, { <<"root2">>, <<"cm2_ext">>, <<"cm2_layers">> })
  BY DEF StageProgram
<1>6. StageProgram(air, <<"quotient_commit">>) =
         Program(Parts("q", air.q), { <<"qsec">>, <<"rootq">>, <<"qsec_layers">> })
  BY DEF StageProgram
<1>7. StageProgram(air, <<"witness_calc">>) = Program(WitnessInputs(air), { <<"trace">> })
  BY DEF StageProgram
<1>8. ASSUME NEW p \in QuotientNames(air)
      PROVE  StageProgram(air, p) =
                Program(QuotientInputs(air) \cup (IF Len(air.q) = 1 THEN {} ELSE { <<"rows">> }), { <<"q">> })
  <2>1. p[1] = "quotient"
    BY DEF QuotientNames, Named
  <2>2. QED
    BY <2>1 DEF StageProgram
<1>9. QED
  BY <1>1, <1>2, <1>3, <1>4, <1>5, <1>6, <1>7, <1>8

LEMMA OpeningPrograms ==
    /\ Programs(air)[<<"lev">>] = Program({ <<"xi">> }, { <<"lev">> })
    /\ \A size \in Range(air.e) : Programs(air)[<<"evals", size>>] =
                 Program(Sections(air) \cup { <<"lev">>, <<"start">> }, { <<"evals">> })
    /\ Programs(air)[<<"evals_sum">>] = Program(Parts("evals", air.e), { <<"evals">> })
    /\ \A size \in Range(air.d) : Programs(air)[<<"deep", size>>] =
                 Program(Sections(air) \cup { <<"evals">>, <<"domain">>, <<"xi">>, <<"vf1">>, <<"vf2">>, <<"start">> },
                         { <<"fri_pol">> })
    /\ Programs(air)[<<"deep_concat">>] = Program(Parts("fri_pol", air.d), { <<"fri_pol">> })
<1>1. /\ <<"lev">> \in OpeningNames(air) /\ <<"evals_sum">> \in OpeningNames(air) /\ <<"deep_concat">> \in OpeningNames(air)
      /\ \A size \in Range(air.e) : <<"evals", size>> \in OpeningNames(air)
      /\ \A size \in Range(air.d) : <<"deep", size>> \in OpeningNames(air)
  BY DEF OpeningNames, Named
<1>2. \A p \in OpeningNames(air) : Programs(air)[p] = OpeningProgram(air, p)
  BY ProgramOf
<1>3. OpeningProgram(air, <<"lev">>) = Program({ <<"xi">> }, { <<"lev">> })
  BY DEF OpeningProgram
<1>4. \A size : OpeningProgram(air, <<"evals", size>>) = Program(Sections(air) \cup { <<"lev">>, <<"start">> }, { <<"evals">> })
  BY DEF OpeningProgram
<1>5. OpeningProgram(air, <<"evals_sum">>) = Program(Parts("evals", air.e), { <<"evals">> })
  BY DEF OpeningProgram
<1>6. \A size : OpeningProgram(air, <<"deep", size>>) =
         Program(Sections(air) \cup { <<"evals">>, <<"domain">>, <<"xi">>, <<"vf1">>, <<"vf2">>, <<"start">> },
                 { <<"fri_pol">> })
  BY DEF OpeningProgram
<1>7. OpeningProgram(air, <<"deep_concat">>) = Program(Parts("fri_pol", air.d), { <<"fri_pol">> })
  BY DEF OpeningProgram
<1>8. QED
  BY <1>1, <1>2, <1>3, <1>4, <1>5, <1>6, <1>7

LEMMA FriPrograms ==
    /\ \A i \in Rounds(air) : Programs(air)[<<"fri_commit", i>>] =
                 Program({ <<"codeword">> }, { <<"fri_leaves", i>>, <<"fri_root", i>>, <<"fri_layers", i>> })
    /\ \A i \in Rounds(air) : Programs(air)[<<"fri_fold", i>>] =
                 Program({ <<"codeword">>, <<"beta">> }, { <<"codeword">> })
    /\ Programs(air)[<<"fri_final">>] = Program({ <<"codeword">> }, { <<"final_pol">> })
    /\ Programs(air)[<<"grind">>] = Program({ <<"challenge">> }, { <<"nonce">> })
<1>1. /\ <<"fri_final">> \in FriNames(air) /\ <<"grind">> \in FriNames(air)
      /\ \A i \in Rounds(air) : <<"fri_commit", i>> \in FriNames(air) /\ <<"fri_fold", i>> \in FriNames(air)
  BY DEF FriNames, Named
<1>2. \A p \in FriNames(air) : Programs(air)[p] = FriProgram(p)
  BY ProgramOf
<1>3. \A i : FriProgram(<<"fri_commit", i>>) =
         Program({ <<"codeword">> }, { <<"fri_leaves", i>>, <<"fri_root", i>>, <<"fri_layers", i>> })
  BY DEF FriProgram
<1>4. \A i : FriProgram(<<"fri_fold", i>>) = Program({ <<"codeword">>, <<"beta">> }, { <<"codeword">> })
  BY DEF FriProgram
<1>5. FriProgram(<<"fri_final">>) = Program({ <<"codeword">> }, { <<"final_pol">> })
  BY DEF FriProgram
<1>6. FriProgram(<<"grind">>) = Program({ <<"challenge">> }, { <<"nonce">> })
  BY DEF FriProgram
<1>7. QED
  BY <1>1, <1>2, <1>3, <1>4, <1>5, <1>6

LEMMA TreePrograms ==
    /\ Programs(air)[<<"open_const">>] = Opened(<<"const_ext">>, <<"const_layers">>)
    /\ \A c \in Ids(air) : Programs(air)[<<"open_custom", c>>] = Opened(<<"custom_ext", c>>, <<"custom_layers", c>>)
    /\ Programs(air)[<<"open_cm1">>] = Opened(<<"cm1_ext">>, <<"cm1_layers">>)
    /\ Programs(air)[<<"open_cm2">>] = Opened(<<"cm2_ext">>, <<"cm2_layers">>)
    /\ Programs(air)[<<"open_qsec">>] = Opened(<<"qsec">>, <<"qsec_layers">>)
    /\ \A i \in Rounds(air) : Programs(air)[<<"open_fri", i>>] = Opened(<<"fri_leaves", i>>, <<"fri_layers", i>>)
<1>1. /\ <<"open_const">> \in TreeNames(air) /\ <<"open_cm1">> \in TreeNames(air)
      /\ <<"open_cm2">> \in TreeNames(air) /\ <<"open_qsec">> \in TreeNames(air)
      /\ \A c \in Ids(air) : <<"open_custom", c>> \in TreeNames(air)
      /\ \A i \in Rounds(air) : <<"open_fri", i>> \in TreeNames(air)
  BY DEF TreeNames, Named
<1>2. \A p \in TreeNames(air) : Programs(air)[p] = TreeProgram(p)
  BY ProgramOf
<1>3. TreeProgram(<<"open_const">>) = Opened(<<"const_ext">>, <<"const_layers">>)
  BY DEF TreeProgram
<1>4. \A c : TreeProgram(<<"open_custom", c>>) = Opened(<<"custom_ext", c>>, <<"custom_layers", c>>)
  BY DEF TreeProgram
<1>5. TreeProgram(<<"open_cm1">>) = Opened(<<"cm1_ext">>, <<"cm1_layers">>)
  BY DEF TreeProgram
<1>6. TreeProgram(<<"open_cm2">>) = Opened(<<"cm2_ext">>, <<"cm2_layers">>)
  BY DEF TreeProgram
<1>7. TreeProgram(<<"open_qsec">>) = Opened(<<"qsec">>, <<"qsec_layers">>)
  BY DEF TreeProgram
<1>8. \A i : TreeProgram(<<"open_fri", i>>) = Opened(<<"fri_leaves", i>>, <<"fri_layers", i>>)
  BY DEF TreeProgram
<1>9. QED
  BY <1>1, <1>2, <1>3, <1>4, <1>5, <1>6, <1>7, <1>8

-----------------------------------------------------------------------------
(* The key.                                                                *)

WholeKey ==
    OfTheSetup \cup BaseNames(air) \cup { <<"const_ext">>, <<"const_layers">> }
      \cup UNION { CustomNames(c) : c \in Ids(air) }

LEMMA RunName == ASSUME NEW p PROVE Run(p)[1] = p
BY DEF Run

\* What the setup programs leave of one custom commit.
CustomEnv(c) ==
    RunIntoRenamed(<<>>, Run(<<"custom_setup", c>>), <<"custom_setup_layers", c>>, <<"custom_layers", c>>)

LEMMA CustomEnvIs ==
    ASSUME NEW c \in Ids(air)
    PROVE  /\ IsMap(CustomEnv(c))
           /\ DOMAIN CustomEnv(c) = CustomNames(c) \cup { <<"custom_root", c>> }
           /\ \A n \in DOMAIN CustomEnv(c) : n[2] = c /\ CustomEnv(c)[n] = Means(n)
<1> DEFINE outs == { <<"custom_root", c>>, <<"custom_ext", c>>, <<"custom_setup_layers", c>> }
<1>1. OutsOf(Run(<<"custom_setup", c>>)) = outs
  <2>1. Programs(air)[<<"custom_setup", c>>] = Program({ <<"custom_base", c>> }, outs)
    BY SetupPrograms
  <2>2. QED
    BY <2>1, RunName DEF OutsOf, Program
<1>2. <<"custom_setup_layers", c>> \in outs /\ <<"custom_layers", c>> \notin outs
  OBVIOUS
<1>3. /\ IsMap(CustomEnv(c))
      /\ DOMAIN CustomEnv(c) = (outs \ {<<"custom_setup_layers", c>>}) \cup {<<"custom_layers", c>>} \cup DOMAIN <<>>
      /\ \A n \in outs \ {<<"custom_setup_layers", c>>} : CustomEnv(c)[n] = Out(Run(<<"custom_setup", c>>), n)
      /\ CustomEnv(c)[<<"custom_layers", c>>] = Out(Run(<<"custom_setup", c>>), <<"custom_setup_layers", c>>)
  <2> HIDE DEF outs
  <2>1. IsRenamed(CustomEnv(c), <<>>, Run(<<"custom_setup", c>>), <<"custom_setup_layers", c>>, <<"custom_layers", c>>)
    BY <1>1, <1>2, RunIntoRenamedIs DEF CustomEnv
  <2>2. QED
    BY <1>1, <2>1 DEF IsRenamed
<1>4. DOMAIN CustomEnv(c) = CustomNames(c) \cup { <<"custom_root", c>> }
  <2>1. DOMAIN <<>> = {}
    OBVIOUS
  <2>2. (outs \ {<<"custom_setup_layers", c>>}) \cup {<<"custom_layers", c>>} = CustomNames(c) \cup { <<"custom_root", c>> }
    BY DEF CustomNames
  <2>3. QED
    BY <1>3, <2>1, <2>2
<1>5. /\ Means(<<"custom_root", c>>) = Out(Run(<<"custom_setup", c>>), <<"custom_root", c>>)
      /\ Means(<<"custom_ext", c>>) = Out(Run(<<"custom_setup", c>>), <<"custom_ext", c>>)
      /\ Means(<<"custom_layers", c>>) = Out(Run(<<"custom_setup", c>>), <<"custom_setup_layers", c>>)
  BY DEF Means
<1>6. /\ CustomEnv(c)[<<"custom_root", c>>] = Means(<<"custom_root", c>>)
      /\ CustomEnv(c)[<<"custom_ext", c>>] = Means(<<"custom_ext", c>>)
      /\ CustomEnv(c)[<<"custom_layers", c>>] = Means(<<"custom_layers", c>>)
  BY <1>3, <1>5
<1>7. QED
  BY <1>3, <1>4, <1>6 DEF CustomNames

LEMMA SetupEnvIs ==
    ASSUME IsAir(air)
    PROVE  IsMap(SetupEnv) /\ DOMAIN SetupEnv = WholeKey /\ \A n \in WholeKey : SetupEnv[n] = Means(n)
<1> DEFINE uploaded == [n \in BaseNames(air) |-> Host(n)]
           consts == RunInto(uploaded, Run(<<"constants">>))
           const == RunIntoRenamed(consts, Run(<<"const_setup">>), <<"const_setup_layers">>, <<"const_layers">>)
           customs == UNION { DOMAIN CustomEnv(c) : c \in Ids(air) }
           joined == [n \in customs |-> CustomEnv(n[2])[n]]
           trees == joined ++ const
           rows == [n \in Parts("rows", air.q) |-> Window(StartOf(air.q, n[2]))]
           early == { <<"zi">>, <<"domain">> }
           tree == { <<"const_root">>, <<"const_ext">>, <<"const_setup_layers">> }
<1>1. SetupEnv = IF Len(air.q) = 1 THEN trees ELSE rows ++ trees
  BY DEF SetupEnv, CustomEnv
<1>2. /\ DOMAIN consts = early \cup BaseNames(air)
      /\ \A n \in early : consts[n] = Means(n)
      /\ \A n \in BaseNames(air) : consts[n] = Means(n)
  <2>1. OutsOf(Run(<<"constants">>)) = early /\ <<>> \notin early
    BY SetupPrograms, RunName DEF OutsOf, Program
  <2>2. /\ DOMAIN consts = early \cup DOMAIN uploaded
        /\ \A n \in early : consts[n] = Out(Run(<<"constants">>), n)
        /\ \A n \in DOMAIN uploaded \ early : consts[n] = uploaded[n]
    <3> HIDE DEF uploaded, early
    <3>1. QED
      BY <2>1, RunIntoIs DEF IsRunInto
  <2>3. BaseNames(air) \cap early = {}
    BY DEF BaseNames, Named
  <2>4. \A n \in BaseNames(air) : Means(n) = Host(n)
    BY DEF BaseNames, Named, Means
  <2>5. \A n \in early : Means(n) = Out(Run(<<"constants">>), n)
    BY DEF Means
  <2>6. QED
    BY <2>2, <2>3, <2>4, <2>5
<1>3. /\ DOMAIN const = { <<"const_root">>, <<"const_ext">>, <<"const_layers">> } \cup early \cup BaseNames(air)
      /\ \A n \in DOMAIN const : const[n] = Means(n)
  <2>1. OutsOf(Run(<<"const_setup">>)) = tree
    BY SetupPrograms, RunName DEF OutsOf, Program
  <2>2. <<"const_setup_layers">> \in tree /\ <<"const_layers">> \notin tree
    OBVIOUS
  <2>3. /\ DOMAIN const = (tree \ {<<"const_setup_layers">>}) \cup {<<"const_layers">>} \cup DOMAIN consts
        /\ \A n \in tree \ {<<"const_setup_layers">>} : const[n] = Out(Run(<<"const_setup">>), n)
        /\ const[<<"const_layers">>] = Out(Run(<<"const_setup">>), <<"const_setup_layers">>)
        /\ \A n \in DOMAIN consts \ (tree \cup {<<"const_layers">>}) : const[n] = consts[n]
    <3> HIDE DEF consts, tree
    <3>1. IsRenamed(const, consts, Run(<<"const_setup">>), <<"const_setup_layers">>, <<"const_layers">>)
      BY <2>1, <2>2, RunIntoRenamedIs
    <3>2. QED
      BY <2>1, <3>1 DEF IsRenamed
  <2>4. (early \cup BaseNames(air)) \cap (tree \cup {<<"const_layers">>}) = {}
    BY DEF BaseNames, Named
  <2>5. /\ Means(<<"const_root">>) = Out(Run(<<"const_setup">>), <<"const_root">>)
        /\ Means(<<"const_ext">>) = Out(Run(<<"const_setup">>), <<"const_ext">>)
        /\ Means(<<"const_layers">>) = Out(Run(<<"const_setup">>), <<"const_setup_layers">>)
    BY DEF Means
  <2>6. tree \ {<<"const_setup_layers">>} = { <<"const_root">>, <<"const_ext">> }
    OBVIOUS
  <2> HIDE DEF consts, const, tree
  <2>7. DOMAIN const = { <<"const_root">>, <<"const_ext">>, <<"const_layers">> } \cup early \cup BaseNames(air)
    BY <1>2, <2>3, <2>6
  <2>8. \A n \in { <<"const_root">>, <<"const_ext">>, <<"const_layers">> } : const[n] = Means(n)
    BY <2>3, <2>5, <2>6
  <2>9. \A n \in early \cup BaseNames(air) : const[n] = Means(n)
    <3> HIDE DEF early
    <3>1. QED
      BY <1>2, <2>3, <2>4
  <2>10. QED
    BY <2>7, <2>8, <2>9
<1>4. /\ customs = Named("custom_root", Ids(air)) \cup UNION { CustomNames(c) : c \in Ids(air) }
      /\ \A n \in customs : joined[n] = Means(n)
  <2>1. \A c \in Ids(air) : /\ DOMAIN CustomEnv(c) = CustomNames(c) \cup { <<"custom_root", c>> }
                            /\ \A n \in DOMAIN CustomEnv(c) : n[2] = c /\ CustomEnv(c)[n] = Means(n)
    BY CustomEnvIs
  <2>2. \A n : n \in customs <=> \E c \in Ids(air) : n \in CustomNames(c) \cup { <<"custom_root", c>> }
    BY <2>1
  <2>3. customs = Named("custom_root", Ids(air)) \cup UNION { CustomNames(c) : c \in Ids(air) }
    <3> HIDE DEF customs
    <3>1. QED
      BY <2>2 DEF Named
  <2>4. ASSUME NEW n \in customs PROVE joined[n] = Means(n)
    <3>1. PICK c \in Ids(air) : n \in DOMAIN CustomEnv(c)
      OBVIOUS
    <3>2. n[2] = c /\ CustomEnv(c)[n] = Means(n)
      BY <2>1, <3>1
    <3>3. joined[n] = CustomEnv(n[2])[n]
      <4> HIDE DEF customs
      <4>1. QED
        OBVIOUS
    <3>4. QED
      BY <3>2, <3>3
  <2>5. QED
    BY <2>3, <2>4
<1>5. DOMAIN trees = customs \cup DOMAIN const /\ \A n \in DOMAIN trees : trees[n] = Means(n)
  <2>1. DOMAIN joined = customs
    OBVIOUS
  <2> HIDE DEF joined, const, customs
  <2>2. IsJoin(trees, joined, const)
    BY JoinIs
  <2>3. QED
    BY <1>3, <1>4, <2>1, <2>2 DEF IsJoin
<1>6. IsMap(trees) /\ IsMap(rows ++ trees)
  <2> HIDE DEF joined, const, rows
  <2>1. QED
    BY JoinIs DEF IsJoin
<1>7. \A n \in Parts("rows", air.q) : rows[n] = Means(n)
  BY DEF Parts, Means
<1>8. DOMAIN (rows ++ trees) = Parts("rows", air.q) \cup DOMAIN trees /\ \A n \in DOMAIN (rows ++ trees) : (rows ++ trees)[n] = Means(n)
  <2>1. DOMAIN rows = Parts("rows", air.q)
    OBVIOUS
  <2> HIDE DEF rows, trees
  <2>2. IsJoin(rows ++ trees, rows, trees)
    BY JoinIs
  <2>3. QED
    BY <1>5, <1>7, <2>1, <2>2 DEF IsJoin
<1>9. Len(air.q) # 1 <=> Len(air.q) > 1
  <2>1. Len(air.q) \in Nat \ {0}
    BY AirIs
  <2>2. \A m \in Nat \ {0} : m # 1 <=> m > 1
    OBVIOUS
  <2>3. QED
    BY ONLY <2>1, <2>2
<1>10. WholeKey = Only(Len(air.q) > 1, Parts("rows", air.q)) \cup DOMAIN trees
  <2> HIDE DEF customs, const, trees
  <2>1. QED
    BY <1>3, <1>4, <1>5 DEF WholeKey, OfTheSetup, Only
<1> HIDE DEF rows, trees
<1>11. QED
  BY <1>1, <1>5, <1>6, <1>8, <1>9, <1>10 DEF Only

\* No program after logup reads a base section.
LEMMA BaseIsDead == BaseDeadAfterLogup = BaseNames(air)
<1>1. \A n \in BaseNames(air) : n[1] \in { "const_base", "custom_base" }
  BY DEF BaseNames, Named
<1>2. ASSUME NEW p \in ProgramNames(air) \ RunsByLogup
      PROVE  \A n \in Programs(air)[p].in : n[1] \notin { "const_base", "custom_base" }
  <2>1. p \notin SetupNames(air)
    BY DEF SetupNames, RunsByLogup, Named
  <2>2. CASE p \in StageNames(air)
    <3>1. p \in { <<"commit2">>, <<"quotient_commit">> } \cup QuotientNames(air)
      BY <2>2 DEF StageNames, RunsByLogup
    <3>2. CASE p = <<"commit2">>
      <4>1. Programs(air)[p] = Program({ <<"cm2">> }, { <<"root2">>, <<"cm2_ext">>, <<"cm2_layers">> })
        BY <3>2, StagePrograms
      <4>2. QED
        BY <4>1 DEF Program
    <3>3. CASE p = <<"quotient_commit">>
      <4>1. Programs(air)[p] = Program(Parts("q", air.q), { <<"qsec">>, <<"rootq">>, <<"qsec_layers">> })
        BY <3>3, StagePrograms
      <4>2. QED
        BY <4>1 DEF Parts, Program
    <3>4. CASE p \in QuotientNames(air)
      <4>1. Programs(air)[p] =
               Program(QuotientInputs(air) \cup (IF Len(air.q) = 1 THEN {} ELSE { <<"rows">> }), { <<"q">> })
        BY <3>4, StagePrograms
      <4>2. QED
        BY <4>1 DEF QuotientInputs, Named, Scalars, Program
    <3>5. QED
      BY <3>1, <3>2, <3>3, <3>4
  <2>3. CASE p \in OpeningNames(air)
    <3>1. Programs(air)[p] = OpeningProgram(air, p)
      BY <2>3, ProgramOf
    <3>2. p[1] \in OpeningKinds
      BY <2>3, Kinds
    <3>3. \A n \in Sections(air) : n[1] \notin { "const_base", "custom_base" }
      BY DEF Sections, Named
    <3>4. QED
      BY <3>1, <3>2, <3>3 DEF OpeningProgram, OpeningKinds, Program, Parts
  <2>4. CASE p \in FriNames(air)
    <3>1. Programs(air)[p] = FriProgram(p) /\ p[1] \in FriKinds
      BY <2>4, ProgramOf, Kinds
    <3>2. QED
      BY <3>1 DEF FriProgram, FriKinds, Program
  <2>5. CASE p \in TreeNames(air)
    <3>1. Programs(air)[p] = TreeProgram(p) /\ p[1] \in TreeKinds
      BY <2>5, ProgramOf, Kinds
    <3>2. QED
      BY <3>1 DEF TreeProgram, TreeKinds, Program, Opened
  <2>6. QED
    BY <2>1, <2>2, <2>3, <2>4, <2>5 DEF ProgramNames
<1>3. QED
  BY <1>1, <1>2 DEF BaseDeadAfterLogup

-----------------------------------------------------------------------------
(* The inputs of the runs.                                                 *)

LEMMA WindowKinds ==
    ASSUME NEW a
    PROVE  /\ \A r \in Range(QuotientWindows(a)) : r[1] \in QuotientNames(a) /\ r[1][1] = "quotient"
           /\ \A r \in Range(EvalsWindows(a)) : r[1] \in Named("evals", Range(a.e)) /\ r[1][1] = "evals"
           /\ \A r \in Range(DeepWindows(a)) : r[1] \in Named("deep", Range(a.d)) /\ r[1][1] = "deep"
<1>1. \A r \in Range(QuotientWindows(a)) : r[1] \in QuotientNames(a) /\ r[1][1] = "quotient"
  <2>1. ASSUME NEW j \in DOMAIN a.q PROVE QuotientRun(a, j)[1] \in QuotientNames(a) /\ QuotientRun(a, j)[1][1] = "quotient"
    BY DEF QuotientRun, QuotientNames, Run, Named, Range
  <2>2. QED
    BY <2>1 DEF QuotientWindows, Range
<1>2. \A r \in Range(EvalsWindows(a)) : r[1] \in Named("evals", Range(a.e)) /\ r[1][1] = "evals"
  <2>1. ASSUME NEW j \in DOMAIN a.e PROVE EvalsRun(a, j)[1] \in Named("evals", Range(a.e)) /\ EvalsRun(a, j)[1][1] = "evals"
    BY DEF EvalsRun, Named, Range
  <2>2. QED
    BY <2>1 DEF EvalsWindows, Range
<1>3. \A r \in Range(DeepWindows(a)) : r[1] \in Named("deep", Range(a.d)) /\ r[1][1] = "deep"
  <2>1. ASSUME NEW j \in DOMAIN a.d PROVE DeepRun(a, j)[1] \in Named("deep", Range(a.d)) /\ DeepRun(a, j)[1][1] = "deep"
    BY DEF DeepRun, Named, Range
  <2>2. QED
    BY <2>1 DEF DeepWindows, Range
<1>4. QED
  BY <1>1, <1>2, <1>3

LEMMA RunKinds ==
    ASSUME NEW a
    PROVE  /\ \A r \in StageRuns(a) : r[1] \in StageNames(a) /\ r[1][1] \in StageKinds
           /\ \A r \in OpeningRuns(a) : r[1] \in OpeningNames(a) /\ r[1][1] \in OpeningKinds
<1>1. \A r \in StageRuns(a) : r[1] \in StageNames(a)
  BY WindowKinds DEF StageRuns, RunsOf, Run, StageNames
<1>2. \A r \in OpeningRuns(a) : r[1] \in OpeningNames(a)
  BY WindowKinds DEF OpeningRuns, RunsOf, Run, OpeningNames
<1>3. QED
  BY <1>1, <1>2, Kinds

LEMMA RunsAre ==
    ASSUME NEW a
    PROVE  /\ \A p \in SetupNames(a) \cup FriNames(a) \cup TreeNames(a) : Run(p) \in Runs(a)
           /\ \A r \in StageRuns(a) \cup OpeningRuns(a) : r \in Runs(a)
BY DEF Runs, RunsOf

LEMMA ArgsByKind ==
    ASSUME NEW a
    PROVE  /\ \A p \in SetupNames(a) : Run(p) \in Runs(a) /\ ArgsOf(a, Run(p)) = SetupArgs(Run(p))
           /\ \A r \in StageRuns(a) : r \in Runs(a) /\ ArgsOf(a, r) = StageArgs(a, r)
           /\ \A r \in OpeningRuns(a) : r \in Runs(a) /\ ArgsOf(a, r) = OpeningRunArgs(a, r)
           /\ \A p \in FriNames(a) : Run(p) \in Runs(a) /\ ArgsOf(a, Run(p)) = FriArgs(a, Run(p))
           /\ \A p \in TreeNames(a) : Run(p) \in Runs(a) /\ ArgsOf(a, Run(p)) = OpenTreeArgs(Run(p))
<1>1. \A p : Run(p)[1] = p
  BY RunName
<1>2. ASSUME NEW p \in SetupNames(a) PROVE ArgsOf(a, Run(p)) = SetupArgs(Run(p))
  <2>1. /\ p \notin FriNames(a) /\ p \notin TreeNames(a)
        /\ Run(p) \notin StageRuns(a) /\ Run(p) \notin OpeningRuns(a)
    BY <1>1, RunKinds, Kinds DEF StageKinds, SetupKinds, OpeningKinds, FriKinds, TreeKinds
  <2>2. QED
    BY <1>1, <2>1 DEF ArgsOf
<1>3. ASSUME NEW r \in StageRuns(a) PROVE ArgsOf(a, r) = StageArgs(a, r)
  <2>1. /\ r[1] \notin SetupNames(a) /\ r[1] \notin FriNames(a) /\ r[1] \notin TreeNames(a)
        /\ r \notin OpeningRuns(a)
    BY RunKinds, Kinds DEF StageKinds, SetupKinds, OpeningKinds, FriKinds, TreeKinds
  <2>2. QED
    BY <2>1 DEF ArgsOf
<1>4. ASSUME NEW r \in OpeningRuns(a) PROVE ArgsOf(a, r) = OpeningRunArgs(a, r)
  <2>1. /\ r[1] \notin SetupNames(a) /\ r[1] \notin FriNames(a) /\ r[1] \notin TreeNames(a)
        /\ r \notin StageRuns(a)
    BY RunKinds, Kinds DEF StageKinds, SetupKinds, OpeningKinds, FriKinds, TreeKinds
  <2>2. QED
    BY <2>1 DEF ArgsOf
<1>5. ASSUME NEW p \in FriNames(a) PROVE ArgsOf(a, Run(p)) = FriArgs(a, Run(p))
  <2>1. /\ p \notin SetupNames(a) /\ p \notin TreeNames(a)
        /\ Run(p) \notin StageRuns(a) /\ Run(p) \notin OpeningRuns(a)
    BY <1>1, RunKinds, Kinds DEF StageKinds, SetupKinds, OpeningKinds, FriKinds, TreeKinds
  <2>2. QED
    BY <1>1, <2>1 DEF ArgsOf
<1>6. ASSUME NEW p \in TreeNames(a) PROVE ArgsOf(a, Run(p)) = OpenTreeArgs(Run(p))
  <2>1. /\ p \notin SetupNames(a) /\ p \notin FriNames(a)
        /\ Run(p) \notin StageRuns(a) /\ Run(p) \notin OpeningRuns(a)
    BY <1>1, RunKinds, Kinds DEF StageKinds, SetupKinds, OpeningKinds, FriKinds, TreeKinds
  <2>2. QED
    BY <1>1, <2>1 DEF ArgsOf
<1>7. QED
  BY <1>2, <1>3, <1>4, <1>5, <1>6, RunsAre

\* The single runs of a schedule, and the windows.
LEMMA StageRunsAre ==
    ASSUME NEW a
    PROVE  /\ \A p \in { "commit1", "logup", "commit2", "quotient_commit" } : Run(<<p>>) \in StageRuns(a)
           /\ a.witness => Run(<<"witness_calc">>) \in StageRuns(a)
           /\ \A j \in DOMAIN a.q : QuotientRun(a, j) \in StageRuns(a)
<1>1. \A p \in QuotientNames(a) : p[1] = "quotient"
  BY DEF QuotientNames, Named
<1>2. \A p \in { "commit1", "logup", "commit2", "quotient_commit" } : <<p>> \in StageNames(a) \ QuotientNames(a)
  BY <1>1 DEF StageNames
<1>3. a.witness => <<"witness_calc">> \in StageNames(a) \ QuotientNames(a)
  BY <1>1 DEF StageNames
<1>4. \A j \in DOMAIN a.q : QuotientRun(a, j) \in Range(QuotientWindows(a))
  BY DEF QuotientWindows, Range
<1>5. QED
  BY <1>2, <1>3, <1>4 DEF StageRuns, RunsOf

LEMMA OpeningRunsAre ==
    ASSUME NEW a
    PROVE  /\ \A p \in { "lev", "evals_sum", "deep_concat" } : Run(<<p>>) \in OpeningRuns(a)
           /\ \A j \in DOMAIN a.e : EvalsRun(a, j) \in OpeningRuns(a)
           /\ \A j \in DOMAIN a.d : DeepRun(a, j) \in OpeningRuns(a)
BY DEF OpeningRuns, RunsOf, EvalsWindows, DeepWindows, Range

-----------------------------------------------------------------------------
(* The calls: whatever the prove is at, the next run is one of the         *)
(* schedule's and its inputs are bound to what the tables say.             *)

Fits(g) ==
    /\ IsMap(g)
    /\ DOMAIN g = Programs(air)[NextRun[1]].in
    /\ DOMAIN g # {}
    /\ DOMAIN g \subseteq DOMAIN BindsFrom
    /\ \A n \in DOMAIN g : BindsFrom[n] = g[n]

NextCallIs == NextRun \in Runs(air) /\ Fits(ArgsOf(air, NextRun))

LEMMA CallFits ==
    ASSUME NextCallIs
    PROVE  /\ Programs(air)[NextRun[1]].in \subseteq DOMAIN BindsFrom
           /\ Args(air, NextRun, BindsFrom) = ArgsOf(air, NextRun)
BY ArgsAre DEF NextCallIs, Fits

\* The places of the tables.
LEMMA PlacesAre ==
    /\ Place("idle") = 0 /\ Place("witness_calc") = 1 /\ Place("commit1") = 2 /\ Place("logup") = 3
    /\ Place("commit2") = 4 /\ Place("quotient") = 5 /\ Place("quotient_commit") = 6 /\ Place("lev") = 7
    /\ Place("evals") = 8 /\ Place("evals_sum") = 9 /\ Place("deep") = 10 /\ Place("deep_concat") = 11
    /\ Place("commit") = 12 /\ Place("fold") = 12 /\ Place("fri_final") = 13 /\ Place("grind") = 14
    /\ Place("open_const") = 15 /\ Place("custom") = 16 /\ Place("open_cm1") = 17 /\ Place("open_cm2") = 18
    /\ Place("open_qsec") = 19 /\ Place("layers") = 20 /\ Place("end") = 21
BY DEF Place

\* Single inputs out of the environment.
LEMMA BoundOne ==
    ASSUME EnvHolds, NEW n \in EnvNames, BindsFrom = env, Programs(air)[NextRun[1]].in = {n},
           NEW v, Means(n) = v
    PROVE  Fits(Bind(n, v))
<1>1. IsMap(Bind(n, v)) /\ DOMAIN Bind(n, v) = {n} /\ Bind(n, v)[n] = v
  BY BindIs
<1>2. QED
  BY <1>1 DEF Fits, EnvHolds

LEMMA Commit1Call == ASSUME IsAir(air), EnvHolds, pc = "commit1" PROVE NextCallIs
<1>1. NextRun = Run(<<"commit1">>) /\ BindsFrom = env
  BY DEF NextRun, BindsFrom
<1>2. Run(<<"commit1">>) \in StageRuns(air)
  BY StageRunsAre
<1>3. StageArgs(air, Run(<<"commit1">>)) = Bind(<<"trace">>, Trace(air))
  BY DEF StageArgs, Run
<1>4. Programs(air)[<<"commit1">>].in = { <<"trace">> }
  BY StagePrograms, ProgramIs
<1>5. <<"trace">> \in EnvNames /\ Means(<<"trace">>) = Trace(air)
  BY PlacesAre DEF EnvNames, InstanceNames, Past, Only, Means
<1>6. QED
  BY <1>1, <1>2, <1>3, <1>4, <1>5, BoundOne, ArgsByKind, RunName DEF NextCallIs

LEMMA WitnessCall ==
    ASSUME IsAir(air), EnvHolds, pc = "witness_calc", air.witness
    PROVE  NextCallIs
<1>1. NextRun = Run(<<"witness_calc">>) /\ BindsFrom = env
  BY DEF NextRun, BindsFrom
<1>2. Run(<<"witness_calc">>) \in StageRuns(air)
  BY StageRunsAre
<1>3. StageArgs(air, Run(<<"witness_calc">>)) = WitnessArgs(air)
  BY DEF StageArgs, Run
<1>4. Programs(air)[<<"witness_calc">>].in = WitnessInputs(air)
  BY StagePrograms, ProgramIs
<1>5. WitnessInputs(air) \subseteq EnvNames
  BY PlacesAre DEF EnvNames, InstanceNames, KeyNames, Past, Only, WitnessInputs
<1>6. \A n \in WitnessInputs(air) : Means(n) = Host(n)
  BY PlacesAre DEF Means, WitnessInputs, Past, BaseNames, Named, Scalars
<1>7. /\ IsMap(WitnessArgs(air)) /\ DOMAIN WitnessArgs(air) = WitnessInputs(air)
      /\ \A n \in WitnessInputs(air) : WitnessArgs(air)[n] = Host(n)
  BY DEF WitnessArgs, WitnessInputs, IsMap
<1>8. <<"trace">> \in WitnessInputs(air)
  BY DEF WitnessInputs
<1>9. QED
  BY <1>1, <1>2, <1>3, <1>4, <1>5, <1>6, <1>7, <1>8, ArgsByKind, RunName DEF NextCallIs, Fits, EnvHolds

LEMMA LogUpCall == ASSUME IsAir(air), EnvHolds, pc = "logup" PROVE NextCallIs
<1>1. NextRun = Run(<<"logup">>) /\ BindsFrom = env
  BY DEF NextRun, BindsFrom
<1>2. Run(<<"logup">>) \in StageRuns(air)
  BY StageRunsAre
<1>3. StageArgs(air, Run(<<"logup">>)) = LogUpArgs(air)
  BY DEF StageArgs, Run
<1> DEFINE ins == WitnessInputs(air) \cup { <<"challenges">> }
<1>4. Programs(air)[<<"logup">>].in = ins
  BY StagePrograms, ProgramIs
<1>5. ins \subseteq EnvNames
  BY PlacesAre DEF EnvNames, InstanceNames, KeyNames, Past, Only, WitnessInputs
<1>6. /\ IsMap(LogUpArgs(air)) /\ DOMAIN LogUpArgs(air) = ins
      /\ \A n \in ins : LogUpArgs(air)[n] = Means(n)
  BY PlacesAre DEF LogUpArgs, WitnessInputs, IsMap, Means, Past, BaseNames, Named, Scalars
<1>7. <<"trace">> \in ins
  BY DEF WitnessInputs
<1> HIDE DEF ins
<1>8. Fits(LogUpArgs(air))
  BY <1>1, <1>4, <1>5, <1>6, <1>7, RunName DEF Fits, EnvHolds
<1>9. QED
  BY <1>1, <1>2, <1>3, <1>8, ArgsByKind DEF NextCallIs

LEMMA Commit2Call == ASSUME IsAir(air), EnvHolds, pc = "commit2" PROVE NextCallIs
<1>1. NextRun = Run(<<"commit2">>) /\ BindsFrom = env
  BY DEF NextRun, BindsFrom
<1>2. Run(<<"commit2">>) \in StageRuns(air)
  BY StageRunsAre
<1>3. StageArgs(air, Run(<<"commit2">>)) = Bind(<<"cm2">>, Out(Run(<<"logup">>), <<"cm2">>))
  BY DEF StageArgs, Run
<1>4. Programs(air)[<<"commit2">>].in = { <<"cm2">> }
  BY StagePrograms, ProgramIs
<1>5. <<"cm2">> \in EnvNames /\ Means(<<"cm2">>) = Out(Run(<<"logup">>), <<"cm2">>)
  BY PlacesAre DEF EnvNames, InstanceNames, Past, Only, Means
<1>6. QED
  BY <1>1, <1>2, <1>3, <1>4, <1>5, BoundOne, ArgsByKind, RunName DEF NextCallIs

LEMMA LevCall == ASSUME IsAir(air), EnvHolds, pc = "lev" PROVE NextCallIs
<1>1. NextRun = Run(<<"lev">>) /\ BindsFrom = env
  BY DEF NextRun, BindsFrom
<1>2. Run(<<"lev">>) \in OpeningRuns(air)
  BY OpeningRunsAre
<1>3. OpeningRunArgs(air, Run(<<"lev">>)) = Bind(<<"xi">>, Squeezed(<<"std_xi">>))
  BY DEF OpeningRunArgs, Run
<1>4. Programs(air)[<<"lev">>].in = { <<"xi">> }
  BY OpeningPrograms, ProgramIs
<1>5. <<"xi">> \in EnvNames /\ Means(<<"xi">>) = Squeezed(<<"std_xi">>)
  BY PlacesAre DEF EnvNames, InstanceNames, Past, Only, Means
<1>6. QED
  BY <1>1, <1>2, <1>3, <1>4, <1>5, BoundOne, ArgsByKind, RunName DEF NextCallIs

\* The sections of the key and of this prove, while all of them are there.
LEMMA CustomsAllLeft ==
    ASSUME IsAir(air), ~Past("custom"), pc # "custom"
    PROVE  CustomsLeft = Ids(air)
<1>1. Behind("custom", air.customs) = 0
  BY DEF Behind
<1>2. \A i \in DOMAIN air.customs : i > 0
  BY AirIs
<1>3. QED
  BY <1>1, <1>2 DEF CustomsLeft, Ids, Range

LEMMA SectionsAreThere ==
    ASSUME IsAir(air), pc \in { "quotient", "evals", "deep" }
    PROVE  /\ QuotientSections(air) \subseteq EnvNames
           /\ \A n \in QuotientSections(air) : Means(n) = SectionOut(n)
<1>1. /\ Past("commit1") /\ Past("commit2") /\ ~Past("open_const") /\ ~Past("custom")
      /\ ~Past("open_cm1") /\ ~Past("open_cm2")
  BY PlacesAre DEF Past
<1>2. CustomsLeft = Ids(air)
  BY <1>1, CustomsAllLeft
<1>3. \A c \in Ids(air) : <<"custom_ext", c>> \in EnvNames
  BY <1>2 DEF EnvNames, KeyNames, CustomNames
<1>4. <<"const_ext">> \in EnvNames
  BY <1>1 DEF EnvNames, KeyNames, Only
<1>5. { <<"cm1_ext">>, <<"cm2_ext">> } \subseteq EnvNames
  BY <1>1 DEF EnvNames, InstanceNames, Only
<1>6. QED
  BY <1>3, <1>4, <1>5 DEF QuotientSections, Named, Means, SectionOut

LEMMA QuotientCall == ASSUME IsAir(air), EnvHolds, pc = "quotient", k \in DOMAIN air.q PROVE NextCallIs
<1> DEFINE r == QuotientRun(air, k)
           g == QuotientArgs(air, r)
           values == { <<"publics">>, <<"proofvalues">>, <<"airvalues">>, <<"airgroupvalues">>,
                       <<"challenges">>, <<"zi">> }
           rows == IF Len(air.q) = 1 THEN {} ELSE { <<"rows">> }
<1>1. NextRun = r
  BY DEF NextRun
<1>2. r \in StageRuns(air)
  BY StageRunsAre
<1>3. r[1] \in QuotientNames(air) /\ r[1][1] = "quotient"
  BY DEF QuotientRun, QuotientNames, Run, Named, Range
<1>4. StageArgs(air, r) = g
  BY <1>3 DEF StageArgs
<1>5. Programs(air)[r[1]].in = QuotientSections(air) \cup values \cup rows
  <2>1. Programs(air)[r[1]] = Program(QuotientInputs(air) \cup rows, { <<"q">> })
    BY <1>3, StagePrograms
  <2>2. QuotientInputs(air) = QuotientSections(air) \cup values
    BY DEF QuotientInputs, QuotientSections, Scalars
  <2> HIDE DEF values, rows, r
  <2>3. QED
    BY <2>1, <2>2, ProgramIs
<1>6. IsMap(g) /\ DOMAIN g = QuotientSections(air) \cup values \cup rows
  BY DEF QuotientArgs, IsMap
<1>7. Past("commit2") /\ ~Past("open_const") /\ ~Past("open_cm1") /\ ~Past("open_cm2") /\ ~Past("custom")
  BY PlacesAre DEF Past
<1>8. /\ QuotientSections(air) \subseteq EnvNames
      /\ \A n \in QuotientSections(air) : Means(n) = SectionOut(n)
  BY SectionsAreThere
<1>9. \A n \in QuotientSections(air) : n[1] \in { "cm1_ext", "cm2_ext", "const_ext", "custom_ext" }
  BY DEF QuotientSections, Named
<1>10. \A n \in QuotientSections(air) : g[n] = SectionOut(n)
  BY <1>9 DEF QuotientArgs
<1>11. values \subseteq EnvNames
  BY <1>7 DEF EnvNames, InstanceNames, KeyNames, OfTheSetup, Scalars, Only
<1>12. \A n \in values : g[n] = Means(n)
  BY PlacesAre DEF QuotientArgs, Means, Past
<1>13. Len(air.q) # 1 => g[<<"rows">>] = Window(r[2])
  BY DEF QuotientArgs
<1> HIDE DEF g, r, values
<1>14. CASE Len(air.q) = 1
  <2>1. BindsFrom = env
    BY <1>14 DEF BindsFrom
  <2>2. Fits(g)
    BY <1>1, <1>5, <1>6, <1>8, <1>10, <1>11, <1>12, <1>14, <2>1 DEF Fits, EnvHolds, values
  <2>3. QED
    BY <1>1, <1>2, <1>4, <2>2, ArgsByKind DEF NextCallIs
<1>15. CASE Len(air.q) # 1
  <2>1. Len(air.q) > 1
    <3>1. Len(air.q) \in Nat \ {0}
      BY AirIs
    <3>2. \A m \in Nat \ {0} : m # 1 => m > 1
      OBVIOUS
    <3>3. QED
      BY ONLY <1>15, <3>1, <3>2
  <2>2. <<"rows", k>> \in EnvNames /\ Means(<<"rows", k>>) = Window(StartOf(air.q, k))
    BY <2>1 DEF EnvNames, KeyNames, OfTheSetup, Only, Parts, Means
  <2>3. r[2] = StartOf(air.q, k)
    BY <1>15 DEF QuotientRun, r
  <2> DEFINE mine == Bind(<<"rows">>, env[<<"rows", k>>])
  <2>4. BindsFrom = mine ++ env
    BY <2>1 DEF BindsFrom
  <2>5. DOMAIN mine = { <<"rows">> } /\ mine[<<"rows">>] = Window(r[2])
    BY <2>2, <2>3, BindIs DEF EnvHolds
  <2>6. \A n \in QuotientSections(air) \cup values : n # <<"rows">>
    BY <1>9 DEF values
  <2> HIDE DEF mine
  <2>7. IsJoin(BindsFrom, mine, env)
    BY <2>4, JoinIs
  <2>8. /\ QuotientSections(air) \cup values \cup rows \subseteq DOMAIN BindsFrom
        /\ \A n \in QuotientSections(air) \cup values \cup rows : BindsFrom[n] = g[n]
    BY <1>8, <1>10, <1>11, <1>12, <1>13, <1>15, <2>5, <2>6, <2>7 DEF IsJoin, EnvHolds
  <2>9. <<"rows">> \in rows
    BY <1>15
  <2> HIDE DEF rows
  <2>10. Fits(g)
    BY <1>1, <1>5, <1>6, <2>8, <2>9 DEF Fits
  <2>11. QED
    BY <1>1, <1>2, <1>4, <2>10, ArgsByKind DEF NextCallIs
<1>16. QED
  BY <1>14, <1>15


LEMMA EvalsCall == ASSUME IsAir(air), EnvHolds, pc = "evals", k \in DOMAIN air.e PROVE NextCallIs
<1> DEFINE r == EvalsRun(air, k)
           g == EvalsArgs(air, r)
           values == { <<"lev">>, <<"qsec">> }
           mine == Bind(<<"start">>, Window(NextRun[2]))
<1>1. NextRun = r
  BY DEF NextRun
<1>2. r \in OpeningRuns(air)
  BY OpeningRunsAre
<1>3. r[1] = <<"evals", air.e[k]>> /\ air.e[k] \in Range(air.e)
  BY DEF EvalsRun, Range
<1>4. OpeningRunArgs(air, r) = g
  BY <1>3 DEF OpeningRunArgs
<1>5. Programs(air)[r[1]].in = QuotientSections(air) \cup values \cup { <<"start">> }
  <2>1. Programs(air)[r[1]] = Program(Sections(air) \cup { <<"lev">>, <<"start">> }, { <<"evals">> })
    BY <1>3, OpeningPrograms
  <2>2. Sections(air) \cup { <<"lev">>, <<"start">> } = QuotientSections(air) \cup values \cup { <<"start">> }
    BY DEF Sections, QuotientSections
  <2> HIDE DEF values, r
  <2>3. QED
    BY <2>1, <2>2, ProgramIs
<1>6. IsMap(g) /\ DOMAIN g = QuotientSections(air) \cup values \cup { <<"start">> }
  BY DEF EvalsArgs, OpeningSections, IsMap
<1>7. /\ QuotientSections(air) \subseteq EnvNames
      /\ \A n \in QuotientSections(air) : Means(n) = SectionOut(n)
  BY SectionsAreThere
<1>8. \A n \in QuotientSections(air) : n[1] \in { "cm1_ext", "cm2_ext", "const_ext", "custom_ext" }
  BY DEF QuotientSections, Named
<1>9. \A n \in QuotientSections(air) : g[n] = SectionOut(n)
  BY <1>8 DEF EvalsArgs, OpeningSections
<1>10. values \subseteq EnvNames
  BY PlacesAre DEF EnvNames, InstanceNames, Only, Past
<1>11. \A n \in values : g[n] = Means(n)
  BY DEF EvalsArgs, OpeningSections, Means, SectionOut
<1>12. g[<<"start">>] = Window(r[2])
  BY DEF EvalsArgs
<1>13. DOMAIN mine = { <<"start">> } /\ mine[<<"start">>] = Window(r[2])
  BY <1>1, BindIs
<1>14. \A n \in QuotientSections(air) \cup values : n # <<"start">>
  BY <1>8
<1>15. BindsFrom = mine ++ env
  BY DEF BindsFrom
<1> HIDE DEF g, r, values, mine
<1>16. IsJoin(BindsFrom, mine, env)
  BY <1>15, JoinIs
<1>17. /\ QuotientSections(air) \cup values \cup { <<"start">> } \subseteq DOMAIN BindsFrom
       /\ \A n \in QuotientSections(air) \cup values \cup { <<"start">> } : BindsFrom[n] = g[n]
  BY <1>7, <1>9, <1>10, <1>11, <1>12, <1>13, <1>14, <1>16 DEF IsJoin, EnvHolds
<1>18. Fits(g)
  BY <1>1, <1>5, <1>6, <1>17 DEF Fits
<1>19. QED
  BY <1>1, <1>2, <1>4, <1>18, ArgsByKind DEF NextCallIs

LEMMA DeepCall == ASSUME IsAir(air), EnvHolds, pc = "deep", k \in DOMAIN air.d PROVE NextCallIs
<1> DEFINE r == DeepRun(air, k)
           g == DeepArgs(air, r)
           values == { <<"qsec">>, <<"evals">>, <<"domain">>, <<"xi">>, <<"vf1">>, <<"vf2">> }
           mine == Bind(<<"start">>, Window(NextRun[2]))
<1>1. NextRun = r
  BY DEF NextRun
<1>2. r \in OpeningRuns(air)
  BY OpeningRunsAre
<1>3. r[1] = <<"deep", air.d[k]>> /\ air.d[k] \in Range(air.d)
  BY DEF DeepRun, Range
<1>4. OpeningRunArgs(air, r) = g
  BY <1>3 DEF OpeningRunArgs
<1>5. Programs(air)[r[1]].in = QuotientSections(air) \cup values \cup { <<"start">> }
  <2>1. Programs(air)[r[1]] = Program(Sections(air) \cup
               { <<"evals">>, <<"domain">>, <<"xi">>, <<"vf1">>, <<"vf2">>, <<"start">> }, { <<"fri_pol">> })
    BY <1>3, OpeningPrograms
  <2>2. Sections(air) \cup { <<"evals">>, <<"domain">>, <<"xi">>, <<"vf1">>, <<"vf2">>, <<"start">> } =
            QuotientSections(air) \cup values \cup { <<"start">> }
    BY DEF Sections, QuotientSections
  <2> HIDE DEF values, r
  <2>3. QED
    BY <2>1, <2>2, ProgramIs
<1>6. IsMap(g) /\ DOMAIN g = QuotientSections(air) \cup values \cup { <<"start">> }
  BY DEF DeepArgs, OpeningSections, IsMap
<1>7. /\ QuotientSections(air) \subseteq EnvNames
      /\ \A n \in QuotientSections(air) : Means(n) = SectionOut(n)
  BY SectionsAreThere
<1>8. \A n \in QuotientSections(air) : n[1] \in { "cm1_ext", "cm2_ext", "const_ext", "custom_ext" }
  BY DEF QuotientSections, Named
<1>9. \A n \in QuotientSections(air) : g[n] = SectionOut(n)
  BY <1>8 DEF DeepArgs, OpeningSections
<1>10. values \subseteq EnvNames
  BY PlacesAre DEF EnvNames, InstanceNames, KeyNames, OfTheSetup, Only, Past
<1>11. \A n \in values : g[n] = Means(n)
  BY PlacesAre DEF DeepArgs, OpeningSections, Means, SectionOut, Past
<1>12. g[<<"start">>] = Window(r[2])
  BY DEF DeepArgs
<1>13. DOMAIN mine = { <<"start">> } /\ mine[<<"start">>] = Window(r[2])
  BY <1>1, BindIs
<1>14. \A n \in QuotientSections(air) \cup values : n # <<"start">>
  BY <1>8
<1>15. BindsFrom = mine ++ env
  BY DEF BindsFrom
<1> HIDE DEF g, r, values, mine
<1>16. IsJoin(BindsFrom, mine, env)
  BY <1>15, JoinIs
<1>17. /\ QuotientSections(air) \cup values \cup { <<"start">> } \subseteq DOMAIN BindsFrom
       /\ \A n \in QuotientSections(air) \cup values \cup { <<"start">> } : BindsFrom[n] = g[n]
  BY <1>7, <1>9, <1>10, <1>11, <1>12, <1>13, <1>14, <1>16 DEF IsJoin, EnvHolds
<1>18. Fits(g)
  BY <1>1, <1>5, <1>6, <1>17 DEF Fits
<1>19. QED
  BY <1>1, <1>2, <1>4, <1>18, ArgsByKind DEF NextCallIs

\* A batch's concatenation reads the parts of all its windows.
LEMMA PartsFit ==
    ASSUME NEW prefix, NEW runs, NEW out, Len(runs) \in Nat, DOMAIN runs = 1..Len(runs), Len(runs) > 0,
           PartsHold(parts, prefix, runs, out, Len(runs)), BindsFrom = parts,
           Programs(air)[NextRun[1]].in = { <<prefix, j>> : j \in 1..Len(runs) }
    PROVE  Fits(PartArgs(prefix, runs, out))
<1> DEFINE names == { <<prefix, j>> : j \in 1..Len(runs) }
           g == PartArgs(prefix, runs, out)
<1>1. IsMap(g) /\ DOMAIN g = names /\ \A j \in 1..Len(runs) : g[<<prefix, j>>] = Out(runs[j], out)
  BY DEF PartArgs, Parts, IsMap
<1>2. DOMAIN parts = names /\ \A j \in 1..Len(runs) : parts[<<prefix, j>>] = Out(runs[j], out)
  BY DEF PartsHold
<1>3. <<prefix, 1>> \in names
  OBVIOUS
<1> HIDE DEF g
<1>4. \A n \in names : parts[n] = g[n]
  BY <1>1, <1>2
<1> HIDE DEF names
<1>5. QED
  BY <1>1, <1>2, <1>3, <1>4 DEF Fits, g, names

LEMMA QuotientCommitCall ==
    ASSUME IsAir(air), PartsAre, pc = "quotient_commit"
    PROVE  NextCallIs
<1> DEFINE runs == QuotientWindows(air)
<1>1. NextRun = Run(<<"quotient_commit">>) /\ BindsFrom = parts
  BY DEF NextRun, BindsFrom
<1>2. Run(<<"quotient_commit">>) \in StageRuns(air)
  BY StageRunsAre
<1>3. StageArgs(air, Run(<<"quotient_commit">>)) = PartArgs("q", runs, <<"q">>)
  BY DEF StageArgs, Run
<1>4. Len(runs) = Len(air.q) /\ Len(runs) \in Nat /\ Len(runs) > 0 /\ DOMAIN runs = 1..Len(runs)
  BY AirIs DEF QuotientWindows
<1>5. Programs(air)[<<"quotient_commit">>].in = { <<"q", j>> : j \in 1..Len(runs) }
  <2>1. Programs(air)[<<"quotient_commit">>].in = Parts("q", air.q)
    BY StagePrograms, ProgramIs
  <2>2. DOMAIN air.q = 1..Len(runs)
    BY <1>4, AirIs
  <2>3. QED
    BY <2>1, <2>2 DEF Parts
<1>6. PartsHold(parts, "q", runs, <<"q">>, Len(runs))
  <2>1. Behind("quotient", air.q) = Len(runs)
    BY <1>4, PlacesAre DEF Behind, Past
  <2>2. QED
    BY <2>1 DEF PartsAre
<1> HIDE DEF runs
<1>7. Fits(PartArgs("q", runs, <<"q">>))
  BY <1>1, <1>4, <1>5, <1>6, PartsFit, RunName
<1>8. QED
  BY <1>1, <1>2, <1>3, <1>7, ArgsByKind DEF NextCallIs

LEMMA EvalsSumCall ==
    ASSUME IsAir(air), PartsAre, pc = "evals_sum"
    PROVE  NextCallIs
<1> DEFINE runs == EvalsWindows(air)
<1>1. NextRun = Run(<<"evals_sum">>) /\ BindsFrom = parts
  BY DEF NextRun, BindsFrom
<1>2. Run(<<"evals_sum">>) \in OpeningRuns(air)
  BY OpeningRunsAre
<1>3. OpeningRunArgs(air, Run(<<"evals_sum">>)) = PartArgs("evals", runs, <<"evals">>)
  BY DEF OpeningRunArgs, Run
<1>4. Len(runs) = Len(air.e) /\ Len(runs) \in Nat /\ Len(runs) > 0 /\ DOMAIN runs = 1..Len(runs)
  BY AirIs DEF EvalsWindows
<1>5. Programs(air)[<<"evals_sum">>].in = { <<"evals", j>> : j \in 1..Len(runs) }
  <2>1. Programs(air)[<<"evals_sum">>].in = Parts("evals", air.e)
    BY OpeningPrograms, ProgramIs
  <2>2. DOMAIN air.e = 1..Len(runs)
    BY <1>4, AirIs
  <2>3. QED
    BY <2>1, <2>2 DEF Parts
<1>6. PartsHold(parts, "evals", runs, <<"evals">>, Len(runs))
  <2>1. Behind("evals", air.e) = Len(runs)
    BY <1>4, PlacesAre DEF Behind, Past
  <2>2. QED
    BY <2>1 DEF PartsAre
<1> HIDE DEF runs
<1>7. Fits(PartArgs("evals", runs, <<"evals">>))
  BY <1>1, <1>4, <1>5, <1>6, PartsFit, RunName
<1>8. QED
  BY <1>1, <1>2, <1>3, <1>7, ArgsByKind DEF NextCallIs

LEMMA DeepConcatCall ==
    ASSUME IsAir(air), PartsAre, pc = "deep_concat"
    PROVE  NextCallIs
<1> DEFINE runs == DeepWindows(air)
<1>1. NextRun = Run(<<"deep_concat">>) /\ BindsFrom = parts
  BY DEF NextRun, BindsFrom
<1>2. Run(<<"deep_concat">>) \in OpeningRuns(air)
  BY OpeningRunsAre
<1>3. OpeningRunArgs(air, Run(<<"deep_concat">>)) = PartArgs("fri_pol", runs, <<"fri_pol">>)
  BY DEF OpeningRunArgs, Run
<1>4. Len(runs) = Len(air.d) /\ Len(runs) \in Nat /\ Len(runs) > 0 /\ DOMAIN runs = 1..Len(runs)
  BY AirIs DEF DeepWindows
<1>5. Programs(air)[<<"deep_concat">>].in = { <<"fri_pol", j>> : j \in 1..Len(runs) }
  <2>1. Programs(air)[<<"deep_concat">>].in = Parts("fri_pol", air.d)
    BY OpeningPrograms, ProgramIs
  <2>2. DOMAIN air.d = 1..Len(runs)
    BY <1>4, AirIs
  <2>3. QED
    BY <2>1, <2>2 DEF Parts
<1>6. PartsHold(parts, "fri_pol", runs, <<"fri_pol">>, Len(runs))
  <2>1. Behind("deep", air.d) = Len(runs)
    BY <1>4, PlacesAre DEF Behind, Past
  <2>2. QED
    BY <2>1 DEF PartsAre
<1> HIDE DEF runs
<1>7. Fits(PartArgs("fri_pol", runs, <<"fri_pol">>))
  BY <1>1, <1>4, <1>5, <1>6, PartsFit, RunName
<1>8. QED
  BY <1>1, <1>2, <1>3, <1>7, ArgsByKind DEF NextCallIs

\* The FRI programs read the round's codeword, the fold its challenge too.
FriPlaces == { "commit", "fold", "fri_final" }
Round == IF pc = "fri_final" THEN air.rounds ELSE k

LEMMA FriNamesAre ==
    /\ <<"fri_final">> \in FriNames(air) /\ <<"grind">> \in FriNames(air)
    /\ \A i \in Rounds(air) : <<"fri_commit", i>> \in FriNames(air) /\ <<"fri_fold", i>> \in FriNames(air)
BY DEF FriNames, Named

LEMMA CodewordBound ==
    ASSUME pc \in FriPlaces, codeword = Codeword(Round)
    PROVE  <<"codeword">> \in DOMAIN BindsFrom /\ BindsFrom[<<"codeword">>] = Codeword(Round)
<1> DEFINE word == Bind(<<"codeword">>, codeword)
           rest == IF pc = "fold" THEN Bind(<<"beta">>, Squeezed(<<"beta", k>>)) ELSE <<>>
<1>1. BindsFrom = word ++ rest
  BY DEF BindsFrom, FriEnv, FriPlaces
<1>2. DOMAIN word = { <<"codeword">> } /\ word[<<"codeword">>] = codeword
  BY BindIs
<1> HIDE DEF word, rest
<1>3. IsJoin(BindsFrom, word, rest)
  BY <1>1, JoinIs
<1>4. QED
  BY <1>2, <1>3 DEF IsJoin

LEMMA FriCommitCall ==
    ASSUME pc = "commit", k \in Rounds(air), codeword = Codeword(k)
    PROVE  NextCallIs
<1> DEFINE p == <<"fri_commit", k>>
<1>1. NextRun = Run(p) /\ p \in FriNames(air)
  BY FriNamesAre DEF NextRun
<1>2. Programs(air)[p].in = { <<"codeword">> }
  <2>1. Programs(air)[p] = Program({ <<"codeword">> }, { <<"fri_leaves", k>>, <<"fri_root", k>>, <<"fri_layers", k>> })
    BY FriPrograms
  <2>2. QED
    BY <2>1, ProgramIs
<1>3. FriArgs(air, Run(p)) = Bind(<<"codeword">>, Codeword(k))
  BY DEF FriArgs, Run
<1>4. <<"codeword">> \in DOMAIN BindsFrom /\ BindsFrom[<<"codeword">>] = Codeword(k)
  BY CodewordBound DEF FriPlaces, Round
<1> DEFINE g == Bind(<<"codeword">>, Codeword(k))
<1>5. IsMap(g) /\ DOMAIN g = { <<"codeword">> } /\ g[<<"codeword">>] = Codeword(k)
  BY BindIs
<1> HIDE DEF p, g
<1>6. Fits(g)
  BY <1>1, <1>2, <1>4, <1>5, RunName DEF Fits
<1>7. QED
  BY <1>1, <1>3, <1>6, ArgsByKind DEF NextCallIs, g

LEMMA FriFinalCall ==
    ASSUME pc = "fri_final", codeword = Codeword(air.rounds)
    PROVE  NextCallIs
<1> DEFINE p == <<"fri_final">>
<1>1. NextRun = Run(p) /\ p \in FriNames(air)
  BY FriNamesAre DEF NextRun
<1>2. Programs(air)[p].in = { <<"codeword">> }
  BY FriPrograms, ProgramIs
<1>3. FriArgs(air, Run(p)) = Bind(<<"codeword">>, Codeword(air.rounds))
  BY DEF FriArgs, Run
<1>4. <<"codeword">> \in DOMAIN BindsFrom /\ BindsFrom[<<"codeword">>] = Codeword(air.rounds)
  BY CodewordBound DEF FriPlaces, Round
<1> DEFINE g == Bind(<<"codeword">>, Codeword(air.rounds))
<1>5. IsMap(g) /\ DOMAIN g = { <<"codeword">> } /\ g[<<"codeword">>] = Codeword(air.rounds)
  BY BindIs
<1> HIDE DEF p, g
<1>6. Fits(g)
  BY <1>1, <1>2, <1>4, <1>5, RunName DEF Fits
<1>7. QED
  BY <1>1, <1>3, <1>6, ArgsByKind DEF NextCallIs, g

LEMMA FriFoldCall ==
    ASSUME pc = "fold", k \in Rounds(air), codeword = Codeword(k)
    PROVE  NextCallIs
<1> DEFINE p == <<"fri_fold", k>>
           g == FriArgs(air, Run(p))
           beta == Bind(<<"beta">>, Squeezed(<<"beta", k>>))
           word == Bind(<<"codeword">>, codeword)
<1>1. NextRun = Run(p) /\ p \in FriNames(air)
  BY FriNamesAre DEF NextRun
<1>2. Programs(air)[p].in = { <<"codeword">>, <<"beta">> }
  BY FriPrograms, ProgramIs
<1>3. /\ IsMap(g) /\ DOMAIN g = { <<"codeword">>, <<"beta">> }
      /\ g[<<"codeword">>] = Codeword(k) /\ g[<<"beta">>] = Squeezed(<<"beta", k>>)
  BY DEF FriArgs, Run, IsMap
<1>4. <<"codeword">> \in DOMAIN BindsFrom /\ BindsFrom[<<"codeword">>] = Codeword(k)
  BY CodewordBound DEF FriPlaces, Round
<1>5. <<"beta">> \in DOMAIN BindsFrom /\ BindsFrom[<<"beta">>] = Squeezed(<<"beta", k>>)
  <2>1. BindsFrom = word ++ beta
    BY DEF BindsFrom, FriEnv
  <2>2. DOMAIN word = { <<"codeword">> } /\ DOMAIN beta = { <<"beta">> } /\ beta[<<"beta">>] = Squeezed(<<"beta", k>>)
    BY BindIs
  <2> HIDE DEF word, beta
  <2>3. IsJoin(BindsFrom, word, beta)
    BY <2>1, JoinIs
  <2>4. QED
    BY <2>2, <2>3 DEF IsJoin
<1> HIDE DEF p, g
<1>6. Fits(g)
  BY <1>1, <1>2, <1>3, <1>4, <1>5, RunName DEF Fits
<1>7. QED
  BY <1>1, <1>6, ArgsByKind DEF NextCallIs, g

LEMMA GrindCall == ASSUME pc = "grind" PROVE NextCallIs
<1> DEFINE p == <<"grind">>
           g == Bind(<<"challenge">>, Squeezed(<<"challenge">>))
<1>1. NextRun = Run(p) /\ p \in FriNames(air) /\ BindsFrom = g
  BY FriNamesAre DEF NextRun, BindsFrom
<1>2. Programs(air)[p].in = { <<"challenge">> }
  BY FriPrograms, ProgramIs
<1>3. FriArgs(air, Run(p)) = g
  BY DEF FriArgs, Run
<1>4. IsMap(g) /\ DOMAIN g = { <<"challenge">> }
  BY BindIs
<1> HIDE DEF p, g
<1>5. Fits(g)
  BY <1>1, <1>2, <1>4, RunName DEF Fits
<1>6. QED
  BY <1>1, <1>3, <1>5, ArgsByKind DEF NextCallIs

\* A tree is opened from its section, its layers and the positions.
LEMMA TreeFits ==
    ASSUME NEW e, NEW matrix, NEW above, NEW committed, NEW tree, NEW at,
           BindsFrom = OpenEnv(e, at), Programs(air)[NextRun[1]] = Opened(matrix, above),
           matrix # <<"positions">>, above # <<"positions">>, matrix # above,
           matrix \in DOMAIN e, above \in DOMAIN e,
           e[matrix] = Out(committed, matrix), e[above] = Out(committed, tree)
    PROVE  Fits(TreeArgs(matrix, committed, tree, above, at))
<1> DEFINE g == TreeArgs(matrix, committed, tree, above, at)
           mine == Bind(<<"positions">>, Positions(at))
           names == { matrix, above, <<"positions">> }
<1>1. Programs(air)[NextRun[1]].in = names
  BY ProgramIs DEF Opened
<1>2. /\ IsMap(g) /\ DOMAIN g = names
      /\ g[matrix] = Out(committed, matrix) /\ g[above] = Out(committed, tree)
      /\ g[<<"positions">>] = Positions(at)
  BY DEF TreeArgs, IsMap
<1>3. DOMAIN mine = { <<"positions">> } /\ mine[<<"positions">>] = Positions(at)
  BY BindIs
<1>4. BindsFrom = mine ++ e
  BY DEF OpenEnv
<1> HIDE DEF g, mine
<1>5. IsJoin(BindsFrom, mine, e)
  BY <1>4, JoinIs
<1>6. names \subseteq DOMAIN BindsFrom
  BY <1>3, <1>5 DEF IsJoin
<1>7. /\ BindsFrom[matrix] = g[matrix] /\ BindsFrom[above] = g[above]
      /\ BindsFrom[<<"positions">>] = g[<<"positions">>]
  BY <1>2, <1>3, <1>5 DEF IsJoin
<1>8. \A n \in names : BindsFrom[n] = g[n]
  BY <1>7
<1>9. <<"positions">> \in names
  OBVIOUS
<1> HIDE DEF names
<1>10. QED
  BY <1>1, <1>2, <1>6, <1>8, <1>9 DEF Fits, g

LEMMA TreeNamesAre ==
    /\ <<"open_const">> \in TreeNames(air) /\ <<"open_cm1">> \in TreeNames(air)
    /\ <<"open_cm2">> \in TreeNames(air) /\ <<"open_qsec">> \in TreeNames(air)
    /\ \A c \in Ids(air) : <<"open_custom", c>> \in TreeNames(air)
    /\ \A i \in Rounds(air) : <<"open_fri", i>> \in TreeNames(air)
BY DEF TreeNames, Named

LEMMA OpenConstCall == ASSUME EnvHolds, pc = "open_const" PROVE NextCallIs
<1> DEFINE p == <<"open_const">>
           g == TreeArgs(<<"const_ext">>, Run(<<"const_setup">>), <<"const_setup_layers">>, <<"const_layers">>, Extended)
<1>1. NextRun = Run(p) /\ p \in TreeNames(air) /\ BindsFrom = OpenEnv(env, Extended)
  BY TreeNamesAre DEF NextRun, BindsFrom
<1>2. Programs(air)[NextRun[1]] = Opened(<<"const_ext">>, <<"const_layers">>)
  BY <1>1, TreePrograms, RunName
<1>3. <<"const_ext">> \in EnvNames /\ <<"const_layers">> \in EnvNames
  BY PlacesAre DEF EnvNames, KeyNames, Only, Past
<1>4. /\ Means(<<"const_ext">>) = Out(Run(<<"const_setup">>), <<"const_ext">>)
      /\ Means(<<"const_layers">>) = Out(Run(<<"const_setup">>), <<"const_setup_layers">>)
  BY DEF Means
<1>5. OpenTreeArgs(Run(p)) = g
  BY DEF OpenTreeArgs, Run
<1>6. Fits(g)
  BY <1>1, <1>2, <1>3, <1>4, TreeFits DEF EnvHolds
<1> HIDE DEF p, g
<1>7. QED
  BY <1>1, <1>5, <1>6, ArgsByKind DEF NextCallIs

LEMMA OpenCm1Call == ASSUME EnvHolds, pc = "open_cm1" PROVE NextCallIs
<1> DEFINE p == <<"open_cm1">>
           g == TreeArgs(<<"cm1_ext">>, Run(<<"commit1">>), <<"cm1_layers">>, <<"cm1_layers">>, Extended)
<1>1. NextRun = Run(p) /\ p \in TreeNames(air) /\ BindsFrom = OpenEnv(env, Extended)
  BY TreeNamesAre DEF NextRun, BindsFrom
<1>2. Programs(air)[NextRun[1]] = Opened(<<"cm1_ext">>, <<"cm1_layers">>)
  BY <1>1, TreePrograms, RunName
<1>3. <<"cm1_ext">> \in EnvNames /\ <<"cm1_layers">> \in EnvNames
  BY PlacesAre DEF EnvNames, InstanceNames, Only, Past
<1>4. /\ Means(<<"cm1_ext">>) = Out(Run(<<"commit1">>), <<"cm1_ext">>)
      /\ Means(<<"cm1_layers">>) = Out(Run(<<"commit1">>), <<"cm1_layers">>)
  BY DEF Means
<1>5. OpenTreeArgs(Run(p)) = g
  BY DEF OpenTreeArgs, Run
<1>6. Fits(g)
  BY <1>1, <1>2, <1>3, <1>4, TreeFits DEF EnvHolds
<1> HIDE DEF p, g
<1>7. QED
  BY <1>1, <1>5, <1>6, ArgsByKind DEF NextCallIs

LEMMA OpenCm2Call == ASSUME EnvHolds, pc = "open_cm2" PROVE NextCallIs
<1> DEFINE p == <<"open_cm2">>
           g == TreeArgs(<<"cm2_ext">>, Run(<<"commit2">>), <<"cm2_layers">>, <<"cm2_layers">>, Extended)
<1>1. NextRun = Run(p) /\ p \in TreeNames(air) /\ BindsFrom = OpenEnv(env, Extended)
  BY TreeNamesAre DEF NextRun, BindsFrom
<1>2. Programs(air)[NextRun[1]] = Opened(<<"cm2_ext">>, <<"cm2_layers">>)
  BY <1>1, TreePrograms, RunName
<1>3. <<"cm2_ext">> \in EnvNames /\ <<"cm2_layers">> \in EnvNames
  BY PlacesAre DEF EnvNames, InstanceNames, Only, Past
<1>4. /\ Means(<<"cm2_ext">>) = Out(Run(<<"commit2">>), <<"cm2_ext">>)
      /\ Means(<<"cm2_layers">>) = Out(Run(<<"commit2">>), <<"cm2_layers">>)
  BY DEF Means
<1>5. OpenTreeArgs(Run(p)) = g
  BY DEF OpenTreeArgs, Run
<1>6. Fits(g)
  BY <1>1, <1>2, <1>3, <1>4, TreeFits DEF EnvHolds
<1> HIDE DEF p, g
<1>7. QED
  BY <1>1, <1>5, <1>6, ArgsByKind DEF NextCallIs

LEMMA OpenQsecCall == ASSUME EnvHolds, pc = "open_qsec" PROVE NextCallIs
<1> DEFINE p == <<"open_qsec">>
           g == TreeArgs(<<"qsec">>, Run(<<"quotient_commit">>), <<"qsec_layers">>, <<"qsec_layers">>, Extended)
<1>1. NextRun = Run(p) /\ p \in TreeNames(air) /\ BindsFrom = OpenEnv(env, Extended)
  BY TreeNamesAre DEF NextRun, BindsFrom
<1>2. Programs(air)[NextRun[1]] = Opened(<<"qsec">>, <<"qsec_layers">>)
  BY <1>1, TreePrograms, RunName
<1>3. <<"qsec">> \in EnvNames /\ <<"qsec_layers">> \in EnvNames
  BY PlacesAre DEF EnvNames, InstanceNames, Only, Past
<1>4. /\ Means(<<"qsec">>) = Out(Run(<<"quotient_commit">>), <<"qsec">>)
      /\ Means(<<"qsec_layers">>) = Out(Run(<<"quotient_commit">>), <<"qsec_layers">>)
  BY DEF Means
<1>5. OpenTreeArgs(Run(p)) = g
  BY DEF OpenTreeArgs, Run
<1>6. Fits(g)
  BY <1>1, <1>2, <1>3, <1>4, TreeFits DEF EnvHolds
<1> HIDE DEF p, g
<1>7. QED
  BY <1>1, <1>5, <1>6, ArgsByKind DEF NextCallIs

LEMMA OpenCustomCall == ASSUME IsAir(air), EnvHolds, pc = "custom", k \in DOMAIN air.customs PROVE NextCallIs
<1> DEFINE c == air.customs[k]
           p == <<"open_custom", c>>
           setup == Run(<<"custom_setup", c>>)
           g == TreeArgs(<<"custom_ext", c>>, setup, <<"custom_setup_layers", c>>, <<"custom_layers", c>>, Extended)
<1>1. NextRun = Run(p) /\ p \in TreeNames(air) /\ BindsFrom = OpenEnv(env, Extended)
  BY TreeNamesAre DEF NextRun, BindsFrom, Ids, Range
<1>2. Programs(air)[NextRun[1]] = Opened(<<"custom_ext", c>>, <<"custom_layers", c>>)
  <2>1. c \in Ids(air)
    BY DEF Ids, Range
  <2>2. QED
    BY <1>1, <2>1, TreePrograms, RunName
<1>3. <<"custom_ext", c>> \in EnvNames /\ <<"custom_layers", c>> \in EnvNames
  <2>1. k > Behind("custom", air.customs)
    BY PlacesAre, AirIs DEF Behind, Past
  <2>2. c \in CustomsLeft
    BY <2>1 DEF CustomsLeft
  <2>3. QED
    BY <2>2 DEF EnvNames, KeyNames, CustomNames
<1>4. /\ Means(<<"custom_ext", c>>) = Out(setup, <<"custom_ext", c>>)
      /\ Means(<<"custom_layers", c>>) = Out(setup, <<"custom_setup_layers", c>>)
  BY DEF Means
<1>5. OpenTreeArgs(Run(p)) = g
  BY DEF OpenTreeArgs, Run
<1>6. Fits(g)
  <2> HIDE DEF setup, c
  <2>1. QED
    BY <1>1, <1>2, <1>3, <1>4, TreeFits DEF EnvHolds
<1> HIDE DEF p, g
<1>7. QED
  BY <1>1, <1>5, <1>6, ArgsByKind DEF NextCallIs

LEMMA OpenLayerCall == ASSUME IsAir(air), LayersAre, pc = "layers", k \in Rounds(air) PROVE NextCallIs
<1> DEFINE p == <<"open_fri", k>>
           commit == Run(<<"fri_commit", k>>)
           layer == layers[k + 1]
           g == TreeArgs(<<"fri_leaves", k>>, commit, <<"fri_layers", k>>, <<"fri_layers", k>>, <<"round", k>>)
<1>1. NextRun = Run(p) /\ p \in TreeNames(air) /\ BindsFrom = OpenEnv(layer, <<"round", k>>)
  BY TreeNamesAre DEF NextRun, BindsFrom
<1>2. Programs(air)[NextRun[1]] = Opened(<<"fri_leaves", k>>, <<"fri_layers", k>>)
  BY <1>1, TreePrograms, RunName
<1>3. LayerHolds(layer, k)
  <2>1. air.rounds \in Nat /\ k \in Nat /\ k < air.rounds
    BY AirIs DEF Rounds
  <2>2. Committed = air.rounds /\ LayersOpened = k
    BY PlacesAre DEF Committed, LayersOpened, Past
  <2>3. k + 1 \in 1..Committed /\ ~(k + 1 <= LayersOpened) /\ (k + 1) - 1 = k
    BY <2>1, <2>2
  <2>4. LayerHolds(layer, (k + 1) - 1)
    BY <2>3 DEF LayersAre
  <2>5. QED
    BY <2>3, <2>4
<1>4. /\ <<"fri_leaves", k>> \in DOMAIN layer /\ layer[<<"fri_leaves", k>>] = Out(commit, <<"fri_leaves", k>>)
      /\ <<"fri_layers", k>> \in DOMAIN layer /\ layer[<<"fri_layers", k>>] = Out(commit, <<"fri_layers", k>>)
  BY <1>3 DEF LayerHolds
<1>5. OpenTreeArgs(Run(p)) = g
  BY DEF OpenTreeArgs, Run
<1>6. Fits(g)
  <2> HIDE DEF commit, layer
  <2>1. QED
    BY <1>1, <1>2, <1>4, TreeFits
<1> HIDE DEF p, g
<1>7. QED
  BY <1>1, <1>5, <1>6, ArgsByKind DEF NextCallIs

\* Whatever a prove is at ...
LEMMA CallsAre == ASSUME IInv, pc \notin { "idle", "end" } PROVE NextCallIs
<1>1. IsAir(air)
  BY AirsAssumption DEF IInv
<1>2. EnvHolds /\ PartsAre /\ LayersAre
  BY DEF IInv, EnvIs
<1>3. /\ pc \in { "commit", "fold" } => codeword = Codeword(k)
      /\ pc = "fri_final" => codeword = Codeword(air.rounds)
  BY DEF IInv, EnvIs, CodewordIs
<1>4. InPlace
  BY DEF IInv
<1>5. CASE pc \in { "witness_calc", "commit1", "logup", "commit2", "quotient", "quotient_commit" }
  BY <1>1, <1>2, <1>4, <1>5, WitnessCall, Commit1Call, LogUpCall, Commit2Call, QuotientCall, QuotientCommitCall
     DEF InPlace
<1>6. CASE pc \in { "lev", "evals", "evals_sum", "deep", "deep_concat" }
  BY <1>1, <1>2, <1>4, <1>6, LevCall, EvalsCall, EvalsSumCall, DeepCall, DeepConcatCall DEF InPlace
<1>7. CASE pc \in { "commit", "fold", "fri_final", "grind" }
  BY <1>3, <1>4, <1>7, FriCommitCall, FriFoldCall, FriFinalCall, GrindCall DEF InPlace
<1>8. CASE pc \in { "open_const", "custom", "open_cm1", "open_cm2", "open_qsec", "layers" }
  BY <1>1, <1>2, <1>4, <1>8, OpenConstCall, OpenCustomCall, OpenCm1Call, OpenCm2Call, OpenQsecCall, OpenLayerCall
     DEF InPlace
<1>9. QED
  BY <1>4, <1>5, <1>6, <1>7, <1>8 DEF InPlace, Places

-----------------------------------------------------------------------------
(* The steps: the environment.                                             *)

\* What a name means changes with its program only.
LEMMA MeansKept ==
    ASSUME air' = air, Past("logup")' <=> Past("logup"), Past("witness_calc")' <=> Past("witness_calc"),
           Past("commit2")' <=> Past("commit2")
    PROVE  \A n : Means(n)' = Means(n)
BY DEF Means

LEMMA KeyKept ==
    ASSUME air' = air, keep' = keep, Past("logup")' <=> Past("logup"), Past("open_const")' <=> Past("open_const"),
           Behind("custom", air.customs)' = Behind("custom", air.customs)
    PROVE  KeyNames' = KeyNames
<1>1. CustomsLeft' = CustomsLeft
  BY DEF CustomsLeft
<1>2. OfTheSetup' = OfTheSetup /\ BaseNames(air)' = BaseNames(air)
  BY DEF OfTheSetup
<1>3. QED
  BY <1>1, <1>2 DEF KeyNames

\* Outside of the custom commits' trees their number is known.
LEMMA CustomsBehind ==
    /\ (pc # "custom" /\ ~Past("custom")) => Behind("custom", air.customs) = 0
    /\ Past("custom") => Behind("custom", air.customs) = Len(air.customs)
BY DEF Behind

EnvPlaces ==
    { "witness_calc", "commit1", "logup", "commit2", "quotient_commit", "lev", "evals_sum",
      "open_const", "open_cm1", "open_cm2", "open_qsec" }

LEMMA EnvUntouched ==
    ASSUME EnvHolds, air' = air, keep' = keep, env' = env,
           \A p \in EnvPlaces : Past(p)' <=> Past(p),
           Behind("custom", air.customs)' = Behind("custom", air.customs)
    PROVE  EnvHolds'
<1>1. KeyNames' = KeyNames
  BY KeyKept DEF EnvPlaces
<1>2. InstanceNames' = InstanceNames
  <2>1. /\ Past("commit1")' <=> Past("commit1")
        /\ Past("logup")' <=> Past("logup")
        /\ Past("commit2")' <=> Past("commit2")
        /\ Past("quotient_commit")' <=> Past("quotient_commit")
        /\ Past("lev")' <=> Past("lev")
        /\ Past("evals_sum")' <=> Past("evals_sum")
        /\ Past("open_cm1")' <=> Past("open_cm1")
        /\ Past("open_cm2")' <=> Past("open_cm2")
        /\ Past("open_qsec")' <=> Past("open_qsec")
    BY DEF EnvPlaces
  <2>2. QED
    BY <2>1 DEF InstanceNames, Only
<1>3. \A n : Means(n)' = Means(n)
  BY MeansKept DEF EnvPlaces
<1>4. QED
  BY <1>1, <1>2, <1>3 DEF EnvHolds, EnvNames

\* A step whose program's outputs join the environment.
LEMMA OutputsJoin ==
    ASSUME EnvHolds, air' = air, NEW run, NEW outs, OutsOf(run) = outs, <<>> \notin outs,
           env' = RunInto(env, run),
           EnvNames' = EnvNames \cup outs,
           \A n \in EnvNames \ outs : Means(n)' = Means(n),
           \A n \in outs : Means(n)' = Out(run, n)
    PROVE  EnvHolds'
<1>1. /\ IsMap(env')
      /\ DOMAIN env' = outs \cup DOMAIN env
      /\ \A n \in outs : env'[n] = Out(run, n)
      /\ \A n \in DOMAIN env \ outs : env'[n] = env[n]
  <2>1. IsRunInto(RunInto(env, run), env, run)
    BY RunIntoIs
  <2>2. QED
    BY <2>1 DEF IsRunInto
<1>2. QED
  BY <1>1 DEF EnvHolds

LEMMA Commit1Env == ASSUME EnvHolds, Commit1 PROVE EnvHolds'
<1> DEFINE run == Run(<<"commit1">>)
           outs == { <<"root1">>, <<"cm1_ext">>, <<"cm1_layers">> }
<1>1. pc = "commit1" /\ pc' = "logup" /\ air' = air /\ keep' = keep
  BY DEF Commit1, At, Kept
<1>2. env' = RunInto(env, run)
  BY <1>1 DEF Commit1, NextRun
<1>3. OutsOf(run) = outs /\ <<>> \notin outs
  BY StagePrograms, ProgramIs, RunName DEF OutsOf
<1>4. KeyNames' = KeyNames
  BY <1>1, KeyKept, CustomsBehind, PlacesAre DEF Past, Behind
<1>5. InstanceNames' = InstanceNames \cup outs
  BY <1>1, PlacesAre DEF InstanceNames, Past, Only
<1>6. \A n : Means(n)' = Means(n)
  BY <1>1, MeansKept, PlacesAre DEF Past
<1>7. \A n \in outs : Means(n) = Out(run, n)
  BY DEF Means
<1> HIDE DEF run, outs
<1>8. QED
  BY <1>1, <1>2, <1>3, <1>4, <1>5, <1>6, <1>7, OutputsJoin DEF EnvNames

LEMMA LevEnv == ASSUME EnvHolds, Lev PROVE EnvHolds'
<1> DEFINE run == Run(<<"lev">>)
           outs == { <<"lev">> }
<1>1. pc = "lev" /\ pc' = "evals" /\ air' = air /\ keep' = keep
  BY DEF Lev, At, Kept
<1>2. env' = RunInto(env, run)
  BY <1>1 DEF Lev, NextRun
<1>3. OutsOf(run) = outs /\ <<>> \notin outs
  BY OpeningPrograms, ProgramIs, RunName DEF OutsOf
<1>4. KeyNames' = KeyNames
  BY <1>1, KeyKept, CustomsBehind, PlacesAre DEF Past, Behind
<1>5. InstanceNames' = InstanceNames \cup outs
  BY <1>1, PlacesAre DEF InstanceNames, Past, Only
<1>6. \A n : Means(n)' = Means(n)
  BY <1>1, MeansKept, PlacesAre DEF Past
<1>7. \A n \in outs : Means(n) = Out(run, n)
  BY DEF Means
<1> HIDE DEF run, outs
<1>8. QED
  BY <1>1, <1>2, <1>3, <1>4, <1>5, <1>6, <1>7, OutputsJoin DEF EnvNames

LEMMA WitnessCalcEnv == ASSUME EnvHolds, air.witness, WitnessCalc PROVE EnvHolds'
<1> DEFINE v == Out(Run(<<"witness_calc">>), <<"trace">>)
           mine == Bind(<<"trace">>, v)
<1>1. pc = "witness_calc" /\ pc' = "commit1" /\ air' = air /\ keep' = keep
  BY DEF WitnessCalc, At, Kept
<1>2. env' = mine ++ env
  BY <1>1 DEF WitnessCalc, Bound, Value, NextRun
<1>3. DOMAIN mine = { <<"trace">> } /\ mine[<<"trace">>] = v
  BY BindIs
<1>4. KeyNames' = KeyNames
  BY <1>1, KeyKept, CustomsBehind, PlacesAre DEF Past, Behind
<1>5. InstanceNames' = InstanceNames /\ <<"trace">> \in InstanceNames
  BY <1>1, PlacesAre DEF InstanceNames, Past, Only
<1>6. \A n : n # <<"trace">> /\ n \in EnvNames => Means(n)' = Means(n)
  <2>1. \A n \in EnvNames : n # <<"trace">> => n[1] # "trace"
    BY DEF EnvNames, KeyNames, InstanceNames, OfTheSetup, BaseNames, CustomNames, Named, Parts, Scalars, Only
  <2>2. \A n : n[1] # "trace" => Means(n)' = Means(n)
    BY <1>1, PlacesAre DEF Means, Past
  <2>3. QED
    BY <2>1, <2>2
<1>7. Means(<<"trace">>)' = v
  BY <1>1, PlacesAre DEF Means, Past, Trace
<1> HIDE DEF v, mine
<1>8. IsJoin(env', mine, env)
  BY <1>2, JoinIs
<1>9. QED
  BY <1>3, <1>4, <1>5, <1>6, <1>7, <1>8 DEF EnvNames, IsJoin, EnvHolds

LEMMA LogUpEnv == ASSUME EnvHolds, LogUp PROVE EnvHolds'
<1> DEFINE run == Run(<<"logup">>)
           outs == { <<"cm2">>, <<"airvalues">> } \cup (IF air.sum THEN { <<"airgroupvalue">> } ELSE {})
           dead == IF keep THEN {} ELSE BaseNames(air)
           after == RunInto(env, run)
<1>1. pc = "logup" /\ pc' = "commit2" /\ air' = air /\ keep' = keep
  BY DEF LogUp, At, Kept
<1>2. env' = Without(after, { <<"trace">> } \cup dead)
  BY <1>1, BaseIsDead DEF LogUp, NextRun
<1>3. OutsOf(run) = outs /\ <<>> \notin outs
  BY StagePrograms, ProgramIs, RunName DEF OutsOf
<1>4. /\ DOMAIN after = outs \cup EnvNames
      /\ \A n \in outs : after[n] = Out(run, n)
      /\ \A n \in EnvNames \ outs : after[n] = Means(n)
  <2>1. IsRunInto(after, env, run)
    <3> HIDE DEF outs, run
    <3>1. QED
      BY <1>3, RunIntoIs
  <2>2. QED
    BY <1>3, <2>1 DEF IsRunInto, EnvHolds
<1>5. KeyNames' = KeyNames \ dead
  <2>1. CustomsLeft' = CustomsLeft
    BY <1>1, CustomsBehind, PlacesAre DEF CustomsLeft, Past, Behind
  <2>2. \A n \in BaseNames(air) : n[1] \in { "const_base", "custom_base" }
    BY DEF BaseNames, Named
  <2>3. \A n \in OfTheSetup \cup { <<"const_ext">>, <<"const_layers">> } \cup UNION { CustomNames(c) : c \in CustomsLeft } :
           n[1] \notin { "const_base", "custom_base" }
    BY DEF OfTheSetup, CustomNames, Named, Parts, Only
  <2>4. OfTheSetup' = OfTheSetup
    BY <1>1 DEF OfTheSetup
  <2>5. KeyNames = OfTheSetup \cup BaseNames(air) \cup { <<"const_ext">>, <<"const_layers">> }
                      \cup UNION { CustomNames(c) : c \in CustomsLeft }
    BY <1>1, PlacesAre DEF KeyNames, Only, Past
  <2>6. KeyNames' = OfTheSetup \cup (IF keep THEN BaseNames(air) ELSE {}) \cup { <<"const_ext">>, <<"const_layers">> }
                      \cup UNION { CustomNames(c) : c \in CustomsLeft }
    BY <1>1, <2>1, <2>4, PlacesAre DEF KeyNames, Only, Past
  <2>7. QED
    BY <2>2, <2>3, <2>5, <2>6
<1>6. InstanceNames' = (InstanceNames \cup outs) \ { <<"trace">> }
  BY <1>1, PlacesAre DEF InstanceNames, Past, Only, Scalars
<1>7. \A n \in KeyNames : n # <<"trace">> /\ n \notin outs /\ n[1] \notin { "airvalues", "trace", "challenges" }
  BY DEF KeyNames, OfTheSetup, BaseNames, CustomNames, Named, Parts, Only
<1>8. \A n \in InstanceNames \cup outs : n \notin dead
  BY DEF InstanceNames, Scalars, BaseNames, Named, Only
<1>9. \A n \in KeyNames \cup InstanceNames : n \notin outs => Means(n)' = Means(n)
  <2>1. \A n \in KeyNames : n[1] # "airvalues"
    BY <1>7
  <2>2. \A n \in InstanceNames : n \notin outs => n[1] # "airvalues"
    BY DEF InstanceNames, Scalars, Only
  <2>3. \A n : n[1] # "airvalues" => Means(n)' = Means(n)
    BY <1>1, PlacesAre DEF Means, Past
  <2>4. QED
    BY <2>1, <2>2, <2>3
<1>10. \A n \in outs : Means(n)' = Out(run, n)
  BY <1>1, PlacesAre DEF Means, Past, AirvaluesOut
<1> HIDE DEF run, outs, dead, after
<1>11. /\ IsMap(env')
       /\ DOMAIN env' = DOMAIN after \ ({ <<"trace">> } \cup dead)
       /\ \A n \in DOMAIN after \ ({ <<"trace">> } \cup dead) : env'[n] = after[n]
  BY <1>2, WithoutIs
<1>12. DOMAIN env' = EnvNames'
  BY <1>4, <1>5, <1>6, <1>7, <1>8, <1>11 DEF EnvNames
<1>13. \A n \in DOMAIN env' : env'[n] = Means(n)'
  BY <1>4, <1>9, <1>10, <1>11 DEF EnvNames
<1>14. QED
  BY <1>11, <1>12, <1>13 DEF EnvHolds

LEMMA Commit2Env == ASSUME EnvHolds, Commit2 PROVE EnvHolds'
<1> DEFINE run == Run(<<"commit2">>)
           outs == { <<"root2">>, <<"cm2_ext">>, <<"cm2_layers">> }
           after == RunInto(env, run)
           committed == Without(after, { <<"cm2">> })
           agv == IF <<"airgroupvalue">> \in DOMAIN env THEN env[<<"airgroupvalue">>] ELSE Host(<<"zeros">>)
           first == Challenges(NStages + 1)
           second == Bind(<<"airgroupvalues">>, agv)
<1>1. pc = "commit2" /\ pc' = "quotient" /\ k' = 1 /\ air' = air /\ keep' = keep
  BY DEF Commit2, At, Kept
<1>2. env' = first ++ second ++ committed
  BY <1>1 DEF Commit2, NextRun
<1>3. OutsOf(run) = outs /\ <<>> \notin outs
  BY StagePrograms, ProgramIs, RunName DEF OutsOf
<1>4. /\ DOMAIN after = outs \cup EnvNames
      /\ \A n \in outs : after[n] = Out(run, n)
      /\ \A n \in EnvNames \ outs : after[n] = Means(n)
  <2>1. IsRunInto(after, env, run)
    <3> HIDE DEF outs, run
    <3>1. QED
      BY <1>3, RunIntoIs
  <2>2. QED
    BY <1>3, <2>1 DEF IsRunInto, EnvHolds
<1>5. KeyNames' = KeyNames
  BY <1>1, KeyKept, CustomsBehind, PlacesAre DEF Past, Behind
<1>6. InstanceNames' = (InstanceNames \cup outs \cup { <<"airgroupvalues">> }) \ { <<"cm2">> }
  BY <1>1, PlacesAre DEF InstanceNames, Past, Only, Scalars
<1>7. <<"challenges">> \in InstanceNames /\ <<"airgroupvalues">> \notin EnvNames /\ <<"airgroupvalues">> \notin outs
  <2>1. <<"airgroupvalues">> \notin InstanceNames
    BY <1>1, PlacesAre DEF InstanceNames, Past, Only, Scalars
  <2>2. <<"airgroupvalues">> \notin KeyNames
    BY DEF KeyNames, OfTheSetup, BaseNames, CustomNames, Named, Parts, Only
  <2>3. QED
    BY <2>1, <2>2 DEF EnvNames, InstanceNames
<1>8. \A n \in KeyNames : n \notin { <<"cm2">>, <<"challenges">> }
  BY DEF KeyNames, OfTheSetup, BaseNames, CustomNames, Named, Parts, Only
<1>9. agv = AirgroupvaluesOut(air)
  <2>1. <<"airgroupvalue">> \in EnvNames <=> air.sum
    <3>1. <<"airgroupvalue">> \in InstanceNames <=> air.sum
      BY <1>1, PlacesAre DEF InstanceNames, Past, Only, Scalars
    <3>2. <<"airgroupvalue">> \notin KeyNames
      BY DEF KeyNames, OfTheSetup, BaseNames, CustomNames, Named, Parts, Only
    <3>3. QED
      BY <3>1, <3>2 DEF EnvNames
  <2>2. Means(<<"airgroupvalue">>) = Out(Run(<<"logup">>), <<"airgroupvalue">>)
    BY DEF Means
  <2>3. QED
    BY <2>1, <2>2 DEF EnvHolds, AirgroupvaluesOut
<1>10. \A n \in EnvNames : n # <<"challenges">> => Means(n)' = Means(n)
  <2>1. \A n \in EnvNames : n # <<"challenges">> => n[1] # "challenges"
    BY DEF EnvNames, KeyNames, InstanceNames, OfTheSetup, BaseNames, CustomNames, Named, Parts, Scalars, Only
  <2>2. \A n : n[1] # "challenges" => Means(n)' = Means(n)
    BY <1>1, PlacesAre DEF Means, Past
  <2>3. QED
    BY <2>1, <2>2
<1>11. /\ \A n \in outs : Means(n)' = Out(run, n)
       /\ Means(<<"airgroupvalues">>)' = AirgroupvaluesOut(air)
       /\ Means(<<"challenges">>)' = ChallengesUpTo(NStages + 1)
  BY <1>1, PlacesAre DEF Means, Past
<1>12. /\ DOMAIN first = { <<"challenges">> } /\ first[<<"challenges">>] = ChallengesUpTo(NStages + 1)
       /\ DOMAIN second = { <<"airgroupvalues">> } /\ second[<<"airgroupvalues">>] = AirgroupvaluesOut(air)
  BY <1>9, BindIs DEF Challenges
<1>13. <<"challenges">> \notin outs /\ <<"cm2">> \notin outs
  OBVIOUS
<1> HIDE DEF run, outs, after, agv, first, second
<1>14. /\ DOMAIN committed = DOMAIN after \ { <<"cm2">> }
       /\ \A n \in DOMAIN after \ { <<"cm2">> } : committed[n] = after[n]
  BY WithoutIs
<1> HIDE DEF committed
<1>15. IsJoin(env', first ++ second, committed) /\ IsJoin(first ++ second, first, second)
  BY <1>2, JoinIs
<1>16. DOMAIN env' = EnvNames'
  BY <1>4, <1>5, <1>6, <1>7, <1>8, <1>12, <1>13, <1>14, <1>15 DEF EnvNames, IsJoin
<1>17. ASSUME NEW n \in DOMAIN env' PROVE env'[n] = Means(n)'
  <2>1. CASE n \in { <<"challenges">>, <<"airgroupvalues">> }
    BY <1>11, <1>12, <1>15, <2>1 DEF IsJoin
  <2>2. CASE n \notin { <<"challenges">>, <<"airgroupvalues">> }
    <3>1. env'[n] = committed[n] /\ n \in DOMAIN committed
      BY <1>12, <1>15, <2>2 DEF IsJoin
    <3>2. env'[n] = after[n] /\ n \in DOMAIN after
      BY <1>14, <3>1
    <3>3. QED
      BY <1>4, <1>10, <1>11, <2>2, <3>2
  <2>3. QED
    BY <2>1, <2>2
<1>18. QED
  BY <1>15, <1>16, <1>17 DEF EnvHolds, IsJoin

LEMMA QuotientCommitEnv == ASSUME EnvHolds, QuotientCommit PROVE EnvHolds'
<1> DEFINE run == Run(<<"quotient_commit">>)
           outs == { <<"qsec">>, <<"rootq">>, <<"qsec_layers">> }
           after == RunInto(env, run)
           mine == Bind(<<"xi">>, Squeezed(<<"std_xi">>))
<1>1. pc = "quotient_commit" /\ pc' = "lev" /\ air' = air /\ keep' = keep
  BY DEF QuotientCommit, At, Kept
<1>2. env' = mine ++ after
  BY <1>1 DEF QuotientCommit, NextRun
<1>3. OutsOf(run) = outs /\ <<>> \notin outs
  BY StagePrograms, ProgramIs, RunName DEF OutsOf
<1>4. /\ DOMAIN after = outs \cup EnvNames
      /\ \A n \in outs : after[n] = Out(run, n)
      /\ \A n \in EnvNames \ outs : after[n] = Means(n)
  <2>1. IsRunInto(after, env, run)
    <3> HIDE DEF outs, run
    <3>1. QED
      BY <1>3, RunIntoIs
  <2>2. QED
    BY <1>3, <2>1 DEF IsRunInto, EnvHolds
<1>5. KeyNames' = KeyNames
  BY <1>1, KeyKept, CustomsBehind, PlacesAre DEF Past, Behind
<1>6. InstanceNames' = InstanceNames \cup outs \cup { <<"xi">> }
  BY <1>1, PlacesAre DEF InstanceNames, Past, Only
<1>7. \A n : Means(n)' = Means(n)
  BY <1>1, MeansKept, PlacesAre DEF Past
<1>8. /\ \A n \in outs : Means(n) = Out(run, n)
      /\ Means(<<"xi">>) = Squeezed(<<"std_xi">>)
  BY DEF Means
<1>9. DOMAIN mine = { <<"xi">> } /\ mine[<<"xi">>] = Squeezed(<<"std_xi">>)
  BY BindIs
<1> HIDE DEF run, outs, after, mine
<1>10. IsJoin(env', mine, after)
  BY <1>2, JoinIs
<1>11. DOMAIN env' = EnvNames'
  BY <1>4, <1>5, <1>6, <1>9, <1>10 DEF EnvNames, IsJoin
<1>12. \A n \in DOMAIN env' : env'[n] = Means(n)
  BY <1>4, <1>8, <1>9, <1>10 DEF IsJoin
<1>13. QED
  BY <1>7, <1>10, <1>11, <1>12 DEF EnvHolds, IsJoin

LEMMA EvalsSumEnv == ASSUME EnvHolds, EvalsSum PROVE EnvHolds'
<1> DEFINE kept == Without(env, { <<"lev">> })
           vf1 == Bind(<<"vf1">>, Squeezed(<<"std_vf1">>))
           vf2 == Bind(<<"vf2">>, Squeezed(<<"std_vf2">>))
           evals == Bind(<<"evals">>, EvalsOut)
<1>1. pc = "evals_sum" /\ pc' = "deep" /\ air' = air /\ keep' = keep
  BY DEF EvalsSum, At, Kept
<1>2. env' = vf1 ++ vf2 ++ evals ++ kept
  BY <1>1 DEF EvalsSum, NextRun, Value, EvalsOut
<1>3. KeyNames' = KeyNames
  BY <1>1, KeyKept, CustomsBehind, PlacesAre DEF Past, Behind
<1>4. InstanceNames' = (InstanceNames \ { <<"lev">> }) \cup { <<"vf1">>, <<"vf2">>, <<"evals">> }
  BY <1>1, PlacesAre DEF InstanceNames, Past, Only, Scalars
<1>5. \A n : Means(n)' = Means(n)
  BY <1>1, MeansKept, PlacesAre DEF Past
<1>6. /\ Means(<<"vf1">>) = Squeezed(<<"std_vf1">>) /\ Means(<<"vf2">>) = Squeezed(<<"std_vf2">>)
      /\ Means(<<"evals">>) = EvalsOut
  BY DEF Means
<1>7. <<"lev">> \notin KeyNames
  BY DEF KeyNames, OfTheSetup, BaseNames, CustomNames, Named, Parts, Only
<1>8. /\ DOMAIN vf1 = { <<"vf1">> } /\ vf1[<<"vf1">>] = Squeezed(<<"std_vf1">>)
      /\ DOMAIN vf2 = { <<"vf2">> } /\ vf2[<<"vf2">>] = Squeezed(<<"std_vf2">>)
      /\ DOMAIN evals = { <<"evals">> } /\ evals[<<"evals">>] = EvalsOut
  BY BindIs
<1>9. /\ DOMAIN kept = EnvNames \ { <<"lev">> }
      /\ \A n \in EnvNames \ { <<"lev">> } : kept[n] = Means(n)
  BY WithoutIs DEF EnvHolds
<1> HIDE DEF kept, vf1, vf2, evals
<1>10. /\ IsJoin(env', vf1 ++ vf2 ++ evals, kept)
       /\ IsJoin(vf1 ++ vf2 ++ evals, vf1 ++ vf2, evals)
       /\ IsJoin(vf1 ++ vf2, vf1, vf2)
  BY <1>2, JoinIs
<1>11. DOMAIN env' = EnvNames'
  BY <1>3, <1>4, <1>7, <1>8, <1>9, <1>10 DEF EnvNames, IsJoin
<1>12. ASSUME NEW n \in DOMAIN env' PROVE env'[n] = Means(n)
  <2>1. CASE n \in { <<"vf1">>, <<"vf2">>, <<"evals">> }
    BY <1>6, <1>8, <1>10, <2>1 DEF IsJoin
  <2>2. CASE n \notin { <<"vf1">>, <<"vf2">>, <<"evals">> }
    BY <1>8, <1>9, <1>10, <2>2 DEF IsJoin
  <2>3. QED
    BY <2>1, <2>2
<1>13. QED
  BY <1>5, <1>10, <1>11, <1>12 DEF EnvHolds, IsJoin

\* A step that lets go of some names.
LEMMA NamesGo ==
    ASSUME EnvHolds, NEW gone, env' = Without(env, gone),
           EnvNames' = EnvNames \ gone, \A n : Means(n)' = Means(n)
    PROVE  EnvHolds'
<1>1. IsMap(env') /\ DOMAIN env' = DOMAIN env \ gone /\ \A n \in DOMAIN env \ gone : env'[n] = env[n]
  BY WithoutIs
<1>2. IsMap(env)'
  BY <1>1 DEF IsMap
<1>3. QED
  BY <1>1, <1>2 DEF EnvHolds

LEMMA OpenCm1Env == ASSUME EnvHolds, OpenCm1 PROVE EnvHolds'
<1>1. pc = "open_cm1" /\ pc' = "open_cm2" /\ air' = air /\ keep' = keep
  BY DEF OpenCm1, OpenStage, At, Kept
<1>2. KeyNames' = KeyNames
  BY <1>1, KeyKept, CustomsBehind, PlacesAre DEF Past, Behind
<1>3. InstanceNames' = InstanceNames \ { <<"cm1_ext">>, <<"cm1_layers">> }
  BY <1>1, PlacesAre DEF InstanceNames, Past, Only, Scalars
<1>4. \A n : Means(n)' = Means(n)
  BY <1>1, MeansKept, PlacesAre DEF Past
<1>5. <<"cm1_ext">> \notin KeyNames /\ <<"cm1_layers">> \notin KeyNames
  BY DEF KeyNames, OfTheSetup, BaseNames, CustomNames, Named, Parts, Only
<1>6. OpenStage("cm1_ext", "cm1_layers", At("open_cm2", 0))
  BY DEF OpenCm1
<1> DEFINE gone == { <<"cm1_ext">>, <<"cm1_layers">> }
<1>7. env' = Without(env, gone)
  BY <1>6 DEF OpenStage, ReleaseTree
<1>8. EnvNames' = EnvNames \ gone
  BY <1>2, <1>3, <1>5 DEF EnvNames
<1> HIDE DEF gone
<1>9. QED
  BY <1>1, <1>4, <1>7, <1>8, NamesGo

LEMMA OpenCm2Env == ASSUME EnvHolds, OpenCm2 PROVE EnvHolds'
<1>1. pc = "open_cm2" /\ pc' = "open_qsec" /\ air' = air /\ keep' = keep
  BY DEF OpenCm2, OpenStage, At, Kept
<1>2. KeyNames' = KeyNames
  BY <1>1, KeyKept, CustomsBehind, PlacesAre DEF Past, Behind
<1>3. InstanceNames' = InstanceNames \ { <<"cm2_ext">>, <<"cm2_layers">> }
  BY <1>1, PlacesAre DEF InstanceNames, Past, Only, Scalars
<1>4. \A n : Means(n)' = Means(n)
  BY <1>1, MeansKept, PlacesAre DEF Past
<1>5. <<"cm2_ext">> \notin KeyNames /\ <<"cm2_layers">> \notin KeyNames
  BY DEF KeyNames, OfTheSetup, BaseNames, CustomNames, Named, Parts, Only
<1>6. OpenStage("cm2_ext", "cm2_layers", At("open_qsec", 0))
  BY DEF OpenCm2
<1> DEFINE gone == { <<"cm2_ext">>, <<"cm2_layers">> }
<1>7. env' = Without(env, gone)
  BY <1>6 DEF OpenStage, ReleaseTree
<1>8. EnvNames' = EnvNames \ gone
  BY <1>2, <1>3, <1>5 DEF EnvNames
<1> HIDE DEF gone
<1>9. QED
  BY <1>1, <1>4, <1>7, <1>8, NamesGo

LEMMA OpenQsecEnv == ASSUME EnvHolds, OpenQsec PROVE EnvHolds'
<1>1. pc = "open_qsec" /\ pc' \in { "layers", "end" } /\ air' = air /\ keep' = keep
  BY DEF OpenQsec, At, Kept
<1>2. KeyNames' = KeyNames
  BY <1>1, KeyKept, CustomsBehind, PlacesAre DEF Past, Behind
<1>3. InstanceNames' = InstanceNames \ { <<"qsec">>, <<"qsec_layers">> }
  BY <1>1, PlacesAre DEF InstanceNames, Past, Only, Scalars
<1>4. \A n : Means(n)' = Means(n)
  BY <1>1, MeansKept, PlacesAre DEF Past
<1>5. <<"qsec">> \notin KeyNames /\ <<"qsec_layers">> \notin KeyNames
  BY DEF KeyNames, OfTheSetup, BaseNames, CustomNames, Named, Parts, Only
<1> DEFINE gone == { <<"qsec">>, <<"qsec_layers">> }
<1>6. env' = Without(env, gone)
  BY DEF OpenQsec, ReleaseTree
<1>7. EnvNames' = EnvNames \ gone
  BY <1>2, <1>3, <1>5 DEF EnvNames
<1> HIDE DEF gone
<1>8. QED
  BY <1>1, <1>4, <1>6, <1>7, NamesGo

\* The key's trees go with their openings, unless a later prove keeps them.
LEMMA OpenConstEnv == ASSUME IsAir(air), EnvHolds, OpenConst PROVE EnvHolds'
<1> DEFINE gone == IF keep THEN {} ELSE { <<"const_ext">>, <<"const_layers">> }
<1>1. /\ pc = "open_const" /\ air' = air /\ keep' = keep
      /\ \/ air.customs = <<>> /\ pc' = "open_cm1"
         \/ air.customs # <<>> /\ pc' = "custom" /\ k' = 1
  BY DEF OpenConst, At, Kept
<1>2. CustomsLeft' = CustomsLeft
  <2>1. Behind("custom", air.customs) = 0
    BY <1>1, PlacesAre DEF Past, Behind
  <2>2. Behind("custom", air.customs)' = 0
    <3>1. CASE air.customs = <<>>
      BY <1>1, <3>1, PlacesAre DEF Past, Behind
    <3>2. CASE air.customs # <<>>
      BY <1>1, <3>2, PlacesAre DEF Past, Behind
    <3>3. QED
      BY <3>1, <3>2
  <2>3. QED
    BY <1>1, <2>1, <2>2 DEF CustomsLeft
<1>3. KeyNames' = KeyNames \ gone
  <2> DEFINE rest == OfTheSetup \cup Only(keep, BaseNames(air)) \cup UNION { CustomNames(c) : c \in CustomsLeft }
  <2>1. Past("logup") /\ Past("logup")' /\ ~Past("open_const") /\ Past("open_const")'
    BY <1>1, PlacesAre DEF Past
  <2>2. KeyNames = rest \cup { <<"const_ext">>, <<"const_layers">> }
    BY <2>1 DEF KeyNames, Only
  <2>3. KeyNames' = rest \cup (IF keep THEN { <<"const_ext">>, <<"const_layers">> } ELSE {})
    BY <1>1, <1>2, <2>1 DEF KeyNames, Only, OfTheSetup
  <2>4. <<"const_ext">> \notin rest /\ <<"const_layers">> \notin rest
    BY DEF OfTheSetup, BaseNames, CustomNames, Named, Parts, Only
  <2> HIDE DEF rest
  <2>5. QED
    BY <2>2, <2>3, <2>4
<1>4. InstanceNames' = InstanceNames /\ \A n \in InstanceNames : n \notin { <<"const_ext">>, <<"const_layers">> }
  BY <1>1, PlacesAre DEF InstanceNames, Past, Only, Scalars
<1>5. \A n : Means(n)' = Means(n)
  BY <1>1, MeansKept, PlacesAre DEF Past
<1>6. EnvNames' = EnvNames \ gone
  BY <1>3, <1>4 DEF EnvNames
<1>7. CASE keep
  BY <1>5, <1>6, <1>7 DEF OpenConst, EnvHolds
<1>8. CASE ~keep
  <2>1. env' = Without(env, gone)
    BY <1>8 DEF OpenConst, ReleaseTree
  <2> HIDE DEF gone
  <2>2. QED
    BY <1>5, <1>6, <2>1, NamesGo
<1>9. QED
  BY <1>7, <1>8

LEMMA OpenCustomEnv == ASSUME IsAir(air), EnvHolds, k \in DOMAIN air.customs, OpenCustom PROVE EnvHolds'
<1> DEFINE id == air.customs[k]
           gone == IF keep THEN {} ELSE CustomNames(id)
           behind == IF keep THEN {} ELSE { id }
<1>1. /\ pc = "custom" /\ air' = air /\ keep' = keep
      /\ \/ k < Len(air.customs) /\ pc' = "custom" /\ k' = k + 1
         \/ ~(k < Len(air.customs)) /\ pc' = "open_cm1"
  BY DEF OpenCustom, At, Kept
<1>2. /\ Len(air.customs) \in Nat /\ k \in 1..Len(air.customs) /\ DOMAIN air.customs = 1..Len(air.customs)
      /\ \A i, j \in DOMAIN air.customs : air.customs[i] = air.customs[j] => i = j
  BY AirIs
<1>3. CustomsLeft' = CustomsLeft \ behind
  <2>1. Behind("custom", air.customs) = k - 1
    BY <1>1, PlacesAre DEF Past, Behind
  <2>2. Behind("custom", air.customs)' = k
    <3>1. CASE k < Len(air.customs)
      <4>1. pc' = "custom" /\ k' = k + 1
        BY <1>1, <3>1
      <4>2. Behind("custom", air.customs)' = k' - 1
        BY <1>1, <4>1, PlacesAre DEF Past, Behind
      <4>3. QED
        BY <1>2, <4>1, <4>2
    <3>2. CASE ~(k < Len(air.customs))
      <4>1. pc' = "open_cm1" /\ k = Len(air.customs)
        BY <1>1, <1>2, <3>2
      <4>2. QED
        BY <1>1, <4>1, PlacesAre DEF Past, Behind
    <3>3. QED
      BY <3>1, <3>2
  <2>3. \A i \in DOMAIN air.customs : i > k - 1 <=> i > k \/ i = k
    BY <1>2
  <2>4. \A c : c \in CustomsLeft <=> \E i \in DOMAIN air.customs : c = air.customs[i] /\ (keep \/ i > k - 1)
    BY <2>1 DEF CustomsLeft
  <2>5. \A c : c \in CustomsLeft' <=> \E i \in DOMAIN air.customs : c = air.customs[i] /\ (keep \/ i > k)
    BY <1>1, <2>2 DEF CustomsLeft
  <2>6. ~(k > k)
    BY <1>2
  <2>7. CASE keep
    BY <2>4, <2>5, <2>7
  <2>8. CASE ~keep
    BY <1>2, <2>3, <2>4, <2>5, <2>6, <2>8
  <2>9. QED
    BY <2>7, <2>8
<1>4. KeyNames' = KeyNames \ gone
  <2> DEFINE rest == OfTheSetup \cup Only(keep, BaseNames(air)) \cup Only(keep, { <<"const_ext">>, <<"const_layers">> })
  <2>1. Past("logup") /\ Past("logup")' /\ Past("open_const") /\ Past("open_const")'
    BY <1>1, PlacesAre DEF Past
  <2>2. KeyNames = rest \cup UNION { CustomNames(c) : c \in CustomsLeft }
    BY <2>1 DEF KeyNames, Only
  <2>3. KeyNames' = rest \cup UNION { CustomNames(c) : c \in CustomsLeft \ behind }
    BY <1>1, <1>3, <2>1 DEF KeyNames, Only, OfTheSetup
  <2>4. \A n \in rest : n \notin gone
    BY DEF OfTheSetup, BaseNames, CustomNames, Named, Parts, Only
  <2>5. \A c, d : c # d => CustomNames(c) \cap CustomNames(d) = {}
    BY DEF CustomNames
  <2>6. UNION { CustomNames(c) : c \in CustomsLeft \ behind } = (UNION { CustomNames(c) : c \in CustomsLeft }) \ gone
    <3>1. CASE keep
      BY <3>1
    <3>2. CASE ~keep
      <4> HIDE DEF id
      <4>1. QED
        BY <2>5, <3>2
    <3>3. QED
      BY <3>1, <3>2
  <2> HIDE DEF rest
  <2>7. QED
    BY <2>2, <2>3, <2>4, <2>6
<1>5. InstanceNames' = InstanceNames
  <2>1. /\ Past("commit1")' <=> Past("commit1")
        /\ Past("logup")' <=> Past("logup")
        /\ Past("commit2")' <=> Past("commit2")
        /\ Past("quotient_commit")' <=> Past("quotient_commit")
        /\ Past("lev")' <=> Past("lev")
        /\ Past("evals_sum")' <=> Past("evals_sum")
    BY <1>1, PlacesAre DEF Past
  <2>2. /\ Past("open_cm1")' <=> Past("open_cm1")
        /\ Past("open_cm2")' <=> Past("open_cm2")
        /\ Past("open_qsec")' <=> Past("open_qsec")
    BY <1>1, PlacesAre DEF Past
  <2>3. QED
    BY <1>1, <2>1, <2>2 DEF InstanceNames, Only, Scalars
<1>6. \A n \in InstanceNames : n \notin gone
  BY DEF InstanceNames, CustomNames, Only, Scalars
<1>7. \A n : Means(n)' = Means(n)
  BY <1>1, MeansKept, PlacesAre DEF Past
<1>8. EnvNames' = EnvNames \ gone
  BY <1>4, <1>5, <1>6 DEF EnvNames
<1>9. CASE keep
  BY <1>7, <1>8, <1>9 DEF OpenCustom, EnvHolds
<1>10. CASE ~keep
  <2>1. env' = Without(env, gone)
    BY <1>10 DEF OpenCustom, ReleaseTree, CustomNames
  <2> HIDE DEF gone
  <2>2. QED
    BY <1>7, <1>8, <2>1, NamesGo
<1>11. QED
  BY <1>9, <1>10

LEMMA StartProveEnv ==
    ASSUME IsAir(air), fixed = SetupEnv, NEW keeps \in BOOLEAN, StartProve(keeps)
    PROVE  EnvHolds'
<1> DEFINE ours == { <<"trace">> } \cup Scalars
           first == Challenges(2)
<1>1. /\ pc' = (IF air.witness THEN "witness_calc" ELSE "commit1") /\ air' = air /\ keep' = keeps
      /\ env' = first ++ Uploaded ++ fixed
  BY DEF StartProve, At
<1>2. IsMap(fixed) /\ DOMAIN fixed = WholeKey /\ \A n \in WholeKey : fixed[n] = Means(n)
  BY SetupEnvIs
<1>3. KeyNames' = WholeKey
  <2>1. ~Past("logup")' /\ ~Past("open_const")' /\ ~Past("custom")' /\ pc' # "custom"
    BY <1>1, PlacesAre DEF Past
  <2>2. Behind("custom", air.customs)' = 0
    BY <2>1 DEF Behind
  <2>3. \A i \in DOMAIN air.customs : i > 0
    BY AirIs
  <2>4. CustomsLeft' = Ids(air)
    BY <1>1, <2>2, <2>3 DEF CustomsLeft, Ids, Range
  <2>5. OfTheSetup' = OfTheSetup
    BY <1>1 DEF OfTheSetup
  <2>6. QED
    BY <1>1, <2>1, <2>4, <2>5 DEF KeyNames, WholeKey, Only
<1>4. InstanceNames' = ours \cup { <<"challenges">> }
  BY <1>1, PlacesAre DEF InstanceNames, Past, Only
<1>5. \A n \in WholeKey : Means(n)' = Means(n) /\ n \notin ours \cup { <<"challenges">> }
  <2>1. \A n \in WholeKey : n[1] \notin { "trace", "publics", "airvalues", "proofvalues", "challenges" }
    BY DEF WholeKey, OfTheSetup, BaseNames, CustomNames, Named, Parts, Only
  <2>2. \A n : n[1] \notin { "trace", "airvalues", "challenges" } => Means(n)' = Means(n)
    BY <1>1 DEF Means
  <2>3. QED
    BY <2>1, <2>2 DEF Scalars
<1>6. /\ \A n \in ours : Means(n)' = Host(n)
      /\ Means(<<"challenges">>)' = ChallengesUpTo(2)
  BY <1>1, PlacesAre DEF Means, Past, Scalars, Trace
<1>7. DOMAIN first = { <<"challenges">> } /\ first[<<"challenges">>] = ChallengesUpTo(2)
  BY BindIs DEF Challenges
<1>8. DOMAIN Uploaded = ours /\ \A n \in ours : Uploaded[n] = Host(n)
  BY DEF Uploaded
<1>9. <<"challenges">> \notin ours
  BY DEF Scalars
<1> HIDE DEF first, ours
<1>10. IsJoin(env', first ++ Uploaded, fixed) /\ IsJoin(first ++ Uploaded, first, Uploaded)
  BY <1>1, JoinIs
<1>11. DOMAIN env' = EnvNames'
  BY <1>2, <1>3, <1>4, <1>7, <1>8, <1>10 DEF EnvNames, IsJoin
<1>12. ASSUME NEW n \in DOMAIN env' PROVE env'[n] = Means(n)'
  <2>1. CASE n = <<"challenges">>
    BY <1>6, <1>7, <1>10, <2>1 DEF IsJoin
  <2>2. CASE n \in ours
    BY <1>6, <1>7, <1>8, <1>9, <1>10, <2>2 DEF IsJoin
  <2>3. CASE n \in WholeKey
    BY <1>2, <1>5, <1>7, <1>8, <1>10, <2>3 DEF IsJoin
  <2>4. QED
    BY <1>2, <1>7, <1>8, <1>10, <2>1, <2>2, <2>3 DEF IsJoin
<1>13. QED
  BY <1>10, <1>11, <1>12 DEF EnvHolds, IsJoin

-----------------------------------------------------------------------------
(* The steps: what is left of the batches and the rounds.                  *)

\* Between two programs over the environment nothing in it changes.
LEMMA StretchEnv ==
    ASSUME EnvHolds, air' = air, keep' = keep, env' = env,
           \/ pc = "quotient" /\ pc' \in { "quotient", "quotient_commit" }
           \/ pc = "evals" /\ pc' \in { "evals", "evals_sum" }
           \/ /\ pc \in { "deep", "deep_concat", "commit", "fold", "fri_final", "grind" }
              /\ pc' \in { "deep", "deep_concat", "commit", "fold", "fri_final", "grind", "open_const" }
           \/ pc = "layers" /\ pc' \in { "layers", "end" }
    PROVE  EnvHolds'
<1>1. \A p \in EnvPlaces : Past(p)' <=> Past(p)
  BY PlacesAre DEF EnvPlaces, Past
<1>2. Behind("custom", air.customs)' = Behind("custom", air.customs)
  BY PlacesAre DEF Behind, Past
<1>3. QED
  BY <1>1, <1>2, EnvUntouched

PartPlaces == { "quotient", "quotient_commit", "evals", "evals_sum", "deep", "deep_concat" }

LEMMA NoParts == ASSUME pc' \notin PartPlaces, parts' = <<>> PROVE PartsAre'
BY DEF PartsAre, PartPlaces

LEMMA PartsStay == ASSUME PartsAre, pc \notin PartPlaces PROVE parts = <<>>
BY DEF PartsAre, PartPlaces

LEMMA PartsBegin ==
    ASSUME parts' = <<>>, k' = 1, pc' \in { "quotient", "evals", "deep" }
    PROVE  PartsAre'
<1>1. IsMap(parts') /\ DOMAIN parts' = {} /\ 1..0 = {}
  BY DEF IsMap
<1>2. \A p \in { "quotient", "evals", "deep" } : \A sizes : pc' = p => Behind(p, sizes)' = 0
  BY PlacesAre DEF Behind, Past
<1>3. \A prefix, runs, out : PartsHold(parts', prefix, runs, out, 0)
  BY <1>1 DEF PartsHold, IsMap
<1>4. QED
  BY <1>2, <1>3 DEF PartsAre

\* One window more.
LEMMA PartJoins ==
    ASSUME NEW prefix, NEW runs, NEW out, NEW j \in Nat \ {0},
           PartsHold(parts, prefix, runs, out, j - 1),
           parts' = Bind(<<prefix, j>>, Out(runs[j], out)) ++ parts
    PROVE  PartsHold(parts', prefix, runs, out, j)
<1> DEFINE v == Out(runs[j], out)
           mine == Bind(<<prefix, j>>, v)
<1>1. DOMAIN mine = { <<prefix, j>> } /\ mine[<<prefix, j>>] = v
  BY BindIs
<1>2. /\ DOMAIN parts = { <<prefix, i>> : i \in 1..(j - 1) }
      /\ \A i \in 1..(j - 1) : parts[<<prefix, i>>] = Out(runs[i], out)
  BY DEF PartsHold
<1> HIDE DEF v, mine
<1>3. IsJoin(parts', mine, parts)
  BY JoinIs DEF v, mine
<1>4. 1..j = (1..(j - 1)) \cup {j}
  OBVIOUS
<1>5. DOMAIN parts' = { <<prefix, i>> : i \in 1..j }
  BY <1>1, <1>2, <1>3, <1>4 DEF IsJoin
<1>6. ASSUME NEW i \in 1..j PROVE parts'[<<prefix, i>>] = Out(runs[i], out)
  <2>1. CASE i = j
    BY <1>1, <1>3, <2>1 DEF IsJoin, v
  <2>2. CASE i # j
    <3>1. i \in 1..(j - 1) /\ <<prefix, i>> # <<prefix, j>>
      BY <2>2
    <3>2. <<prefix, i>> \in DOMAIN parts \ DOMAIN mine
      BY <1>1, <1>2, <3>1
    <3>3. QED
      BY <1>2, <1>3, <3>1, <3>2 DEF IsJoin
  <2>3. QED
    BY <2>1, <2>2
<1>7. IsMap(parts')
  BY <1>3 DEF IsJoin
<1>8. QED
  BY <1>5, <1>6, <1>7 DEF PartsHold, IsMap

\* The environments of the rounds stay while no round is committed or opened.
LEMMA LayersKept ==
    ASSUME LayersAre, layers' = layers, Committed' = Committed, LayersOpened' = LayersOpened
    PROVE  LayersAre'
BY DEF LayersAre, LayerHolds, IsMap

\* A round more ...
LEMMA LayerJoins ==
    ASSUME LayersAre, NEW j \in Nat, Committed = j, Committed' = j + 1, LayersOpened = 0, LayersOpened' = 0,
           NEW layer, layers' = Append(layers, layer), LayerHolds(layer, j)
    PROVE  LayersAre'
<1>1. DOMAIN layers = 1..j /\ layers = [i \in 1..j |-> layers[i]]
  BY DEF LayersAre, IsMap
<1>2. Len(layers) = j
  BY <1>1
<1>3. /\ DOMAIN layers' = 1..(j + 1) /\ layers' = [i \in 1..(j + 1) |-> layers'[i]]
      /\ layers'[j + 1] = layer /\ \A i \in 1..j : layers'[i] = layers[i]
  BY <1>1, <1>2
<1>4. \A i \in 1..(j + 1) : ~(i <= 0)
  OBVIOUS
<1>5. \A i \in 1..j : LayerHolds(layers[i], i - 1)
  BY <1>4 DEF LayersAre
<1>6. ASSUME NEW i \in 1..(j + 1) PROVE LayerHolds(layers'[i], i - 1)
  <2>1. CASE i = j + 1
    <3>1. i - 1 = j /\ layers'[i] = layer
      BY <1>3, <2>1
    <3>2. QED
      BY <3>1
  <2>2. CASE i # j + 1
    <3>1. i \in 1..j
      BY <2>2
    <3>2. QED
      BY <1>3, <1>5, <3>1
  <2>3. QED
    BY <2>1, <2>2
<1>7. \A f, i : LayerHolds(f, i)' <=> LayerHolds(f, i)
  BY DEF LayerHolds
<1>8. QED
  BY <1>3, <1>4, <1>6, <1>7 DEF LayersAre, IsMap

\* ... and a round opened.
LEMMA LayerGoes ==
    ASSUME LayersAre, NEW j \in Nat, j < Committed, Committed \in Nat, Committed' = Committed,
           LayersOpened = j, LayersOpened' = j + 1,
           layers' = [layers EXCEPT ![j + 1] = <<>>]
    PROVE  LayersAre'
<1>1. DOMAIN layers' = 1..Committed /\ layers' = [i \in DOMAIN layers' |-> layers'[i]]
  BY DEF LayersAre
<1>2. layers'[j + 1] = <<>> /\ \A i \in 1..Committed : i # j + 1 => layers'[i] = layers[i]
  BY DEF LayersAre
<1>3. ASSUME NEW i \in 1..Committed
      PROVE  IF i <= j + 1 THEN layers'[i] = <<>> ELSE LayerHolds(layers'[i], i - 1)
  <2>1. CASE i = j + 1
    BY <1>2, <2>1
  <2>2. CASE i # j + 1
    <3>1. i <= j + 1 <=> i <= j
      BY <2>2
    <3>2. IF i <= j THEN layers[i] = <<>> ELSE LayerHolds(layers[i], i - 1)
      BY DEF LayersAre
    <3>3. QED
      BY <1>2, <2>2, <3>1, <3>2
  <2>3. QED
    BY <2>1, <2>2
<1>4. \A f, i : LayerHolds(f, i)' <=> LayerHolds(f, i)
  BY DEF LayerHolds
<1>5. QED
  BY <1>1, <1>3, <1>4 DEF LayersAre, IsMap

-----------------------------------------------------------------------------
(* The steps: the history.                                                 *)

\* How far the batches and the rounds are.
Counts ==
    << Behind("quotient", air.q), Behind("evals", air.e), Behind("deep", air.d), Committed, FoldedRounds,
       Behind("custom", air.customs), LayersOpened >>

\* The places the counts are taken at.  A step between other places, or to the
\* first call of a batch, counts nothing.
Counted == { "quotient", "evals", "deep", "commit", "fold", "custom", "layers" }

LEMMA CountsStay ==
    ASSUME air' = air, pc \notin Counted,
           pc' \notin Counted \/ (pc' \in { "quotient", "evals", "deep", "custom" } /\ k' = 1),
           \A p \in Counted : Past(p)' <=> Past(p)
    PROVE  Counts' = Counts
<1>1. Behind("quotient", air.q)' = Behind("quotient", air.q)
  BY DEF Behind, Counted
<1>2. Behind("evals", air.e)' = Behind("evals", air.e)
  BY DEF Behind, Counted
<1>3. Behind("deep", air.d)' = Behind("deep", air.d)
  BY DEF Behind, Counted
<1>4. Behind("custom", air.customs)' = Behind("custom", air.customs)
  BY DEF Behind, Counted
<1>5. Committed' = Committed
  BY DEF Committed, Counted
<1>6. FoldedRounds' = FoldedRounds
  BY DEF FoldedRounds, Counted
<1>7. LayersOpened' = LayersOpened
  BY DEF LayersOpened, Counted
<1>8. QED
  BY <1>1, <1>2, <1>3, <1>4, <1>5, <1>6, <1>7 DEF Counts

SinglesKept == \A p \in SinglePlaces : Past(p)' <=> Past(p)

LEMMA SetsKept ==
    ASSUME air' = air
    PROVE  /\ RunsOf(SetupNames(air))' = RunsOf(SetupNames(air))
           /\ (Past("witness_calc")' <=> Past("witness_calc")) => WitnessRan' = WitnessRan
           /\ SinglesKept => SinglesRan' = SinglesRan
           /\ Behind("quotient", air.q)' = Behind("quotient", air.q) => QuotientsRan' = QuotientsRan
           /\ Behind("evals", air.e)' = Behind("evals", air.e) => EvalsRan' = EvalsRan
           /\ Behind("deep", air.d)' = Behind("deep", air.d) => DeepsRan' = DeepsRan
           /\ Committed' = Committed => CommitsRan' = CommitsRan
           /\ FoldedRounds' = FoldedRounds => FoldsRan' = FoldsRan
           /\ Behind("custom", air.customs)' = Behind("custom", air.customs) => CustomsRan' = CustomsRan
           /\ LayersOpened' = LayersOpened => LayersRan' = LayersRan
<1>1. RunsOf(SetupNames(air))' = RunsOf(SetupNames(air))
  OBVIOUS
<1>2. (Past("witness_calc")' <=> Past("witness_calc")) => WitnessRan' = WitnessRan
  BY DEF WitnessRan, Only
<1>3. SinglesKept => SinglesRan' = SinglesRan
  BY DEF SinglesKept, SinglesRan
<1>4. Behind("quotient", air.q)' = Behind("quotient", air.q) => QuotientsRan' = QuotientsRan
  BY DEF QuotientsRan
<1>5. Behind("evals", air.e)' = Behind("evals", air.e) => EvalsRan' = EvalsRan
  BY DEF EvalsRan
<1>6. Behind("deep", air.d)' = Behind("deep", air.d) => DeepsRan' = DeepsRan
  BY DEF DeepsRan
<1>7. Committed' = Committed => CommitsRan' = CommitsRan
  BY DEF CommitsRan
<1>8. FoldedRounds' = FoldedRounds => FoldsRan' = FoldsRan
  BY DEF FoldsRan
<1>9. Behind("custom", air.customs)' = Behind("custom", air.customs) => CustomsRan' = CustomsRan
  BY DEF CustomsRan
<1>10. LayersOpened' = LayersOpened => LayersRan' = LayersRan
  BY DEF LayersRan
<1>11. QED
  BY <1>1, <1>2, <1>3, <1>4, <1>5, <1>6, <1>7, <1>8, <1>9, <1>10

\* A single program more ...
LEMMA SingleMore ==
    ASSUME air' = air, NEW p \in SinglePlaces, \A x \in SinglePlaces : Past(x)' <=> Past(x) \/ x = p,
           Past("witness_calc")' <=> Past("witness_calc"), Counts' = Counts
    PROVE  RunsSoFar' = RunsSoFar \cup { Run(<<p>>) }
<1>1. SinglesRan' = SinglesRan \cup { Run(<<p>>) }
  BY DEF SinglesRan
<1>2. QED
  BY <1>1, SetsKept DEF RunsSoFar, Counts

\* ... or the witness's, a window, a round, a commit or a layer.
LEMMA OthersMore ==
    ASSUME air' = air, SinglesKept, NEW r,
           \/ /\ WitnessRan' = WitnessRan \cup { r } /\ Counts' = Counts
           \/ /\ Past("witness_calc")' <=> Past("witness_calc")
              /\ \/ /\ QuotientsRan' = QuotientsRan \cup { r }
                    /\ \A i \in 2..7 : Counts'[i] = Counts[i]
                 \/ /\ EvalsRan' = EvalsRan \cup { r }
                    /\ \A i \in (1..7) \ {2} : Counts'[i] = Counts[i]
                 \/ /\ DeepsRan' = DeepsRan \cup { r }
                    /\ \A i \in (1..7) \ {3} : Counts'[i] = Counts[i]
                 \/ /\ CommitsRan' = CommitsRan \cup { r }
                    /\ \A i \in (1..7) \ {4} : Counts'[i] = Counts[i]
                 \/ /\ FoldsRan' = FoldsRan \cup { r }
                    /\ \A i \in (1..7) \ {5} : Counts'[i] = Counts[i]
                 \/ /\ CustomsRan' = CustomsRan \cup { r }
                    /\ \A i \in (1..7) \ {6} : Counts'[i] = Counts[i]
                 \/ /\ LayersRan' = LayersRan \cup { r }
                    /\ \A i \in 1..6 : Counts'[i] = Counts[i]
    PROVE  RunsSoFar' = RunsSoFar \cup { r }
<1>1. /\ Counts[1] = Behind("quotient", air.q) /\ Counts[2] = Behind("evals", air.e)
      /\ Counts[3] = Behind("deep", air.d) /\ Counts[4] = Committed /\ Counts[5] = FoldedRounds
      /\ Counts[6] = Behind("custom", air.customs) /\ Counts[7] = LayersOpened
  BY DEF Counts
<1>2. /\ Counts'[1] = Behind("quotient", air.q)' /\ Counts'[2] = Behind("evals", air.e)'
      /\ Counts'[3] = Behind("deep", air.d)' /\ Counts'[4] = Committed' /\ Counts'[5] = FoldedRounds'
      /\ Counts'[6] = Behind("custom", air.customs)' /\ Counts'[7] = LayersOpened'
  BY DEF Counts
<1>3. QED
  BY <1>1, <1>2, SetsKept DEF RunsSoFar

\* A step that runs the next program keeps the invariant when its parts do.
StepIs ==
    /\ pc' # "idle"
    /\ InPlace'
    /\ EnvHolds'
    /\ PartsAre'
    /\ LayersAre'
    /\ CodewordIs'

LEMMA SetupEnvKept == ASSUME air' = air PROVE SetupEnv' = SetupEnv /\ SetupRan' = SetupRan
BY DEF SetupEnv, SetupRan, RunInto, RunIntoRenamed

LEMMA RunKeeps ==
    ASSUME IInv, pc \notin { "idle", "end" }, RunOnce, Kept, StepIs, RunsSoFar' = RunsSoFar \cup { NextRun }
    PROVE  IInv'
<1>1. air' = air /\ fixed' = fixed /\ proves' = proves /\ keep' = keep
  BY DEF Kept
<1>2. KeptSectionsAreTheKeys'
  BY <1>1, SetupEnvKept DEF IInv, KeptSectionsAreTheKeys
<1>3. EnvIs'
  BY DEF EnvIs, StepIs
<1>4. RanAsScheduled'
  <2> DEFINE call == Called(air, NextRun, BindsFrom)
  <2>1. ran' = ran \cup { call }
    BY DEF RunOnce
  <2>2. NextCallIs
    BY CallsAre
  <2>3. call.run = NextRun /\ call.args = ArgsOf(air, NextRun) /\ NextRun \in Runs(air)
    BY <2>2, CallFits DEF Called, NextCallIs
  <2>4. /\ \A r \in ran : r.run \in Runs(air) /\ r.args = ArgsOf(air, r.run)
        /\ { r.run : r \in ran } = RunsSoFar
    BY DEF IInv, RanAsScheduled
  <2> HIDE DEF call
  <2>5. \A r \in ran' : r.run \in Runs(air) /\ r.args = ArgsOf(air, r.run)
    BY <2>1, <2>3, <2>4
  <2>6. { r.run : r \in ran' } = RunsSoFar \cup { NextRun }
    BY <2>1, <2>3, <2>4
  <2>7. QED
    BY <1>1, <2>5, <2>6 DEF RanAsScheduled
<1>5. QED
  BY <1>1, <1>2, <1>3, <1>4 DEF IInv, StepIs

LEMMA Commit1Step == ASSUME IInv, Commit1 PROVE IInv'
<1>1. /\ pc = "commit1"
      /\ pc' = "logup"
      /\ air' = air /\ keep' = keep /\ NextRun = Run(<<"commit1">>)
  BY DEF Commit1, At, Kept, NextRun
<1>2. EnvHolds /\ PartsAre /\ LayersAre /\ InPlace
  BY <1>1 DEF IInv, EnvIs
<1>3. IsAir(air)
  BY AirsAssumption DEF IInv
<1>4. EnvHolds'
  BY <1>1, <1>2, <1>3, Commit1Env
<1>5. InPlace'
  BY <1>1 DEF InPlace, Places
<1>6. PartsAre'
  BY <1>1, <1>2, NoParts, PartsStay DEF PartPlaces, Commit1
<1>7. LayersAre'
  BY <1>1, <1>2, LayersKept, PlacesAre DEF Committed, LayersOpened, Past, Commit1
<1>8. CodewordIs'
  BY <1>1 DEF CodewordIs
<1>9. RunsSoFar' = RunsSoFar \cup { NextRun }
  <2>1. \A x \in SinglePlaces : Past(x)' <=> Past(x) \/ x = "commit1"
    BY <1>1, PlacesAre DEF SinglePlaces, Past
  <2>2. (Past("witness_calc")' <=> Past("witness_calc")) /\ "commit1" \in SinglePlaces
    BY <1>1, PlacesAre DEF SinglePlaces, Past
  <2>3. Counts' = Counts
    <3>1. \A p \in Counted : Past(p)' <=> Past(p)
      BY <1>1, PlacesAre DEF Counted, Past
    <3>2. QED
      BY <1>1, <3>1, CountsStay DEF Counted
  <2>4. QED
    BY <1>1, <2>1, <2>2, <2>3, SingleMore
<1>10. QED
  BY <1>1, <1>4, <1>5, <1>6, <1>7, <1>8, <1>9, RunKeeps DEF Commit1, StepIs

LEMMA LogUpStep == ASSUME IInv, LogUp PROVE IInv'
<1>1. /\ pc = "logup"
      /\ pc' = "commit2"
      /\ air' = air /\ keep' = keep /\ NextRun = Run(<<"logup">>)
  BY DEF LogUp, At, Kept, NextRun
<1>2. EnvHolds /\ PartsAre /\ LayersAre /\ InPlace
  BY <1>1 DEF IInv, EnvIs
<1>3. IsAir(air)
  BY AirsAssumption DEF IInv
<1>4. EnvHolds'
  BY <1>1, <1>2, <1>3, LogUpEnv
<1>5. InPlace'
  BY <1>1 DEF InPlace, Places
<1>6. PartsAre'
  BY <1>1, <1>2, NoParts, PartsStay DEF PartPlaces, LogUp
<1>7. LayersAre'
  BY <1>1, <1>2, LayersKept, PlacesAre DEF Committed, LayersOpened, Past, LogUp
<1>8. CodewordIs'
  BY <1>1 DEF CodewordIs
<1>9. RunsSoFar' = RunsSoFar \cup { NextRun }
  <2>1. \A x \in SinglePlaces : Past(x)' <=> Past(x) \/ x = "logup"
    BY <1>1, PlacesAre DEF SinglePlaces, Past
  <2>2. (Past("witness_calc")' <=> Past("witness_calc")) /\ "logup" \in SinglePlaces
    BY <1>1, PlacesAre DEF SinglePlaces, Past
  <2>3. Counts' = Counts
    <3>1. \A p \in Counted : Past(p)' <=> Past(p)
      BY <1>1, PlacesAre DEF Counted, Past
    <3>2. QED
      BY <1>1, <3>1, CountsStay DEF Counted
  <2>4. QED
    BY <1>1, <2>1, <2>2, <2>3, SingleMore
<1>10. QED
  BY <1>1, <1>4, <1>5, <1>6, <1>7, <1>8, <1>9, RunKeeps DEF LogUp, StepIs

LEMMA Commit2Step == ASSUME IInv, Commit2 PROVE IInv'
<1>1. /\ pc = "commit2"
      /\ pc' = "quotient" /\ k' = 1
      /\ air' = air /\ keep' = keep /\ NextRun = Run(<<"commit2">>)
  BY DEF Commit2, At, Kept, NextRun
<1>2. EnvHolds /\ PartsAre /\ LayersAre /\ InPlace
  BY <1>1 DEF IInv, EnvIs
<1>3. IsAir(air)
  BY AirsAssumption DEF IInv
<1>4. EnvHolds'
  BY <1>1, <1>2, <1>3, Commit2Env
<1>5. InPlace'
  BY <1>1, <1>3, AirIs DEF InPlace, Places
<1>6. PartsAre'
  BY <1>1, <1>2, PartsBegin, PartsStay DEF PartPlaces, Commit2
<1>7. LayersAre'
  BY <1>1, <1>2, LayersKept, PlacesAre DEF Committed, LayersOpened, Past, Commit2
<1>8. CodewordIs'
  BY <1>1 DEF CodewordIs
<1>9. RunsSoFar' = RunsSoFar \cup { NextRun }
  <2>1. \A x \in SinglePlaces : Past(x)' <=> Past(x) \/ x = "commit2"
    BY <1>1, PlacesAre DEF SinglePlaces, Past
  <2>2. (Past("witness_calc")' <=> Past("witness_calc")) /\ "commit2" \in SinglePlaces
    BY <1>1, PlacesAre DEF SinglePlaces, Past
  <2>3. Counts' = Counts
    <3>1. \A p \in Counted : Past(p)' <=> Past(p)
      BY <1>1, PlacesAre DEF Counted, Past
    <3>2. QED
      BY <1>1, <3>1, CountsStay DEF Counted
  <2>4. QED
    BY <1>1, <2>1, <2>2, <2>3, SingleMore
<1>10. QED
  BY <1>1, <1>4, <1>5, <1>6, <1>7, <1>8, <1>9, RunKeeps DEF Commit2, StepIs

LEMMA QuotientCommitStep == ASSUME IInv, QuotientCommit PROVE IInv'
<1>1. /\ pc = "quotient_commit"
      /\ pc' = "lev"
      /\ air' = air /\ keep' = keep /\ NextRun = Run(<<"quotient_commit">>)
  BY DEF QuotientCommit, At, Kept, NextRun
<1>2. EnvHolds /\ PartsAre /\ LayersAre /\ InPlace
  BY <1>1 DEF IInv, EnvIs
<1>3. IsAir(air)
  BY AirsAssumption DEF IInv
<1>4. EnvHolds'
  BY <1>1, <1>2, <1>3, QuotientCommitEnv
<1>5. InPlace'
  BY <1>1 DEF InPlace, Places
<1>6. PartsAre'
  BY <1>1, <1>2, NoParts, PartsStay DEF PartPlaces, QuotientCommit
<1>7. LayersAre'
  BY <1>1, <1>2, LayersKept, PlacesAre DEF Committed, LayersOpened, Past, QuotientCommit
<1>8. CodewordIs'
  BY <1>1 DEF CodewordIs
<1>9. RunsSoFar' = RunsSoFar \cup { NextRun }
  <2>1. \A x \in SinglePlaces : Past(x)' <=> Past(x) \/ x = "quotient_commit"
    BY <1>1, PlacesAre DEF SinglePlaces, Past
  <2>2. (Past("witness_calc")' <=> Past("witness_calc")) /\ "quotient_commit" \in SinglePlaces
    BY <1>1, PlacesAre DEF SinglePlaces, Past
  <2>3. Counts' = Counts
    <3>1. \A p \in Counted : Past(p)' <=> Past(p)
      BY <1>1, PlacesAre DEF Counted, Past
    <3>2. QED
      BY <1>1, <3>1, CountsStay DEF Counted
  <2>4. QED
    BY <1>1, <2>1, <2>2, <2>3, SingleMore
<1>10. QED
  BY <1>1, <1>4, <1>5, <1>6, <1>7, <1>8, <1>9, RunKeeps DEF QuotientCommit, StepIs

LEMMA LevStep == ASSUME IInv, Lev PROVE IInv'
<1>1. /\ pc = "lev"
      /\ pc' = "evals" /\ k' = 1
      /\ air' = air /\ keep' = keep /\ NextRun = Run(<<"lev">>)
  BY DEF Lev, At, Kept, NextRun
<1>2. EnvHolds /\ PartsAre /\ LayersAre /\ InPlace
  BY <1>1 DEF IInv, EnvIs
<1>3. IsAir(air)
  BY AirsAssumption DEF IInv
<1>4. EnvHolds'
  BY <1>1, <1>2, <1>3, LevEnv
<1>5. InPlace'
  BY <1>1, <1>3, AirIs DEF InPlace, Places
<1>6. PartsAre'
  BY <1>1, <1>2, PartsBegin, PartsStay DEF PartPlaces, Lev
<1>7. LayersAre'
  BY <1>1, <1>2, LayersKept, PlacesAre DEF Committed, LayersOpened, Past, Lev
<1>8. CodewordIs'
  BY <1>1 DEF CodewordIs
<1>9. RunsSoFar' = RunsSoFar \cup { NextRun }
  <2>1. \A x \in SinglePlaces : Past(x)' <=> Past(x) \/ x = "lev"
    BY <1>1, PlacesAre DEF SinglePlaces, Past
  <2>2. (Past("witness_calc")' <=> Past("witness_calc")) /\ "lev" \in SinglePlaces
    BY <1>1, PlacesAre DEF SinglePlaces, Past
  <2>3. Counts' = Counts
    <3>1. \A p \in Counted : Past(p)' <=> Past(p)
      BY <1>1, PlacesAre DEF Counted, Past
    <3>2. QED
      BY <1>1, <3>1, CountsStay DEF Counted
  <2>4. QED
    BY <1>1, <2>1, <2>2, <2>3, SingleMore
<1>10. QED
  BY <1>1, <1>4, <1>5, <1>6, <1>7, <1>8, <1>9, RunKeeps DEF Lev, StepIs

LEMMA EvalsSumStep == ASSUME IInv, EvalsSum PROVE IInv'
<1>1. /\ pc = "evals_sum"
      /\ pc' = "deep" /\ k' = 1
      /\ air' = air /\ keep' = keep /\ NextRun = Run(<<"evals_sum">>)
  BY DEF EvalsSum, At, Kept, NextRun
<1>2. EnvHolds /\ PartsAre /\ LayersAre /\ InPlace
  BY <1>1 DEF IInv, EnvIs
<1>3. IsAir(air)
  BY AirsAssumption DEF IInv
<1>4. EnvHolds'
  BY <1>1, <1>2, <1>3, EvalsSumEnv
<1>5. InPlace'
  BY <1>1, <1>3, AirIs DEF InPlace, Places
<1>6. PartsAre'
  BY <1>1, <1>2, PartsBegin, PartsStay DEF PartPlaces, EvalsSum
<1>7. LayersAre'
  BY <1>1, <1>2, LayersKept, PlacesAre DEF Committed, LayersOpened, Past, EvalsSum
<1>8. CodewordIs'
  BY <1>1 DEF CodewordIs
<1>9. RunsSoFar' = RunsSoFar \cup { NextRun }
  <2>1. \A x \in SinglePlaces : Past(x)' <=> Past(x) \/ x = "evals_sum"
    BY <1>1, PlacesAre DEF SinglePlaces, Past
  <2>2. (Past("witness_calc")' <=> Past("witness_calc")) /\ "evals_sum" \in SinglePlaces
    BY <1>1, PlacesAre DEF SinglePlaces, Past
  <2>3. Counts' = Counts
    <3>1. \A p \in Counted : Past(p)' <=> Past(p)
      BY <1>1, PlacesAre DEF Counted, Past
    <3>2. QED
      BY <1>1, <3>1, CountsStay DEF Counted
  <2>4. QED
    BY <1>1, <2>1, <2>2, <2>3, SingleMore
<1>10. QED
  BY <1>1, <1>4, <1>5, <1>6, <1>7, <1>8, <1>9, RunKeeps DEF EvalsSum, StepIs

LEMMA FriFinalStep == ASSUME IInv, FriFinal PROVE IInv'
<1>1. /\ pc = "fri_final"
      /\ pc' = "grind"
      /\ air' = air /\ keep' = keep /\ NextRun = Run(<<"fri_final">>)
  BY DEF FriFinal, At, Kept, NextRun
<1>2. EnvHolds /\ PartsAre /\ LayersAre /\ InPlace
  BY <1>1 DEF IInv, EnvIs
<1>3. IsAir(air)
  BY AirsAssumption DEF IInv
<1>4. EnvHolds'
  BY <1>1, <1>2, StretchEnv DEF FriFinal
<1>5. InPlace'
  BY <1>1 DEF InPlace, Places
<1>6. PartsAre'
  BY <1>1, <1>2, NoParts, PartsStay DEF PartPlaces, FriFinal
<1>7. LayersAre'
  BY <1>1, <1>2, LayersKept, PlacesAre DEF Committed, LayersOpened, Past, FriFinal
<1>8. CodewordIs'
  BY <1>1 DEF CodewordIs
<1>9. RunsSoFar' = RunsSoFar \cup { NextRun }
  <2>1. \A x \in SinglePlaces : Past(x)' <=> Past(x) \/ x = "fri_final"
    BY <1>1, PlacesAre DEF SinglePlaces, Past
  <2>2. (Past("witness_calc")' <=> Past("witness_calc")) /\ "fri_final" \in SinglePlaces
    BY <1>1, PlacesAre DEF SinglePlaces, Past
  <2>3. Counts' = Counts
    <3>1. \A p \in Counted : Past(p)' <=> Past(p)
      BY <1>1, PlacesAre DEF Counted, Past
    <3>2. QED
      BY <1>1, <3>1, CountsStay DEF Counted
  <2>4. QED
    BY <1>1, <2>1, <2>2, <2>3, SingleMore
<1>10. QED
  BY <1>1, <1>4, <1>5, <1>6, <1>7, <1>8, <1>9, RunKeeps DEF FriFinal, StepIs

LEMMA GrindStep == ASSUME IInv, Grind PROVE IInv'
<1>1. /\ pc = "grind"
      /\ pc' = "open_const"
      /\ air' = air /\ keep' = keep /\ NextRun = Run(<<"grind">>)
  BY DEF Grind, At, Kept, NextRun
<1>2. EnvHolds /\ PartsAre /\ LayersAre /\ InPlace
  BY <1>1 DEF IInv, EnvIs
<1>3. IsAir(air)
  BY AirsAssumption DEF IInv
<1>4. EnvHolds'
  BY <1>1, <1>2, StretchEnv DEF Grind
<1>5. InPlace'
  BY <1>1 DEF InPlace, Places
<1>6. PartsAre'
  BY <1>1, <1>2, NoParts, PartsStay DEF PartPlaces, Grind
<1>7. LayersAre'
  BY <1>1, <1>2, LayersKept, PlacesAre DEF Committed, LayersOpened, Past, Grind
<1>8. CodewordIs'
  BY <1>1 DEF CodewordIs
<1>9. RunsSoFar' = RunsSoFar \cup { NextRun }
  <2>1. \A x \in SinglePlaces : Past(x)' <=> Past(x) \/ x = "grind"
    BY <1>1, PlacesAre DEF SinglePlaces, Past
  <2>2. (Past("witness_calc")' <=> Past("witness_calc")) /\ "grind" \in SinglePlaces
    BY <1>1, PlacesAre DEF SinglePlaces, Past
  <2>3. Counts' = Counts
    <3>1. \A p \in Counted : Past(p)' <=> Past(p)
      BY <1>1, PlacesAre DEF Counted, Past
    <3>2. QED
      BY <1>1, <3>1, CountsStay DEF Counted
  <2>4. QED
    BY <1>1, <2>1, <2>2, <2>3, SingleMore
<1>10. QED
  BY <1>1, <1>4, <1>5, <1>6, <1>7, <1>8, <1>9, RunKeeps DEF Grind, StepIs

LEMMA OpenCm1Step == ASSUME IInv, OpenCm1 PROVE IInv'
<1>1. /\ pc = "open_cm1"
      /\ pc' = "open_cm2"
      /\ air' = air /\ keep' = keep /\ NextRun = Run(<<"open_cm1">>)
  BY DEF OpenCm1, At, Kept, NextRun, OpenStage
<1>2. EnvHolds /\ PartsAre /\ LayersAre /\ InPlace
  BY <1>1 DEF IInv, EnvIs
<1>3. IsAir(air)
  BY AirsAssumption DEF IInv
<1>4. EnvHolds'
  BY <1>1, <1>2, <1>3, OpenCm1Env
<1>5. InPlace'
  BY <1>1 DEF InPlace, Places
<1>6. PartsAre'
  BY <1>1, <1>2, NoParts, PartsStay DEF PartPlaces, OpenCm1, OpenStage
<1>7. LayersAre'
  BY <1>1, <1>2, LayersKept, PlacesAre DEF Committed, LayersOpened, Past, OpenCm1, OpenStage
<1>8. CodewordIs'
  BY <1>1 DEF CodewordIs
<1>9. RunsSoFar' = RunsSoFar \cup { NextRun }
  <2>1. \A x \in SinglePlaces : Past(x)' <=> Past(x) \/ x = "open_cm1"
    BY <1>1, PlacesAre DEF SinglePlaces, Past
  <2>2. (Past("witness_calc")' <=> Past("witness_calc")) /\ "open_cm1" \in SinglePlaces
    BY <1>1, PlacesAre DEF SinglePlaces, Past
  <2>3. Counts' = Counts
    <3>1. \A p \in Counted : Past(p)' <=> Past(p)
      BY <1>1, PlacesAre DEF Counted, Past
    <3>2. QED
      BY <1>1, <3>1, CountsStay DEF Counted
  <2>4. QED
    BY <1>1, <2>1, <2>2, <2>3, SingleMore
<1>10. QED
  BY <1>1, <1>4, <1>5, <1>6, <1>7, <1>8, <1>9, RunKeeps DEF OpenCm1, StepIs, OpenStage

LEMMA OpenCm2Step == ASSUME IInv, OpenCm2 PROVE IInv'
<1>1. /\ pc = "open_cm2"
      /\ pc' = "open_qsec"
      /\ air' = air /\ keep' = keep /\ NextRun = Run(<<"open_cm2">>)
  BY DEF OpenCm2, At, Kept, NextRun, OpenStage
<1>2. EnvHolds /\ PartsAre /\ LayersAre /\ InPlace
  BY <1>1 DEF IInv, EnvIs
<1>3. IsAir(air)
  BY AirsAssumption DEF IInv
<1>4. EnvHolds'
  BY <1>1, <1>2, <1>3, OpenCm2Env
<1>5. InPlace'
  BY <1>1 DEF InPlace, Places
<1>6. PartsAre'
  BY <1>1, <1>2, NoParts, PartsStay DEF PartPlaces, OpenCm2, OpenStage
<1>7. LayersAre'
  BY <1>1, <1>2, LayersKept, PlacesAre DEF Committed, LayersOpened, Past, OpenCm2, OpenStage
<1>8. CodewordIs'
  BY <1>1 DEF CodewordIs
<1>9. RunsSoFar' = RunsSoFar \cup { NextRun }
  <2>1. \A x \in SinglePlaces : Past(x)' <=> Past(x) \/ x = "open_cm2"
    BY <1>1, PlacesAre DEF SinglePlaces, Past
  <2>2. (Past("witness_calc")' <=> Past("witness_calc")) /\ "open_cm2" \in SinglePlaces
    BY <1>1, PlacesAre DEF SinglePlaces, Past
  <2>3. Counts' = Counts
    <3>1. \A p \in Counted : Past(p)' <=> Past(p)
      BY <1>1, PlacesAre DEF Counted, Past
    <3>2. QED
      BY <1>1, <3>1, CountsStay DEF Counted
  <2>4. QED
    BY <1>1, <2>1, <2>2, <2>3, SingleMore
<1>10. QED
  BY <1>1, <1>4, <1>5, <1>6, <1>7, <1>8, <1>9, RunKeeps DEF OpenCm2, StepIs, OpenStage

LEMMA DeepConcatStep == ASSUME IInv, DeepConcat PROVE IInv'
<1>1. /\ pc = "deep_concat"
      /\ \/ air.rounds > 0 /\ pc' = "commit" /\ k' = 0
         \/ ~(0 < air.rounds) /\ pc' = "fri_final"
      /\ air' = air /\ keep' = keep /\ NextRun = Run(<<"deep_concat">>)
  BY DEF DeepConcat, At, Kept, NextRun, ToRound
<1>2. EnvHolds /\ PartsAre /\ LayersAre /\ InPlace
  BY <1>1 DEF IInv, EnvIs
<1>3. IsAir(air)
  BY AirsAssumption DEF IInv
<1>4. EnvHolds'
  BY <1>1, <1>2, StretchEnv DEF DeepConcat
<1>5. InPlace'
  BY <1>1, <1>3, AirIs DEF InPlace, Places, Rounds
<1>6. PartsAre'
  BY <1>1, NoParts DEF PartPlaces, DeepConcat
<1>7. LayersAre'
  BY <1>1, <1>2, <1>3, AirIs, LayersKept, PlacesAre DEF Committed, LayersOpened, Past, DeepConcat
<1>8. CodewordIs'
  <2>1. codeword' = Codeword(0)
    BY <1>1 DEF DeepConcat, Value, Codeword
  <2>2. CASE air.rounds > 0
    BY <1>1, <2>1, <2>2 DEF CodewordIs
  <2>3. CASE ~(0 < air.rounds)
    <3>1. air.rounds = 0
      BY <1>3, <2>3, AirIs
    <3>2. QED
      BY <1>1, <2>1, <2>3, <3>1 DEF CodewordIs
  <2>4. QED
    BY <2>2, <2>3
<1>9. RunsSoFar' = RunsSoFar \cup { NextRun }
  <2>1. \A x \in SinglePlaces : Past(x)' <=> Past(x) \/ x = "deep_concat"
    BY <1>1, PlacesAre DEF SinglePlaces, Past
  <2>2. (Past("witness_calc")' <=> Past("witness_calc")) /\ "deep_concat" \in SinglePlaces
    BY <1>1, PlacesAre DEF SinglePlaces, Past
  <2>3. Counts' = Counts
    <3>1. CASE air.rounds > 0
      <4>1. pc' = "commit" /\ k' = 0
        BY <1>1, <3>1
      <4>2. QED
        BY <1>1, <4>1, PlacesAre DEF Counts, Behind, Committed, FoldedRounds, LayersOpened, Past
    <3>2. CASE ~(air.rounds > 0)
      <4>1. pc' = "fri_final" /\ air.rounds = 0
        BY <1>1, <1>3, <3>2, AirIs
      <4>2. QED
        BY <1>1, <4>1, PlacesAre DEF Counts, Behind, Committed, FoldedRounds, LayersOpened, Past
    <3>3. QED
      BY <3>1, <3>2
  <2>4. QED
    BY <1>1, <2>1, <2>2, <2>3, SingleMore
<1>10. QED
  BY <1>1, <1>4, <1>5, <1>6, <1>7, <1>8, <1>9, RunKeeps DEF DeepConcat, StepIs, ToRound

LEMMA OpenConstStep == ASSUME IInv, OpenConst PROVE IInv'
<1>1. /\ pc = "open_const"
      /\ \/ air.customs = <<>> /\ pc' = "open_cm1"
         \/ air.customs # <<>> /\ pc' = "custom" /\ k' = 1
      /\ air' = air /\ keep' = keep /\ NextRun = Run(<<"open_const">>)
  BY DEF OpenConst, At, Kept, NextRun
<1>2. EnvHolds /\ PartsAre /\ LayersAre /\ InPlace
  BY <1>1 DEF IInv, EnvIs
<1>3. IsAir(air)
  BY AirsAssumption DEF IInv
<1>4. EnvHolds'
  BY <1>1, <1>2, <1>3, OpenConstEnv
<1>5. InPlace'
  <2>1. air.customs # <<>> => 1 \in DOMAIN air.customs
    BY <1>3, AirIs
  <2>2. QED
    BY <1>1, <2>1 DEF InPlace, Places
<1>6. PartsAre'
  BY <1>1, <1>2, NoParts, PartsStay DEF PartPlaces, OpenConst
<1>7. LayersAre'
  BY <1>1, <1>2, LayersKept, PlacesAre DEF Committed, LayersOpened, Past, OpenConst
<1>8. CodewordIs'
  BY <1>1 DEF CodewordIs
<1>9. RunsSoFar' = RunsSoFar \cup { NextRun }
  <2>1. \A x \in SinglePlaces : Past(x)' <=> Past(x) \/ x = "open_const"
    BY <1>1, PlacesAre DEF SinglePlaces, Past
  <2>2. (Past("witness_calc")' <=> Past("witness_calc")) /\ "open_const" \in SinglePlaces
    BY <1>1, PlacesAre DEF SinglePlaces, Past
  <2>3. Counts' = Counts
    <3>1. CASE air.customs # <<>>
      <4>1. pc' = "custom" /\ k' = 1
        BY <1>1, <3>1
      <4>2. QED
        BY <1>1, <4>1, PlacesAre DEF Counts, Behind, Committed, FoldedRounds, LayersOpened, Past
    <3>2. CASE ~(air.customs # <<>>)
      <4>1. pc' = "open_cm1" /\ Len(air.customs) = 0
        BY <1>1, <1>3, <3>2, AirIs
      <4>2. QED
        BY <1>1, <4>1, PlacesAre DEF Counts, Behind, Committed, FoldedRounds, LayersOpened, Past
    <3>3. QED
      BY <3>1, <3>2
  <2>4. QED
    BY <1>1, <2>1, <2>2, <2>3, SingleMore
<1>10. QED
  BY <1>1, <1>4, <1>5, <1>6, <1>7, <1>8, <1>9, RunKeeps DEF OpenConst, StepIs

LEMMA OpenQsecStep == ASSUME IInv, OpenQsec PROVE IInv'
<1>1. /\ pc = "open_qsec"
      /\ \/ air.rounds > 0 /\ pc' = "layers" /\ k' = 0
         \/ ~(air.rounds > 0) /\ pc' = "end"
      /\ air' = air /\ keep' = keep /\ NextRun = Run(<<"open_qsec">>)
  BY DEF OpenQsec, At, Kept, NextRun
<1>2. EnvHolds /\ PartsAre /\ LayersAre /\ InPlace
  BY <1>1 DEF IInv, EnvIs
<1>3. IsAir(air)
  BY AirsAssumption DEF IInv
<1>4. EnvHolds'
  BY <1>1, <1>2, <1>3, OpenQsecEnv
<1>5. InPlace'
  BY <1>1, <1>3, AirIs DEF InPlace, Places, Rounds
<1>6. PartsAre'
  BY <1>1, <1>2, NoParts, PartsStay DEF PartPlaces, OpenQsec
<1>7. LayersAre'
  BY <1>1, <1>2, <1>3, AirIs, LayersKept, PlacesAre DEF Committed, LayersOpened, Past, OpenQsec
<1>8. CodewordIs'
  BY <1>1 DEF CodewordIs
<1>9. RunsSoFar' = RunsSoFar \cup { NextRun }
  <2>1. \A x \in SinglePlaces : Past(x)' <=> Past(x) \/ x = "open_qsec"
    BY <1>1, PlacesAre DEF SinglePlaces, Past
  <2>2. (Past("witness_calc")' <=> Past("witness_calc")) /\ "open_qsec" \in SinglePlaces
    BY <1>1, PlacesAre DEF SinglePlaces, Past
  <2>3. Counts' = Counts
    <3>1. CASE air.rounds > 0
      <4>1. pc' = "layers" /\ k' = 0
        BY <1>1, <3>1
      <4>2. QED
        BY <1>1, <4>1, PlacesAre DEF Counts, Behind, Committed, FoldedRounds, LayersOpened, Past
    <3>2. CASE ~(air.rounds > 0)
      <4>1. pc' = "end" /\ air.rounds = 0
        BY <1>1, <1>3, <3>2, AirIs
      <4>2. QED
        BY <1>1, <4>1, PlacesAre DEF Counts, Behind, Committed, FoldedRounds, LayersOpened, Past
    <3>3. QED
      BY <3>1, <3>2
  <2>4. QED
    BY <1>1, <2>1, <2>2, <2>3, SingleMore
<1>10. QED
  BY <1>1, <1>4, <1>5, <1>6, <1>7, <1>8, <1>9, RunKeeps DEF OpenQsec, StepIs

LEMMA WitnessCalcStep == ASSUME IInv, WitnessCalc PROVE IInv'
<1>1. /\ pc = "witness_calc" /\ pc' = "commit1"
      /\ air' = air /\ keep' = keep /\ NextRun = Run(<<"witness_calc">>)
  BY DEF WitnessCalc, At, Kept, NextRun
<1>2. EnvHolds /\ PartsAre /\ LayersAre /\ air.witness
  BY <1>1 DEF IInv, EnvIs, InPlace
<1>3. EnvHolds'
  BY <1>2, WitnessCalcEnv
<1>4. InPlace'
  BY <1>1 DEF InPlace, Places
<1>5. PartsAre'
  BY <1>1, <1>2, NoParts, PartsStay DEF PartPlaces, WitnessCalc
<1>6. LayersAre'
  BY <1>1, <1>2, LayersKept, PlacesAre DEF Committed, LayersOpened, Past, WitnessCalc
<1>7. CodewordIs'
  BY <1>1 DEF CodewordIs
<1>8. RunsSoFar' = RunsSoFar \cup { NextRun }
  <2>1. SinglesKept
    BY <1>1, PlacesAre DEF SinglesKept, SinglePlaces, Past
  <2>2. WitnessRan = {} /\ WitnessRan' = { NextRun }
    BY <1>1, <1>2, PlacesAre DEF WitnessRan, Only, Past
  <2>3. Counts' = Counts
    <3>1. \A p \in Counted : Past(p)' <=> Past(p)
      BY <1>1, PlacesAre DEF Counted, Past
    <3>2. QED
      BY <1>1, <3>1, CountsStay DEF Counted
  <2>4. WitnessRan' = WitnessRan \cup { NextRun }
    BY <2>2
  <2>5. QED
    BY <1>1, <2>1, <2>3, <2>4, OthersMore
<1>9. QED
  BY <1>1, <1>3, <1>4, <1>5, <1>6, <1>7, <1>8, RunKeeps DEF WitnessCalc, StepIs

LEMMA QuotientStep == ASSUME IInv, Quotient PROVE IInv'
<1>1. /\ pc = "quotient" /\ air' = air /\ keep' = keep /\ NextRun = QuotientRun(air, k)
      /\ \/ k < Len(air.q) /\ pc' = "quotient" /\ k' = k + 1
         \/ ~(k < Len(air.q)) /\ pc' = "quotient_commit"
  BY DEF Quotient, At, Kept, NextRun
<1>2. EnvHolds /\ PartsAre /\ LayersAre /\ k \in DOMAIN air.q
  BY <1>1 DEF IInv, EnvIs, InPlace
<1>3. Len(air.q) \in Nat /\ DOMAIN air.q = 1..Len(air.q) /\ k \in 1..Len(air.q)
  BY <1>2, AirsAssumption, AirIs DEF IInv
<1>4. EnvHolds'
  BY <1>1, <1>2, StretchEnv DEF Quotient
<1>5. InPlace'
  BY <1>1, <1>3 DEF InPlace, Places
<1>6. Behind("quotient", air.q) = k - 1 /\ Behind("quotient", air.q)' = k
  <2>1. Behind("quotient", air.q) = k - 1
    BY <1>1, PlacesAre DEF Behind, Past
  <2>2. CASE k < Len(air.q)
    <3>1. pc' = "quotient" /\ k' = k + 1 /\ (k + 1) - 1 = k
      BY <1>1, <1>3, <2>2
    <3>2. QED
      BY <1>1, <2>1, <3>1, PlacesAre DEF Behind, Past
  <2>3. CASE ~(k < Len(air.q))
    <3>1. pc' = "quotient_commit" /\ k = Len(air.q)
      BY <1>1, <1>3, <2>3
    <3>2. QED
      BY <1>1, <2>1, <3>1, PlacesAre DEF Behind, Past
  <2>4. QED
    BY <2>2, <2>3
<1>7. PartsAre'
  <2> DEFINE runs == QuotientWindows(air)
  <2>1. PartsHold(parts, "q", runs, <<"q">>, k - 1)
    BY <1>1, <1>2, <1>6 DEF PartsAre
  <2>2. runs[k] = NextRun
    BY <1>1, <1>2 DEF QuotientWindows
  <2>3. parts' = Bind(<<"q", k>>, Out(runs[k], <<"q">>)) ++ parts
    BY <2>2 DEF Quotient, Part, Value
  <2>4. runs' = runs
    BY <1>1
  <2> HIDE DEF runs
  <2>5. PartsHold(parts', "q", runs, <<"q">>, k)
    BY <1>3, <2>1, <2>3, PartJoins
  <2>6. QED
    BY <1>1, <1>6, <2>4, <2>5 DEF PartsAre, runs
<1>8. LayersAre'
  BY <1>1, <1>2, LayersKept, PlacesAre DEF Committed, LayersOpened, Past, Quotient
<1>9. CodewordIs'
  BY <1>1 DEF CodewordIs
<1>10. RunsSoFar' = RunsSoFar \cup { NextRun }
  <2>1. SinglesKept /\ (Past("witness_calc")' <=> Past("witness_calc"))
    BY <1>1, PlacesAre DEF SinglesKept, SinglePlaces, Past
  <2>2. QuotientsRan' = QuotientsRan \cup { NextRun }
    <3>1. QuotientsRan' = { QuotientRun(air, j) : j \in 1..k }
      BY <1>1, <1>6 DEF QuotientsRan
    <3>2. QuotientsRan = { QuotientRun(air, j) : j \in 1..(k - 1) }
      BY <1>6 DEF QuotientsRan
    <3>3. 1..k = (1..(k - 1)) \cup {k}
      BY <1>3
    <3>4. QED
      BY <1>1, <3>1, <3>2, <3>3
  <2>3. \A i \in 2..7 : Counts'[i] = Counts[i]
    BY <1>1, PlacesAre DEF Counts, Behind, Committed, FoldedRounds, LayersOpened, Past
  <2>4. QED
    BY <1>1, <2>1, <2>2, <2>3, OthersMore
<1>11. QED
  BY <1>1, <1>4, <1>5, <1>7, <1>8, <1>9, <1>10, RunKeeps DEF Quotient, StepIs

LEMMA EvalsStep == ASSUME IInv, Evals PROVE IInv'
<1>1. /\ pc = "evals" /\ air' = air /\ keep' = keep /\ NextRun = EvalsRun(air, k)
      /\ \/ k < Len(air.e) /\ pc' = "evals" /\ k' = k + 1
         \/ ~(k < Len(air.e)) /\ pc' = "evals_sum"
  BY DEF Evals, At, Kept, NextRun
<1>2. EnvHolds /\ PartsAre /\ LayersAre /\ k \in DOMAIN air.e
  BY <1>1 DEF IInv, EnvIs, InPlace
<1>3. Len(air.e) \in Nat /\ DOMAIN air.e = 1..Len(air.e) /\ k \in 1..Len(air.e)
  BY <1>2, AirsAssumption, AirIs DEF IInv
<1>4. EnvHolds'
  BY <1>1, <1>2, StretchEnv DEF Evals
<1>5. InPlace'
  BY <1>1, <1>3 DEF InPlace, Places
<1>6. Behind("evals", air.e) = k - 1 /\ Behind("evals", air.e)' = k
  <2>1. Behind("evals", air.e) = k - 1
    BY <1>1, PlacesAre DEF Behind, Past
  <2>2. CASE k < Len(air.e)
    <3>1. pc' = "evals" /\ k' = k + 1 /\ (k + 1) - 1 = k
      BY <1>1, <1>3, <2>2
    <3>2. QED
      BY <1>1, <2>1, <3>1, PlacesAre DEF Behind, Past
  <2>3. CASE ~(k < Len(air.e))
    <3>1. pc' = "evals_sum" /\ k = Len(air.e)
      BY <1>1, <1>3, <2>3
    <3>2. QED
      BY <1>1, <2>1, <3>1, PlacesAre DEF Behind, Past
  <2>4. QED
    BY <2>2, <2>3
<1>7. PartsAre'
  <2> DEFINE runs == EvalsWindows(air)
  <2>1. PartsHold(parts, "evals", runs, <<"evals">>, k - 1)
    BY <1>1, <1>2, <1>6 DEF PartsAre
  <2>2. runs[k] = NextRun
    BY <1>1, <1>2 DEF EvalsWindows
  <2>3. parts' = Bind(<<"evals", k>>, Out(runs[k], <<"evals">>)) ++ parts
    BY <2>2 DEF Evals, Part, Value
  <2>4. runs' = runs
    BY <1>1
  <2> HIDE DEF runs
  <2>5. PartsHold(parts', "evals", runs, <<"evals">>, k)
    BY <1>3, <2>1, <2>3, PartJoins
  <2>6. QED
    BY <1>1, <1>6, <2>4, <2>5 DEF PartsAre, runs
<1>8. LayersAre'
  BY <1>1, <1>2, LayersKept, PlacesAre DEF Committed, LayersOpened, Past, Evals
<1>9. CodewordIs'
  BY <1>1 DEF CodewordIs
<1>10. RunsSoFar' = RunsSoFar \cup { NextRun }
  <2>1. SinglesKept /\ (Past("witness_calc")' <=> Past("witness_calc"))
    BY <1>1, PlacesAre DEF SinglesKept, SinglePlaces, Past
  <2>2. EvalsRan' = EvalsRan \cup { NextRun }
    <3>1. EvalsRan' = { EvalsRun(air, j) : j \in 1..k }
      BY <1>1, <1>6 DEF EvalsRan
    <3>2. EvalsRan = { EvalsRun(air, j) : j \in 1..(k - 1) }
      BY <1>6 DEF EvalsRan
    <3>3. 1..k = (1..(k - 1)) \cup {k}
      BY <1>3
    <3>4. QED
      BY <1>1, <3>1, <3>2, <3>3
  <2>3. \A i \in (1..7) \ {2} : Counts'[i] = Counts[i]
    <3>1. /\ Behind("quotient", air.q)' = Behind("quotient", air.q) /\ Behind("deep", air.d)' = Behind("deep", air.d)
          /\ Committed' = Committed /\ FoldedRounds' = FoldedRounds
          /\ Behind("custom", air.customs)' = Behind("custom", air.customs) /\ LayersOpened' = LayersOpened
      BY <1>1, PlacesAre DEF Behind, Committed, FoldedRounds, LayersOpened, Past
    <3>2. QED
      BY <3>1 DEF Counts
  <2>4. QED
    BY <1>1, <2>1, <2>2, <2>3, OthersMore
<1>11. QED
  BY <1>1, <1>4, <1>5, <1>7, <1>8, <1>9, <1>10, RunKeeps DEF Evals, StepIs


LEMMA DeepStep == ASSUME IInv, Deep PROVE IInv'
<1>1. /\ pc = "deep" /\ air' = air /\ keep' = keep /\ NextRun = DeepRun(air, k)
      /\ \/ k < Len(air.d) /\ pc' = "deep" /\ k' = k + 1
         \/ ~(k < Len(air.d)) /\ pc' = "deep_concat"
  BY DEF Deep, At, Kept, NextRun
<1>2. EnvHolds /\ PartsAre /\ LayersAre /\ k \in DOMAIN air.d
  BY <1>1 DEF IInv, EnvIs, InPlace
<1>3. Len(air.d) \in Nat /\ DOMAIN air.d = 1..Len(air.d) /\ k \in 1..Len(air.d)
  BY <1>2, AirsAssumption, AirIs DEF IInv
<1>4. EnvHolds'
  BY <1>1, <1>2, StretchEnv DEF Deep
<1>5. InPlace'
  BY <1>1, <1>3 DEF InPlace, Places
<1>6. Behind("deep", air.d) = k - 1 /\ Behind("deep", air.d)' = k
  <2>1. Behind("deep", air.d) = k - 1
    BY <1>1, PlacesAre DEF Behind, Past
  <2>2. CASE k < Len(air.d)
    <3>1. pc' = "deep" /\ k' = k + 1 /\ (k + 1) - 1 = k
      BY <1>1, <1>3, <2>2
    <3>2. QED
      BY <1>1, <2>1, <3>1, PlacesAre DEF Behind, Past
  <2>3. CASE ~(k < Len(air.d))
    <3>1. pc' = "deep_concat" /\ k = Len(air.d)
      BY <1>1, <1>3, <2>3
    <3>2. QED
      BY <1>1, <2>1, <3>1, PlacesAre DEF Behind, Past
  <2>4. QED
    BY <2>2, <2>3
<1>7. PartsAre'
  <2> DEFINE runs == DeepWindows(air)
  <2>1. PartsHold(parts, "fri_pol", runs, <<"fri_pol">>, k - 1)
    BY <1>1, <1>2, <1>6 DEF PartsAre
  <2>2. runs[k] = NextRun
    BY <1>1, <1>2 DEF DeepWindows
  <2>3. parts' = Bind(<<"fri_pol", k>>, Out(runs[k], <<"fri_pol">>)) ++ parts
    BY <2>2 DEF Deep, Part, Value
  <2>4. runs' = runs
    BY <1>1
  <2> HIDE DEF runs
  <2>5. PartsHold(parts', "fri_pol", runs, <<"fri_pol">>, k)
    BY <1>3, <2>1, <2>3, PartJoins
  <2>6. QED
    BY <1>1, <1>6, <2>4, <2>5 DEF PartsAre, runs
<1>8. LayersAre'
  BY <1>1, <1>2, LayersKept, PlacesAre DEF Committed, LayersOpened, Past, Deep
<1>9. CodewordIs'
  BY <1>1 DEF CodewordIs
<1>10. RunsSoFar' = RunsSoFar \cup { NextRun }
  <2>1. SinglesKept /\ (Past("witness_calc")' <=> Past("witness_calc"))
    BY <1>1, PlacesAre DEF SinglesKept, SinglePlaces, Past
  <2>2. DeepsRan' = DeepsRan \cup { NextRun }
    <3>1. DeepsRan' = { DeepRun(air, j) : j \in 1..k }
      BY <1>1, <1>6 DEF DeepsRan
    <3>2. DeepsRan = { DeepRun(air, j) : j \in 1..(k - 1) }
      BY <1>6 DEF DeepsRan
    <3>3. 1..k = (1..(k - 1)) \cup {k}
      BY <1>3
    <3>4. QED
      BY <1>1, <3>1, <3>2, <3>3
  <2>3. \A i \in (1..7) \ {3} : Counts'[i] = Counts[i]
    <3>1. /\ Behind("quotient", air.q)' = Behind("quotient", air.q) /\ Behind("evals", air.e)' = Behind("evals", air.e)
          /\ Committed' = Committed /\ FoldedRounds' = FoldedRounds
          /\ Behind("custom", air.customs)' = Behind("custom", air.customs) /\ LayersOpened' = LayersOpened
      BY <1>1, PlacesAre DEF Behind, Committed, FoldedRounds, LayersOpened, Past
    <3>2. QED
      BY <3>1 DEF Counts
  <2>4. QED
    BY <1>1, <2>1, <2>2, <2>3, OthersMore
<1>11. QED
  BY <1>1, <1>4, <1>5, <1>7, <1>8, <1>9, <1>10, RunKeeps DEF Deep, StepIs


LEMMA FriCommitStep == ASSUME IInv, FriCommit PROVE IInv'
<1>1. /\ pc = "commit" /\ pc' = "fold" /\ k' = k
      /\ air' = air /\ keep' = keep /\ NextRun = Run(<<"fri_commit", k>>)
  BY DEF FriCommit, At, Kept, NextRun
<1>2. EnvHolds /\ PartsAre /\ LayersAre /\ k \in Rounds(air) /\ codeword = Codeword(k)
  BY <1>1 DEF IInv, EnvIs, InPlace, CodewordIs
<1>3. air.rounds \in Nat /\ k \in 0..(air.rounds - 1)
  BY <1>2, AirsAssumption, AirIs DEF IInv, Rounds
<1>4. EnvHolds'
  BY <1>1, <1>2, StretchEnv DEF FriCommit
<1>5. InPlace'
  BY <1>1, <1>2 DEF InPlace, Places
<1>6. PartsAre'
  BY <1>1, <1>2, NoParts, PartsStay DEF PartPlaces, FriCommit
<1>7. Committed = k /\ Committed' = k + 1 /\ LayersOpened = 0 /\ LayersOpened' = 0
  BY <1>1, PlacesAre DEF Committed, LayersOpened, Past
<1>8. LayersAre'
  <2> DEFINE layer == RunInto(<<>>, NextRun)
             outs == { <<"fri_leaves", k>>, <<"fri_root", k>>, <<"fri_layers", k>> }
  <2>1. OutsOf(NextRun) = outs /\ <<>> \notin outs
    <3>1. Programs(air)[<<"fri_commit", k>>] = Program({ <<"codeword">> }, outs)
      BY <1>2, FriPrograms
    <3>2. OutsOf(NextRun) = outs
      BY <1>1, <3>1, ProgramIs, RunName DEF OutsOf
    <3>3. QED
      BY <3>2
  <2>2. IsRunInto(layer, <<>>, NextRun)
    <3> HIDE DEF outs
    <3>1. QED
      BY <2>1, RunIntoIs
  <2> HIDE DEF layer
  <2>3. LayerHolds(layer, k)
    BY <1>1, <2>1, <2>2 DEF IsRunInto, LayerHolds
  <2>4. layers' = Append(layers, layer)
    BY DEF FriCommit, layer
  <2>5. QED
    BY <1>2, <1>3, <1>7, <2>3, <2>4, LayerJoins
<1>9. CodewordIs'
  BY <1>1, <1>2 DEF CodewordIs, FriCommit
<1>10. RunsSoFar' = RunsSoFar \cup { NextRun }
  <2>1. SinglesKept /\ (Past("witness_calc")' <=> Past("witness_calc"))
    BY <1>1, PlacesAre DEF SinglesKept, SinglePlaces, Past
  <2>2. CommitsRan' = CommitsRan \cup { NextRun }
    <3>1. 0..((k + 1) - 1) = (0..(k - 1)) \cup {k}
      BY <1>3
    <3>2. QED
      BY <1>1, <1>7, <3>1 DEF CommitsRan
  <2>3. \A i \in (1..7) \ {4} : Counts'[i] = Counts[i]
    <3>1. /\ Behind("quotient", air.q)' = Behind("quotient", air.q) /\ Behind("evals", air.e)' = Behind("evals", air.e)
          /\ Behind("deep", air.d)' = Behind("deep", air.d) /\ FoldedRounds' = FoldedRounds
          /\ Behind("custom", air.customs)' = Behind("custom", air.customs) /\ LayersOpened' = LayersOpened
      BY <1>1, PlacesAre DEF Behind, Committed, FoldedRounds, LayersOpened, Past
    <3>2. QED
      BY <3>1 DEF Counts
  <2>4. QED
    BY <1>1, <2>1, <2>2, <2>3, OthersMore
<1>11. QED
  BY <1>1, <1>4, <1>5, <1>6, <1>8, <1>9, <1>10, RunKeeps DEF FriCommit, StepIs

LEMMA FriFoldStep == ASSUME IInv, FriFold PROVE IInv'
<1>1. /\ pc = "fold" /\ air' = air /\ keep' = keep /\ NextRun = Run(<<"fri_fold", k>>)
      /\ \/ k + 1 < air.rounds /\ pc' = "commit" /\ k' = k + 1
         \/ ~(k + 1 < air.rounds) /\ pc' = "fri_final"
  BY DEF FriFold, At, Kept, NextRun, ToRound
<1>2. EnvHolds /\ PartsAre /\ LayersAre /\ k \in Rounds(air)
  BY <1>1 DEF IInv, EnvIs, InPlace
<1>3. air.rounds \in Nat /\ k \in 0..(air.rounds - 1)
  BY <1>2, AirsAssumption, AirIs DEF IInv, Rounds
<1>4. /\ Committed = k + 1 /\ Committed' = k + 1 /\ LayersOpened = 0 /\ LayersOpened' = 0
      /\ FoldedRounds = k /\ FoldedRounds' = k + 1
  <2>1. Committed = k + 1 /\ LayersOpened = 0 /\ FoldedRounds = k
    BY <1>1, PlacesAre DEF Committed, LayersOpened, FoldedRounds, Past
  <2>2. CASE k + 1 < air.rounds
    <3>1. pc' = "commit" /\ k' = k + 1
      BY <1>1, <2>2
    <3>2. QED
      BY <1>1, <2>1, <3>1, PlacesAre DEF Committed, LayersOpened, FoldedRounds, Past
  <2>3. CASE ~(k + 1 < air.rounds)
    <3>1. pc' = "fri_final" /\ k + 1 = air.rounds
      BY <1>1, <1>3, <2>3
    <3>2. QED
      BY <1>1, <2>1, <3>1, PlacesAre DEF Committed, LayersOpened, FoldedRounds, Past
  <2>4. QED
    BY <2>2, <2>3
<1>5. EnvHolds'
  BY <1>1, <1>2, StretchEnv DEF FriFold
<1>6. InPlace'
  BY <1>1, <1>3 DEF InPlace, Places, Rounds
<1>7. PartsAre'
  BY <1>1, <1>2, NoParts, PartsStay DEF PartPlaces, FriFold
<1>8. LayersAre'
  BY <1>2, <1>4, LayersKept DEF FriFold
<1>9. CodewordIs'
  <2>1. codeword' = Codeword(k + 1)
    <3>1. k + 1 # 0 /\ (k + 1) - 1 = k
      BY <1>3
    <3>2. QED
      BY <1>1, <3>1 DEF FriFold, Value, Codeword
  <2>2. CASE k + 1 < air.rounds
    BY <1>1, <2>1, <2>2 DEF CodewordIs
  <2>3. CASE ~(k + 1 < air.rounds)
    <3>1. pc' = "fri_final" /\ k + 1 = air.rounds
      BY <1>1, <1>3, <2>3
    <3>2. QED
      BY <1>1, <2>1, <3>1 DEF CodewordIs
  <2>4. QED
    BY <2>2, <2>3
<1>10. RunsSoFar' = RunsSoFar \cup { NextRun }
  <2>1. SinglesKept /\ (Past("witness_calc")' <=> Past("witness_calc"))
    BY <1>1, PlacesAre DEF SinglesKept, SinglePlaces, Past
  <2>2. FoldsRan' = FoldsRan \cup { NextRun }
    <3>1. 0..((k + 1) - 1) = (0..(k - 1)) \cup {k}
      BY <1>3
    <3>2. QED
      BY <1>1, <1>4, <3>1 DEF FoldsRan
  <2>3. \A i \in (1..7) \ {5} : Counts'[i] = Counts[i]
    <3>1. /\ Behind("quotient", air.q)' = Behind("quotient", air.q) /\ Behind("evals", air.e)' = Behind("evals", air.e)
          /\ Behind("deep", air.d)' = Behind("deep", air.d) /\ Committed' = Committed
          /\ Behind("custom", air.customs)' = Behind("custom", air.customs) /\ LayersOpened' = LayersOpened
      BY <1>1, <1>4, PlacesAre DEF Behind, Past
    <3>2. QED
      BY <3>1 DEF Counts
  <2>4. QED
    BY <1>1, <2>1, <2>2, <2>3, OthersMore
<1>11. QED
  BY <1>1, <1>5, <1>6, <1>7, <1>8, <1>9, <1>10, RunKeeps DEF FriFold, StepIs, ToRound

LEMMA OpenCustomStep == ASSUME IInv, OpenCustom PROVE IInv'
<1>1. /\ pc = "custom" /\ air' = air /\ keep' = keep /\ NextRun = Run(<<"open_custom", air.customs[k]>>)
      /\ \/ k < Len(air.customs) /\ pc' = "custom" /\ k' = k + 1
         \/ ~(k < Len(air.customs)) /\ pc' = "open_cm1"
  BY DEF OpenCustom, At, Kept, NextRun
<1>2. EnvHolds /\ PartsAre /\ LayersAre /\ k \in DOMAIN air.customs
  BY <1>1 DEF IInv, EnvIs, InPlace
<1>3. IsAir(air)
  BY AirsAssumption DEF IInv
<1>4. Len(air.customs) \in Nat /\ DOMAIN air.customs = 1..Len(air.customs) /\ k \in 1..Len(air.customs)
  BY <1>2, <1>3, AirIs
<1>5. EnvHolds'
  BY <1>2, <1>3, OpenCustomEnv
<1>6. InPlace'
  BY <1>1, <1>4 DEF InPlace, Places
<1>7. Behind("custom", air.customs) = k - 1 /\ Behind("custom", air.customs)' = k
  <2>1. Behind("custom", air.customs) = k - 1
    BY <1>1, PlacesAre DEF Behind, Past
  <2>2. CASE k < Len(air.customs)
    <3>1. pc' = "custom" /\ k' = k + 1 /\ (k + 1) - 1 = k
      BY <1>1, <1>4, <2>2
    <3>2. QED
      BY <1>1, <2>1, <3>1, PlacesAre DEF Behind, Past
  <2>3. CASE ~(k < Len(air.customs))
    <3>1. pc' = "open_cm1" /\ k = Len(air.customs)
      BY <1>1, <1>4, <2>3
    <3>2. QED
      BY <1>1, <2>1, <3>1, PlacesAre DEF Behind, Past
  <2>4. QED
    BY <2>2, <2>3
<1>8. PartsAre'
  BY <1>1, <1>2, NoParts, PartsStay DEF PartPlaces, OpenCustom
<1>9. LayersAre'
  BY <1>1, <1>2, LayersKept, PlacesAre DEF Committed, LayersOpened, Past, OpenCustom
<1>10. CodewordIs'
  BY <1>1 DEF CodewordIs
<1>11. RunsSoFar' = RunsSoFar \cup { NextRun }
  <2>1. SinglesKept /\ (Past("witness_calc")' <=> Past("witness_calc"))
    BY <1>1, PlacesAre DEF SinglesKept, SinglePlaces, Past
  <2>2. CustomsRan' = CustomsRan \cup { NextRun }
    <3>1. 1..k = (1..(k - 1)) \cup {k}
      BY <1>4
    <3>2. QED
      BY <1>1, <1>7, <3>1 DEF CustomsRan
  <2>3. \A i \in (1..7) \ {6} : Counts'[i] = Counts[i]
    <3>1. /\ Behind("quotient", air.q)' = Behind("quotient", air.q) /\ Behind("evals", air.e)' = Behind("evals", air.e)
          /\ Behind("deep", air.d)' = Behind("deep", air.d) /\ Committed' = Committed
          /\ FoldedRounds' = FoldedRounds /\ LayersOpened' = LayersOpened
      BY <1>1, PlacesAre DEF Behind, Committed, FoldedRounds, LayersOpened, Past
    <3>2. QED
      BY <3>1 DEF Counts
  <2>4. QED
    BY <1>1, <2>1, <2>2, <2>3, OthersMore
<1>12. QED
  BY <1>1, <1>5, <1>6, <1>8, <1>9, <1>10, <1>11, RunKeeps DEF OpenCustom, StepIs

LEMMA OpenLayerStep == ASSUME IInv, OpenLayer PROVE IInv'
<1>1. /\ pc = "layers" /\ air' = air /\ keep' = keep /\ NextRun = Run(<<"open_fri", k>>)
      /\ \/ k + 1 < air.rounds /\ pc' = "layers" /\ k' = k + 1
         \/ ~(k + 1 < air.rounds) /\ pc' = "end"
  BY DEF OpenLayer, At, Kept, NextRun
<1>2. EnvHolds /\ PartsAre /\ LayersAre /\ k \in Rounds(air)
  BY <1>1 DEF IInv, EnvIs, InPlace
<1>3. air.rounds \in Nat /\ k \in 0..(air.rounds - 1)
  BY <1>2, AirsAssumption, AirIs DEF IInv, Rounds
<1>4. EnvHolds'
  BY <1>1, <1>2, StretchEnv DEF OpenLayer
<1>5. InPlace'
  BY <1>1, <1>3 DEF InPlace, Places, Rounds
<1>6. PartsAre'
  BY <1>1, <1>2, NoParts, PartsStay DEF PartPlaces, OpenLayer
<1>7. Committed = air.rounds /\ Committed' = air.rounds /\ LayersOpened = k /\ LayersOpened' = k + 1
  <2>1. Committed = air.rounds /\ LayersOpened = k
    BY <1>1, PlacesAre DEF Committed, LayersOpened, Past
  <2>2. CASE k + 1 < air.rounds
    <3>1. pc' = "layers" /\ k' = k + 1
      BY <1>1, <2>2
    <3>2. QED
      BY <1>1, <2>1, <3>1, PlacesAre DEF Committed, LayersOpened, Past
  <2>3. CASE ~(k + 1 < air.rounds)
    <3>1. pc' = "end" /\ k + 1 = air.rounds
      BY <1>1, <1>3, <2>3
    <3>2. QED
      BY <1>1, <2>1, <3>1, PlacesAre DEF Committed, LayersOpened, Past
  <2>4. QED
    BY <2>2, <2>3
<1>8. LayersAre'
  <2>1. k \in Nat /\ k < air.rounds
    BY <1>3
  <2>2. QED
    BY <1>2, <1>3, <1>7, <2>1, LayerGoes DEF OpenLayer
<1>9. CodewordIs'
  BY <1>1 DEF CodewordIs
<1>10. RunsSoFar' = RunsSoFar \cup { NextRun }
  <2>1. SinglesKept /\ (Past("witness_calc")' <=> Past("witness_calc"))
    BY <1>1, PlacesAre DEF SinglesKept, SinglePlaces, Past
  <2>2. LayersRan' = LayersRan \cup { NextRun }
    <3>1. 0..((k + 1) - 1) = (0..(k - 1)) \cup {k}
      BY <1>3
    <3>2. QED
      BY <1>1, <1>7, <3>1 DEF LayersRan
  <2>3. \A i \in 1..6 : Counts'[i] = Counts[i]
    <3>1. /\ Behind("quotient", air.q)' = Behind("quotient", air.q) /\ Behind("evals", air.e)' = Behind("evals", air.e)
          /\ Behind("deep", air.d)' = Behind("deep", air.d) /\ Committed' = Committed
          /\ FoldedRounds' = FoldedRounds /\ Behind("custom", air.customs)' = Behind("custom", air.customs)
      BY <1>1, <1>7, PlacesAre DEF Behind, FoldedRounds, Past
    <3>2. QED
      BY <3>1 DEF Counts
  <2>4. QED
    BY <1>1, <2>1, <2>2, <2>3, OthersMore
<1>11. QED
  BY <1>1, <1>4, <1>5, <1>6, <1>8, <1>9, <1>10, RunKeeps DEF OpenLayer, StepIs

-----------------------------------------------------------------------------
(* The steps between the proves.                                           *)

\* The setup programs get the base sections as they were uploaded.
LEMMA SetupArgsAre ==
    ASSUME NEW p \in SetupNames(air)
    PROVE  Args(air, Run(p), [n \in BaseNames(air) |-> Host(n)]) = SetupArgs(Run(p))
<1> DEFINE uploaded == [n \in BaseNames(air) |-> Host(n)]
<1>1. DOMAIN uploaded = BaseNames(air) /\ \A n \in BaseNames(air) : uploaded[n] = Host(n)
  OBVIOUS
<1>2. Run(p)[1] = p
  BY RunName
<1>3. \/ p = <<"constants">>
      \/ p = <<"const_setup">>
      \/ \E c \in Ids(air) : p = <<"custom_setup", c>>
  BY DEF SetupNames, Named
<1> HIDE DEF uploaded
<1>4. CASE p = <<"constants">>
  <2>1. Programs(air)[p].in = {}
    BY <1>4, SetupPrograms, ProgramIs
  <2>2. SetupArgs(Run(p)) = <<>>
    BY <1>4 DEF SetupArgs, Run
  <2>3. Args(air, Run(p), uploaded) = <<>>
    BY <1>2, <2>1 DEF Args
  <2>4. QED
    BY <2>2, <2>3 DEF uploaded
<1>5. ASSUME NEW base \in BaseNames(air), Programs(air)[p].in = { base }, SetupArgs(Run(p)) = Bind(base, Host(base))
      PROVE  Args(air, Run(p), uploaded) = SetupArgs(Run(p))
  <2> DEFINE g == Bind(base, Host(base))
  <2>1. IsMap(g) /\ DOMAIN g = { base } /\ g[base] = Host(base)
    BY BindIs
  <2> HIDE DEF g
  <2>2. Args(air, Run(p), uploaded) = g
    BY <1>1, <1>2, <1>5, <2>1, ArgsAre
  <2>3. QED
    BY <1>5, <2>2 DEF g
<1>6. CASE p = <<"const_setup">>
  <2>1. <<"const_base">> \in BaseNames(air)
    BY DEF BaseNames
  <2>2. Programs(air)[p].in = { <<"const_base">> }
    BY <1>6, SetupPrograms, ProgramIs
  <2>3. SetupArgs(Run(p)) = Bind(<<"const_base">>, Host(<<"const_base">>))
    BY <1>6 DEF SetupArgs, Run
  <2>4. QED
    BY <1>5, <2>1, <2>2, <2>3 DEF uploaded
<1>7. ASSUME NEW c \in Ids(air), p = <<"custom_setup", c>>
      PROVE  Args(air, Run(p), uploaded) = SetupArgs(Run(p))
  <2>1. <<"custom_base", c>> \in BaseNames(air)
    BY DEF BaseNames, Named
  <2>2. Programs(air)[p].in = { <<"custom_base", c>> }
    <3> DEFINE outs == { <<"custom_root", c>>, <<"custom_ext", c>>, <<"custom_setup_layers", c>> }
    <3>1. Programs(air)[p] = Program({ <<"custom_base", c>> }, outs)
      BY <1>7, SetupPrograms
    <3> HIDE DEF outs
    <3>2. QED
      BY <3>1, ProgramIs
  <2>3. SetupArgs(Run(p)) = Bind(<<"custom_base", c>>, Host(<<"custom_base", c>>))
    BY <1>7 DEF SetupArgs, Run
  <2>4. QED
    BY <1>5, <2>1, <2>2, <2>3
<1>8. QED
  BY <1>3, <1>4, <1>6, <1>7 DEF uploaded

LEMMA SetupRanIs ==
    /\ \A r \in SetupRan : r.run \in Runs(air) /\ r.args = ArgsOf(air, r.run)
    /\ { r.run : r \in SetupRan } = RunsOf(SetupNames(air))
<1> DEFINE uploaded == [n \in BaseNames(air) |-> Host(n)]
           call(p) == Called(air, Run(p), uploaded)
<1>1. SetupRan = { call(p) : p \in SetupNames(air) }
  BY DEF SetupRan
<1>2. ASSUME NEW p \in SetupNames(air)
      PROVE  call(p).run = Run(p) /\ call(p).run \in Runs(air) /\ call(p).args = ArgsOf(air, call(p).run)
  <2>1. call(p).run = Run(p) /\ call(p).args = Args(air, Run(p), uploaded)
    BY DEF Called
  <2> HIDE DEF call
  <2>2. Run(p) \in Runs(air) /\ ArgsOf(air, Run(p)) = SetupArgs(Run(p))
    BY ArgsByKind
  <2>3. Args(air, Run(p), uploaded) = SetupArgs(Run(p))
    BY SetupArgsAre
  <2>4. QED
    BY <2>1, <2>2, <2>3
<1> HIDE DEF call
<1>3. QED
  BY <1>1, <1>2 DEF RunsOf

LEMMA StartProveStep ==
    ASSUME IInv, NEW keeps \in BOOLEAN, StartProve(keeps)
    PROVE  IInv'
<1>1. /\ pc = "idle" /\ air' = air /\ keep' = keeps /\ parts' = parts /\ layers' = layers
      /\ fixed # <<>> /\ (fixed' = fixed \/ fixed' = <<>>)
      /\ proves < MaxProves /\ proves' = proves + 1 /\ ran' = SetupRan
      /\ IF air.witness THEN pc' = "witness_calc" ELSE pc' = "commit1"
  BY DEF StartProve, At
<1>2. /\ air \in Airs /\ IsAir(air) /\ fixed = SetupEnv /\ parts = <<>> /\ layers = <<>>
  BY <1>1, AirsAssumption DEF IInv, KeptSectionsAreTheKeys, EnvIs
<1>3. /\ Behind("quotient", air.q)' = 0 /\ Behind("evals", air.e)' = 0 /\ Behind("deep", air.d)' = 0
      /\ Committed' = 0 /\ FoldedRounds' = 0 /\ Behind("custom", air.customs)' = 0 /\ LayersOpened' = 0
  BY <1>1, PlacesAre DEF Behind, Committed, FoldedRounds, LayersOpened, Past
<1>4. EnvHolds'
  BY <1>2, StartProveEnv
<1>5. InPlace'
  BY <1>1 DEF InPlace, Places
<1>6. PartsAre'
  BY <1>1, <1>2, NoParts DEF PartPlaces
<1>7. LayersAre'
  <2>1. layers' = <<>> /\ IsMap(<<>>) /\ DOMAIN <<>> = {} /\ 1..0 = {}
    BY <1>1, <1>2 DEF IsMap
  <2>2. QED
    BY <1>3, <2>1 DEF LayersAre, IsMap
<1>8. CodewordIs'
  BY <1>1 DEF CodewordIs
<1>9. RunsSoFar' = RunsOf(SetupNames(air))
  <2>1. WitnessRan' = {}
    BY <1>1, PlacesAre DEF WitnessRan, Only, Past
  <2>2. SinglesRan' = {}
    <3>1. \A x \in SinglePlaces : ~Past(x)'
      BY <1>1, PlacesAre DEF SinglePlaces, Past
    <3>2. QED
      BY <3>1 DEF SinglesRan
  <2>3. 1..0 = {} /\ 0..(0 - 1) = {}
    OBVIOUS
  <2>4. QuotientsRan' = {} /\ EvalsRan' = {} /\ DeepsRan' = {}
    BY <1>3, <2>3 DEF QuotientsRan, EvalsRan, DeepsRan
  <2>5. CommitsRan' = {} /\ FoldsRan' = {} /\ CustomsRan' = {} /\ LayersRan' = {}
    BY <1>3, <2>3 DEF CommitsRan, FoldsRan, CustomsRan, LayersRan
  <2>6. QED
    BY <1>1, <2>1, <2>2, <2>4, <2>5 DEF RunsSoFar
<1>10. RanAsScheduled'
  <2>1. \A r \in ran' : r.run \in Runs(air) /\ r.args = ArgsOf(air, r.run)
    BY <1>1, SetupRanIs
  <2>2. { r.run : r \in ran' } = RunsSoFar'
    BY <1>1, <1>9, SetupRanIs
  <2>3. QED
    BY <1>1, <2>1, <2>2 DEF RanAsScheduled
<1>11. KeptSectionsAreTheKeys'
  BY <1>1, <1>2, SetupEnvKept DEF KeptSectionsAreTheKeys
<1>12. proves' \in 0..MaxProves
  BY <1>1, MaxProvesAssumption DEF IInv
<1>13. EnvIs'
  BY <1>1, <1>4, <1>6, <1>7, <1>8 DEF EnvIs
<1>14. QED
  BY <1>1, <1>2, <1>5, <1>10, <1>11, <1>12, <1>13 DEF IInv

\* Outside of a prove there is nothing but the key's sections.
LEMMA IdleKeeps ==
    ASSUME IInv, air' = air, proves' = proves, keep' = keep, pc' = "idle",
           env' = <<>>, parts' = <<>>, layers' = <<>>,
           fixed' = fixed \/ fixed' = <<>> \/ fixed' = SetupEnv,
           ran' = ran \/ ran' = ran \cup SetupRan
    PROVE  IInv'
<1>1. KeptSectionsAreTheKeys'
  BY SetupEnvKept DEF IInv, KeptSectionsAreTheKeys
<1>2. InPlace'
  BY DEF InPlace, Places
<1>3. EnvIs'
  BY DEF EnvIs
<1>4. RanAsScheduled'
  BY SetupRanIs DEF IInv, RanAsScheduled
<1>5. QED
  BY <1>1, <1>2, <1>3, <1>4 DEF IInv

LEMMA IdleSteps ==
    ASSUME IInv, SetFixed \/ DropFixed \/ Finish \/ Fail
    PROVE  IInv'
<1>1. CASE SetFixed \/ DropFixed
  <2>1. pc = "idle" /\ env = <<>> /\ parts = <<>> /\ layers = <<>>
    BY <1>1 DEF SetFixed, DropFixed, IInv, EnvIs
  <2>2. QED
    BY <1>1, <2>1, IdleKeeps DEF SetFixed, DropFixed
<1>2. CASE Finish \/ Fail
  BY <1>2, IdleKeeps DEF Finish, Fail, Dropped, At, Kept
<1>3. QED
  BY <1>1, <1>2

LEMMA InitHolds == ASSUME Init PROVE IInv
<1>1. air \in Airs /\ proves = 0 /\ pc = "idle" /\ keep = FALSE /\ fixed = <<>> /\ ran = {}
      /\ env = <<>> /\ parts = <<>> /\ layers = <<>>
  BY DEF Init
<1>2. InPlace /\ EnvIs /\ RanAsScheduled /\ KeptSectionsAreTheKeys
  BY <1>1 DEF InPlace, Places, EnvIs, RanAsScheduled, KeptSectionsAreTheKeys
<1>3. 0 \in 0..MaxProves
  BY MaxProvesAssumption
<1>4. QED
  BY <1>1, <1>2, <1>3 DEF IInv

LEMMA StutterKeeps == ASSUME IInv, UNCHANGED vars PROVE IInv'
<1>1. /\ air' = air /\ fixed' = fixed /\ proves' = proves /\ pc' = pc /\ k' = k /\ keep' = keep /\ env' = env
      /\ parts' = parts /\ codeword' = codeword /\ layers' = layers /\ ran' = ran
  BY DEF vars
<1>2. KeptSectionsAreTheKeys'
  BY <1>1, SetupEnvKept DEF IInv, KeptSectionsAreTheKeys
<1>3. InPlace'
  BY <1>1 DEF IInv, InPlace
<1>4. Counts' = Counts /\ Committed' = Committed /\ LayersOpened' = LayersOpened
  BY <1>1 DEF Counts, Behind, Committed, FoldedRounds, LayersOpened, Past
<1>5. SinglesKept /\ (Past("witness_calc")' <=> Past("witness_calc"))
  BY <1>1 DEF SinglesKept, Past
<1>6. EnvIs'
  <2>1. CASE pc = "idle"
    BY <1>1, <2>1 DEF IInv, EnvIs
  <2>2. CASE pc # "idle"
    <3>1. EnvHolds /\ PartsAre /\ LayersAre /\ CodewordIs
      BY <2>2 DEF IInv, EnvIs
    <3>2. EnvHolds'
      BY <1>1, <1>4, <3>1, EnvUntouched DEF Counts, Past
    <3>3. PartsAre'
      BY <1>1, <3>1 DEF PartsAre, PartsHold, IsMap, Behind, Past
    <3>4. LayersAre'
      BY <1>1, <1>4, <3>1, LayersKept
    <3>5. CodewordIs'
      BY <1>1, <3>1 DEF CodewordIs
    <3>6. QED
      BY <1>1, <2>2, <3>2, <3>3, <3>4, <3>5 DEF EnvIs
  <2>3. QED
    BY <2>1, <2>2
<1>7. RunsSoFar' = RunsSoFar
  BY <1>1, <1>4, <1>5, SetsKept DEF RunsSoFar, Counts
<1>8. RanAsScheduled'
  BY <1>1, <1>7 DEF IInv, RanAsScheduled
<1>9. QED
  BY <1>1, <1>2, <1>3, <1>6, <1>8 DEF IInv

LEMMA StepKeeps == ASSUME IInv, [Next]_vars PROVE IInv'
<1>1. CASE SetFixed \/ DropFixed \/ Finish \/ Fail
  BY <1>1, IdleSteps
<1>2. ASSUME NEW keeps \in BOOLEAN, StartProve(keeps) PROVE IInv'
  BY <1>2, StartProveStep
<1>3. CASE WitnessCalc \/ Commit1 \/ LogUp \/ Commit2 \/ Quotient \/ QuotientCommit
  BY <1>3, WitnessCalcStep, Commit1Step, LogUpStep, Commit2Step, QuotientStep, QuotientCommitStep
<1>4. CASE Lev \/ Evals \/ EvalsSum \/ Deep \/ DeepConcat
  BY <1>4, LevStep, EvalsStep, EvalsSumStep, DeepStep, DeepConcatStep
<1>5. CASE FriCommit \/ FriFold \/ FriFinal \/ Grind
  BY <1>5, FriCommitStep, FriFoldStep, FriFinalStep, GrindStep
<1>6. CASE OpenConst \/ OpenCustom \/ OpenCm1 \/ OpenCm2 \/ OpenQsec \/ OpenLayer
  BY <1>6, OpenConstStep, OpenCustomStep, OpenCm1Step, OpenCm2Step, OpenQsecStep, OpenLayerStep
<1>7. CASE UNCHANGED vars
  BY <1>7, StutterKeeps
<1>8. QED
  BY <1>1, <1>2, <1>3, <1>4, <1>5, <1>6, <1>7 DEF Next

-----------------------------------------------------------------------------
(* What follows.                                                           *)

\* The environment of every place, and the runs so far, are as the tables
\* say, for any AIRs and challenges and any number of proves.
THEOREM EnvironmentsAreAsTheTablesSay == Spec => []IInv
<1>1. Init => IInv
  BY InitHolds
<1>2. IInv /\ [Next]_vars => IInv'
  BY StepKeeps
<1>3. QED
  BY <1>1, <1>2, PTL DEF Spec

LEMMA CallsAreBound == ASSUME IInv PROVE EveryCallIsBound
BY CallsAre, CallFits DEF EveryCallIsBound

LEMMA TypesHold == ASSUME IInv PROVE TypeOK
<1>1. air.rounds \in Nat
  BY AirsAssumption, AirIs DEF IInv
<1>2. pc # "idle" => pc = "end" \/ NextRun \in Runs(air)
  BY CallsAre DEF NextCallIs
<1>3. Len(layers) <= air.rounds
  <2>1. CASE pc = "idle"
    BY <1>1, <2>1 DEF IInv, EnvIs
  <2>2. CASE pc # "idle"
    <3>1. LayersAre /\ InPlace
      BY <2>2 DEF IInv, EnvIs
    <3>2. Committed \in Nat /\ Committed <= air.rounds
      BY <1>1, <3>1 DEF Committed, InPlace, Rounds
    <3>3. layers = [i \in 1..Committed |-> layers[i]]
      BY <3>1 DEF LayersAre, IsMap
    <3>4. Len(layers) = Committed
      BY <3>2, <3>3
    <3>5. QED
      BY <3>2, <3>4
  <2>3. QED
    BY <2>1, <2>2
<1>4. QED
  BY <1>2, <1>3 DEF TypeOK, IInv

\* The windows start after one another.
LEMMA StartOfIsTotal ==
    ASSUME NEW sizes, NEW j \in Nat \ {0}
    PROVE  StartOf(sizes, j) = Total(sizes, 1..(j - 1))
<1> DEFINE A == 1..(j - 1)
           Body(g) == [s \in SUBSET A |-> IF s = {} THEN 0 ELSE sizes[Taken(s)] + g[s \ {Taken(s)}]]
           iter == CHOOSE g : g = Body(g)
<1>1. StartOf(sizes, j) = iter[A]
  BY DEF StartOf, MapThenSumSet, MapThenFoldSet, Taken
<1>2. IsFiniteSet(A)
  BY FS_Interval
<1>3. \A g : SumsOver(g, sizes, A) <=> g = Body(g)
  BY DEF SumsOver
<1>4. \E h : h = Body(h)
  BY <1>2, <1>3, TotalIsASum
<1>5. iter = Body(iter)
  BY <1>4
<1> HIDE DEF iter
<1>6. SumsOver(iter, sizes, A)
  BY <1>3, <1>5
<1> HIDE DEF A
<1>7. iter[A] = Total(sizes, A)
  BY <1>2, <1>6, TotalIs
<1>8. QED
  BY <1>1, <1>7 DEF A

LEMMA StartsGrow ==
    ASSUME NEW sizes \in Seq(Nat \ {0}), NEW m \in DOMAIN sizes, NEW j \in 1..(m - 1)
    PROVE  StartOf(sizes, j) # StartOf(sizes, m)
<1> DEFINE T(i) == Total(sizes, 1..i)
           n == Len(sizes)
           S == { i \in 0..n : \A h \in 0..(i - 1) : T(h) < T(i) }
<1>1. n \in Nat /\ DOMAIN sizes = 1..n /\ m \in 1..n /\ \A i \in 1..n : sizes[i] \in Nat \ {0}
  OBVIOUS
<1>2. \A i \in 0..n : IsFiniteSet(1..i)
  BY FS_Interval
<1> HIDE DEF n
<1>3. ASSUME NEW i \in 0..n PROVE T(i) \in Nat
  <2>1. IsFiniteSet(1..i) /\ \A h \in 1..i : sizes[h] \in Nat
    BY <1>1, <1>2
  <2>2. QED
    BY <2>1, TotalNat
<1>4. ASSUME NEW i \in 1..n PROVE T(i) = T(i - 1) + sizes[i]
  <2>1. i - 1 \in 0..n /\ 1..i = (1..(i - 1)) \cup {i} /\ i \notin 1..(i - 1)
    BY <1>1
  <2>2. sizes[i] \in Nat /\ \A h \in 1..(i - 1) : sizes[h] \in Nat
    BY <1>1
  <2>3. IsFiniteSet(1..(i - 1))
    BY <1>2, <2>1
  <2>4. QED
    BY <2>1, <2>2, <2>3, TotalAdd
<1> HIDE DEF T
<1>5. 0 \in S
  BY <1>1
<1>6. ASSUME NEW i \in 1..n, i - 1 \in S PROVE i \in S
  <2>1. ASSUME NEW h \in 0..(i - 1) PROVE T(h) < T(i)
    <3>1. T(i - 1) < T(i) /\ i - 1 \in 0..n /\ h \in 0..n
      <4>1. i - 1 \in 0..n /\ i \in 0..n /\ h \in 0..n
        BY <1>1
      <4>2. T(i) = T(i - 1) + sizes[i] /\ sizes[i] \in Nat \ {0} /\ T(i - 1) \in Nat /\ T(i) \in Nat
        BY <1>1, <1>3, <1>4, <4>1
      <4>3. QED
        BY <4>1, <4>2
    <3>2. CASE h = i - 1
      BY <3>1, <3>2
    <3>3. CASE h # i - 1
      <4>1. h \in 0..((i - 1) - 1)
        BY <1>1, <3>3
      <4>2. T(h) < T(i - 1)
        BY <1>6, <4>1
      <4>3. T(h) \in Nat /\ T(i - 1) \in Nat /\ T(i) \in Nat
        BY <1>1, <1>3, <3>1
      <4>4. QED
        BY <3>1, <4>2, <4>3
    <3>4. QED
      BY <3>2, <3>3
  <2>2. QED
    BY <1>1, <2>1
<1> HIDE DEF S
<1>7. \A i \in 0..n : i \in S
  BY <1>1, <1>5, <1>6, UpTo
<1>8. m - 1 \in 0..n /\ j - 1 \in 0..((m - 1) - 1)
  BY <1>1
<1>9. T(j - 1) < T(m - 1)
  BY <1>7, <1>8 DEF S
<1>10. T(j - 1) \in Nat /\ T(m - 1) \in Nat
  BY <1>1, <1>3
<1>11. StartOf(sizes, j) = T(j - 1) /\ StartOf(sizes, m) = T(m - 1)
  BY <1>1, StartOfIsTotal DEF T
<1>12. QED
  BY <1>9, <1>10, <1>11

\* What ran is behind the place the prove is at.
LEMMA RanIsBehind ==
    ASSUME NEW r \in RunsSoFar
    PROVE  /\ r[1][1] \in SinglePlaces => Past(r[1][1])
           /\ r[1][1] = "evals" => r \in EvalsRan
           /\ r[1][1] = "open_custom" => r \in CustomsRan
           /\ r[1][1] = "open_fri" => r \in LayersRan
<1>1. \A p : Run(p)[1] = p
  BY RunName
<1>2. r \in RunsOf(SetupNames(air)) => r[1][1] \in SetupKinds
  BY <1>1, Kinds DEF RunsOf
<1>3. r \in WitnessRan => r[1][1] = "witness_calc"
  BY <1>1 DEF WitnessRan, Only
<1>4. r \in SinglesRan => r[1][1] \in SinglePlaces /\ Past(r[1][1])
  <2>1. ASSUME r \in SinglesRan PROVE r[1][1] \in SinglePlaces /\ Past(r[1][1])
    <3>1. PICK p \in { x \in SinglePlaces : Past(x) } : r = Run(<<p>>)
      BY <2>1 DEF SinglesRan
    <3>2. r[1][1] = p
      BY <1>1, <3>1
    <3>3. QED
      BY <3>1, <3>2
  <2>2. QED
    BY <2>1
<1>5. /\ r \in QuotientsRan => r[1][1] = "quotient"
      /\ r \in EvalsRan => r[1][1] = "evals"
      /\ r \in DeepsRan => r[1][1] = "deep"
  BY DEF QuotientsRan, EvalsRan, DeepsRan, QuotientRun, EvalsRun, DeepRun, Run
<1>6. /\ r \in CommitsRan => r[1][1] = "fri_commit"
      /\ r \in FoldsRan => r[1][1] = "fri_fold"
      /\ r \in CustomsRan => r[1][1] = "open_custom"
      /\ r \in LayersRan => r[1][1] = "open_fri"
  BY DEF CommitsRan, FoldsRan, CustomsRan, LayersRan, Run
<1>7. \A p \in SinglePlaces : /\ p \notin SetupKinds
                              /\ p \notin { "witness_calc", "quotient", "evals", "deep", "fri_commit",
                                            "fri_fold", "open_custom", "open_fri" }
  BY DEF SinglePlaces, SetupKinds
<1>8. SetupKinds \cap { "evals", "open_custom", "open_fri" } = {}
  BY DEF SetupKinds
<1>9. \/ r \in RunsOf(SetupNames(air)) \cup WitnessRan
      \/ r \in SinglesRan
      \/ r \in QuotientsRan \cup EvalsRan \cup DeepsRan
      \/ r \in CommitsRan \cup FoldsRan \cup CustomsRan \cup LayersRan
  BY DEF RunsSoFar
<1>10. QED
  BY <1>2, <1>3, <1>4, <1>5, <1>6, <1>7, <1>8, <1>9

LEMMA StillToRunIs ==
    ASSUME IInv, pc # "idle", NEW r \in Runs(air), r \notin RunsSoFar
    PROVE  r[1] \in StillToRun
BY DEF IInv, RanAsScheduled, StillToRun

\* A program run once runs until its place is past.
LEMMA SingleStillToRun ==
    ASSUME IInv, pc # "idle", NEW p \in SinglePlaces, ~Past(p)
    PROVE  <<p>> \in StillToRun
<1>1. Run(<<p>>)[1] = <<p>> /\ Run(<<p>>)[1][1] = p
  BY RunName
<1>2. Run(<<p>>) \in Runs(air)
  <2>1. p \in { "commit1", "logup", "commit2", "quotient_commit" } => Run(<<p>>) \in StageRuns(air)
    BY StageRunsAre
  <2>2. p \in { "lev", "evals_sum", "deep_concat" } => Run(<<p>>) \in OpeningRuns(air)
    BY OpeningRunsAre
  <2>3. p \in { "fri_final", "grind" } => <<p>> \in FriNames(air)
    BY FriNamesAre
  <2>4. p \in { "open_const", "open_cm1", "open_cm2", "open_qsec" } => <<p>> \in TreeNames(air)
    BY TreeNamesAre
  <2>5. QED
    BY <2>1, <2>2, <2>3, <2>4, RunsAre DEF SinglePlaces
<1>3. Run(<<p>>) \notin RunsSoFar
  BY <1>1, RanIsBehind
<1>4. QED
  BY <1>1, <1>2, <1>3, StillToRunIs

\* The reader of a section, or of what is below it, is still to come.
LEMMA StageSectionsAreRead ==
    ASSUME IInv, pc # "idle", NEW n \in Large \ { <<"lev">> }, n \in InstanceNames
    PROVE  HasReader(n)
<1>1. CASE n = <<"trace">>
  <2>1. ~Past("logup")
    BY <1>1 DEF InstanceNames, Only, Scalars
  <2>2. Programs(air)[<<"logup">>].in = WitnessInputs(air) \cup { <<"challenges">> }
    BY StagePrograms, ProgramIs
  <2>3. <<"logup">> \in StillToRun
    BY <2>1, SingleStillToRun DEF SinglePlaces
  <2>4. QED
    BY <1>1, <2>2, <2>3 DEF HasReader, WitnessInputs
<1>2. CASE n = <<"cm2">>
  <2>1. ~Past("commit2")
    BY <1>2 DEF InstanceNames, Only, Scalars
  <2>2. Programs(air)[<<"commit2">>].in = { <<"cm2">> }
    BY StagePrograms, ProgramIs
  <2>3. <<"commit2">> \in StillToRun
    BY <2>1, SingleStillToRun DEF SinglePlaces
  <2>4. QED
    BY <1>2, <2>2, <2>3 DEF HasReader
<1>3. CASE n \in { <<"cm1_ext">>, <<"cm1_layers">> }
  <2>1. ~Past("open_cm1")
    BY <1>3 DEF InstanceNames, Only, Scalars
  <2>2. Programs(air)[<<"open_cm1">>].in = { <<"cm1_ext">>, <<"cm1_layers">>, <<"positions">> }
    BY TreePrograms, ProgramIs DEF Opened
  <2>3. <<"open_cm1">> \in StillToRun
    BY <2>1, SingleStillToRun DEF SinglePlaces
  <2>4. QED
    BY <1>3, <2>2, <2>3 DEF HasReader
<1>4. CASE n \in { <<"cm2_ext">>, <<"cm2_layers">> }
  <2>1. ~Past("open_cm2")
    BY <1>4 DEF InstanceNames, Only, Scalars
  <2>2. Programs(air)[<<"open_cm2">>].in = { <<"cm2_ext">>, <<"cm2_layers">>, <<"positions">> }
    BY TreePrograms, ProgramIs DEF Opened
  <2>3. <<"open_cm2">> \in StillToRun
    BY <2>1, SingleStillToRun DEF SinglePlaces
  <2>4. QED
    BY <1>4, <2>2, <2>3 DEF HasReader
<1>5. CASE n \in { <<"qsec">>, <<"qsec_layers">> }
  <2>1. ~Past("open_qsec")
    BY <1>5 DEF InstanceNames, Only, Scalars
  <2>2. Programs(air)[<<"open_qsec">>].in = { <<"qsec">>, <<"qsec_layers">>, <<"positions">> }
    BY TreePrograms, ProgramIs DEF Opened
  <2>3. <<"open_qsec">> \in StillToRun
    BY <2>1, SingleStillToRun DEF SinglePlaces
  <2>4. QED
    BY <1>5, <2>2, <2>3 DEF HasReader
<1>6. QED
  BY <1>1, <1>2, <1>3, <1>4, <1>5 DEF Large

\* lev is read by the window the prove is at.
LEMMA LevIsRead ==
    ASSUME IInv, pc # "idle", <<"lev">> \in InstanceNames
    PROVE  HasReader(<<"lev">>) \/ pc = "evals_sum"
<1>1. Past("lev") /\ ~Past("evals_sum") /\ pc \in Places
  BY DEF InstanceNames, Only, Scalars, IInv, InPlace
<1>2. SUFFICES ASSUME pc = "evals" PROVE HasReader(<<"lev">>)
  BY <1>1, PlacesAre DEF Past, Places
<1>3. IsAir(air) /\ k \in DOMAIN air.e
  BY <1>2, AirsAssumption DEF IInv, InPlace
<1>4. air.e \in Seq(Nat \ {0}) /\ Behind("evals", air.e) = k - 1
  BY <1>2, <1>3, AirIs, PlacesAre DEF Behind, Past
<1> DEFINE r == EvalsRun(air, k)
<1>5. r \in Runs(air)
  BY <1>3, OpeningRunsAre, RunsAre
<1>6. r[1] = <<"evals", air.e[k]>> /\ r[1][1] = "evals" /\ r[2] = StartOf(air.e, k)
  BY DEF EvalsRun
<1>7. r \notin EvalsRan
  <2>1. \A j \in 1..(k - 1) : EvalsRun(air, j)[2] # r[2]
    BY <1>3, <1>4, <1>6, StartsGrow DEF EvalsRun
  <2>2. QED
    BY <1>4, <2>1 DEF EvalsRan
<1> HIDE DEF r
<1>8. r[1] \in StillToRun
  BY <1>5, <1>6, <1>7, RanIsBehind, StillToRunIs
<1>9. <<"lev">> \in Programs(air)[<<"evals", air.e[k]>>].in
  <2> DEFINE ins == Sections(air) \cup { <<"lev">>, <<"start">> }
  <2>1. air.e[k] \in Range(air.e)
    BY <1>3 DEF Range
  <2>2. Programs(air)[<<"evals", air.e[k]>>] = Program(ins, { <<"evals">> })
    BY <2>1, OpeningPrograms
  <2>3. <<"lev">> \in ins
    OBVIOUS
  <2> HIDE DEF ins
  <2>4. QED
    BY <2>2, <2>3, ProgramIs
<1>10. QED
  BY <1>6, <1>8, <1>9 DEF HasReader

\* A section of the key that is only there for this prove is read later on.
LEMMA KeySectionsAreRead ==
    ASSUME IInv, pc # "idle", ~keep, NEW n \in OfTheKey, n \in KeyNames
    PROVE  HasReader(n)
<1>1. IsAir(air)
  BY AirsAssumption DEF IInv
<1>2. n[1] \notin { "zi", "domain", "const_root", "custom_root", "rows" }
  BY DEF OfTheKey, Named
<1>3. n \notin OfTheSetup
  BY <1>2 DEF OfTheSetup, Named, Parts, Only
<1>4. CASE n \in BaseNames(air)
  <2>1. n[1] \in { "const_base", "custom_base" }
    BY <1>4 DEF BaseNames, Named
  <2>2. ~Past("logup")
    BY <1>3, <2>1 DEF KeyNames, Only, CustomNames
  <2>3. Programs(air)[<<"logup">>].in = WitnessInputs(air) \cup { <<"challenges">> }
    BY StagePrograms, ProgramIs
  <2>4. <<"logup">> \in StillToRun
    BY <2>2, SingleStillToRun DEF SinglePlaces
  <2>5. n \in WitnessInputs(air)
    BY <1>4 DEF WitnessInputs
  <2>6. QED
    BY <2>3, <2>4, <2>5 DEF HasReader
<1>5. CASE n \in { <<"const_ext">>, <<"const_layers">> }
  <2>1. n[1] \in { "const_ext", "const_layers" }
    BY <1>5
  <2>2. n \notin BaseNames(air) /\ \A c : n \notin CustomNames(c)
    BY <2>1 DEF BaseNames, Named, CustomNames
  <2>3. ~Past("open_const")
    BY <1>3, <2>2 DEF KeyNames, Only
  <2>4. Programs(air)[<<"open_const">>].in = { <<"const_ext">>, <<"const_layers">>, <<"positions">> }
    BY TreePrograms, ProgramIs DEF Opened
  <2>5. <<"open_const">> \in StillToRun
    BY <2>3, SingleStillToRun DEF SinglePlaces
  <2>6. QED
    BY <1>5, <2>4, <2>5 DEF HasReader
<1>6. ASSUME NEW c \in CustomsLeft, n \in CustomNames(c) PROVE HasReader(n)
  <2>1. PICK i \in DOMAIN air.customs : c = air.customs[i] /\ i > Behind("custom", air.customs)
    BY DEF CustomsLeft
  <2>2. c \in Ids(air)
    BY <2>1 DEF Ids, Range
  <2> DEFINE r == Run(<<"open_custom", c>>)
  <2>3. r[1] = <<"open_custom", c>> /\ r[1][1] = "open_custom"
    BY RunName
  <2>4. r \in Runs(air)
    BY <2>2, TreeNamesAre, RunsAre
  <2>5. r \notin CustomsRan
    <3>1. Behind("custom", air.customs) \in Nat /\ Behind("custom", air.customs) <= Len(air.customs)
      BY <1>1, AirIs DEF Behind, IInv, InPlace
    <3>2. ASSUME NEW j \in 1..Behind("custom", air.customs) PROVE r # Run(<<"open_custom", air.customs[j]>>)
      <4>1. j \in DOMAIN air.customs /\ j # i
        BY <1>1, <2>1, <3>1, AirIs
      <4>2. air.customs[j] # c
        BY <1>1, <2>1, <4>1, AirIs
      <4>3. QED
        BY <4>2 DEF Run
    <3>3. QED
      BY <3>2 DEF CustomsRan
  <2> HIDE DEF r
  <2>6. r[1] \in StillToRun
    BY <2>3, <2>4, <2>5, RanIsBehind, StillToRunIs
  <2>7. Programs(air)[<<"open_custom", c>>].in = { <<"custom_ext", c>>, <<"custom_layers", c>>, <<"positions">> }
    <3>1. Programs(air)[<<"open_custom", c>>] = Opened(<<"custom_ext", c>>, <<"custom_layers", c>>)
      BY <2>2, TreePrograms
    <3>2. QED
      BY <3>1, ProgramIs DEF Opened
  <2>8. QED
    BY <1>6, <2>3, <2>6, <2>7 DEF HasReader, CustomNames
<1>7. QED
  BY <1>3, <1>4, <1>5, <1>6 DEF KeyNames, Only

\* A window's output is read when its batch is put together.
LEMMA PartsAreRead ==
    ASSUME IInv, pc # "idle", NEW n \in DOMAIN parts
    PROVE  HasReader(n)
<1>1. IsAir(air) /\ PartsAre /\ InPlace
  BY AirsAssumption DEF IInv, EnvIs
<1>2. ASSUME NEW prefix, NEW sizes, NEW last \in SinglePlaces, ~Past(last),
             Programs(air)[<<last>>].in = Parts(prefix, sizes),
             NEW m \in 0..Len(sizes), DOMAIN sizes = 1..Len(sizes), Len(sizes) \in Nat,
             DOMAIN parts = { <<prefix, j>> : j \in 1..m }
      PROVE  HasReader(n)
  <2>1. <<last>> \in StillToRun
    BY <1>2, SingleStillToRun
  <2>2. n \in Parts(prefix, sizes)
    BY <1>2 DEF Parts
  <2>3. QED
    BY <1>2, <2>1, <2>2 DEF HasReader
<1>3. pc \in PartPlaces
  BY <1>1, PartsStay
<1>4. CASE pc \in { "quotient", "quotient_commit" }
  <2>1. DOMAIN parts = { <<"q", j>> : j \in 1..Behind("quotient", air.q) }
    BY <1>1, <1>4 DEF PartsAre, PartsHold
  <2>2. ~Past("quotient_commit")
    BY <1>4, PlacesAre DEF Past
  <2>3. Programs(air)[<<"quotient_commit">>].in = Parts("q", air.q)
    BY StagePrograms, ProgramIs
  <2>4. DOMAIN air.q = 1..Len(air.q) /\ Len(air.q) \in Nat
    BY <1>1, AirIs
  <2>5. Behind("quotient", air.q) \in 0..Len(air.q)
    BY <1>1, <2>4 DEF Behind, InPlace
  <2>6. "quotient_commit" \in SinglePlaces
    BY DEF SinglePlaces
  <2>7. QED
    BY <1>2, <2>1, <2>2, <2>3, <2>4, <2>5, <2>6
<1>5. CASE pc \in { "evals", "evals_sum" }
  <2>1. DOMAIN parts = { <<"evals", j>> : j \in 1..Behind("evals", air.e) }
    BY <1>1, <1>5 DEF PartsAre, PartsHold
  <2>2. ~Past("evals_sum")
    BY <1>5, PlacesAre DEF Past
  <2>3. Programs(air)[<<"evals_sum">>].in = Parts("evals", air.e)
    BY OpeningPrograms, ProgramIs
  <2>4. DOMAIN air.e = 1..Len(air.e) /\ Len(air.e) \in Nat
    BY <1>1, AirIs
  <2>5. Behind("evals", air.e) \in 0..Len(air.e)
    BY <1>1, <2>4 DEF Behind, InPlace
  <2>6. "evals_sum" \in SinglePlaces
    BY DEF SinglePlaces
  <2>7. QED
    BY <1>2, <2>1, <2>2, <2>3, <2>4, <2>5, <2>6
<1>6. CASE pc \in { "deep", "deep_concat" }
  <2>1. DOMAIN parts = { <<"fri_pol", j>> : j \in 1..Behind("deep", air.d) }
    BY <1>1, <1>6 DEF PartsAre, PartsHold
  <2>2. ~Past("deep_concat")
    BY <1>6, PlacesAre DEF Past
  <2>3. Programs(air)[<<"deep_concat">>].in = Parts("fri_pol", air.d)
    BY OpeningPrograms, ProgramIs
  <2>4. DOMAIN air.d = 1..Len(air.d) /\ Len(air.d) \in Nat
    BY <1>1, AirIs
  <2>5. Behind("deep", air.d) \in 0..Len(air.d)
    BY <1>1, <2>4 DEF Behind, InPlace
  <2>6. "deep_concat" \in SinglePlaces
    BY DEF SinglePlaces
  <2>7. QED
    BY <1>2, <2>1, <2>2, <2>3, <2>4, <2>5, <2>6
<1>7. QED
  BY <1>3, <1>4, <1>5, <1>6 DEF PartPlaces

\* A round's environment goes when the round is opened.
LEMMA LayersAreRead ==
    ASSUME IInv, pc # "idle", NEW i \in DOMAIN layers, layers[i] # <<>>
    PROVE  Run(<<"open_fri", i - 1>>)[1] \in StillToRun
<1>1. IsAir(air) /\ LayersAre /\ InPlace
  BY AirsAssumption DEF IInv, EnvIs
<1>2. air.rounds \in Nat
  BY <1>1, AirIs
<1>3. Committed \in 0..air.rounds /\ LayersOpened \in 0..air.rounds
  BY <1>1, <1>2 DEF Committed, LayersOpened, InPlace, Rounds
<1>4. i \in 1..Committed /\ ~(i <= LayersOpened)
  BY <1>1 DEF LayersAre
<1> DEFINE r == Run(<<"open_fri", i - 1>>)
<1>5. i - 1 \in Rounds(air)
  BY <1>2, <1>3, <1>4 DEF Rounds
<1>6. r \in Runs(air)
  BY <1>5, TreeNamesAre, RunsAre
<1>7. r[1] = <<"open_fri", i - 1>> /\ r[1][1] = "open_fri"
  BY RunName
<1>8. r \notin LayersRan
  <2>1. \A j \in 0..(LayersOpened - 1) : j # i - 1
    BY <1>3, <1>4
  <2>2. QED
    BY <2>1 DEF LayersRan, Run
<1> HIDE DEF r
<1>9. QED
  BY <1>6, <1>7, <1>8, RanIsBehind, StillToRunIs DEF r

LEMMA DeadIsGone == ASSUME IInv PROVE DeadSectionsAreGone
<1>1. CASE pc = "idle"
  <2>1. DOMAIN env = {} /\ DOMAIN parts = {} /\ DOMAIN layers = {}
    BY <1>1 DEF IInv, EnvIs
  <2>2. QED
    BY <2>1 DEF DeadSectionsAreGone
<1>2. CASE pc # "idle"
  <2>1. DOMAIN env = KeyNames \cup InstanceNames
    BY <1>2 DEF IInv, EnvIs, EnvHolds, EnvNames
  <2>2. ASSUME NEW n \in Large, n \in DOMAIN env
        PROVE  HasReader(n) \/ (n = <<"lev">> /\ pc = "evals_sum")
    <3>1. n \notin KeyNames
      BY DEF Large, KeyNames, OfTheSetup, BaseNames, CustomNames, Named, Parts, Only
    <3>2. n \in InstanceNames
      BY <2>1, <2>2, <3>1
    <3>3. QED
      BY <1>2, <3>2, StageSectionsAreRead, LevIsRead
  <2>3. ASSUME ~keep, NEW n \in OfTheKey, n \in DOMAIN env
        PROVE  HasReader(n)
    <3>1. n[1] \in { "const_base", "const_ext", "const_layers", "custom_base", "custom_ext", "custom_layers" }
      BY DEF OfTheKey, Named
    <3>2. n \notin InstanceNames
      BY <3>1 DEF InstanceNames, Only, Scalars
    <3>3. n \in KeyNames
      BY <2>1, <2>3, <3>2
    <3>4. QED
      BY <1>2, <2>3, <3>3, KeySectionsAreRead
  <2>4. \A n \in DOMAIN parts : HasReader(n)
    BY <1>2, PartsAreRead
  <2>5. \A i \in DOMAIN layers : layers[i] # <<>> => Run(<<"open_fri", i - 1>>)[1] \in StillToRun
    BY <1>2, LayersAreRead
  <2>6. \A n \in (Large \cup (IF keep THEN {} ELSE OfTheKey)) \cap DOMAIN env :
           HasReader(n) \/ (n = <<"lev">> /\ pc = "evals_sum")
    BY <2>2, <2>3
  <2>7. QED
    BY <2>4, <2>5, <2>6 DEF DeadSectionsAreGone
<1>3. QED
  BY <1>1, <1>2

\* Whatever AIR is proved, under either residency, through any failures and
\* proves: every program is called with all of its inputs, no large buffer
\* outlives its last reader, and the driver keeps the whole key or none of it.
THEOREM BuffersStay == Spec => []BuffersAreThere
<1>1. IInv => BuffersAreThere
  BY TypesHold, CallsAreBound, DeadIsGone DEF BuffersAreThere, IInv
<1>2. QED
  BY <1>1, EnvironmentsAreAsTheTablesSay, PTL
-----------------------------------------------------------------------------
(* Sequences.                                                              *)

IsSeq(s) == s \in Seq({ s[j] : j \in DOMAIN s })

LEMMA SeqIs ==
    ASSUME NEW s, IsSeq(s)
    PROVE  Len(s) \in Nat /\ DOMAIN s = 1..Len(s) /\ s = [j \in 1..Len(s) |-> s[j]]
BY DEF IsSeq

LEMMA MapIsSeq ==
    ASSUME NEW s, NEW n \in Nat, s = [j \in 1..n |-> s[j]]
    PROVE  IsSeq(s) /\ Len(s) = n
<1>1. DOMAIN s = 1..n
  OBVIOUS
<1>2. s \in [1..n -> { s[j] : j \in 1..n }]
  OBVIOUS
<1>3. s \in Seq({ s[j] : j \in 1..n }) /\ Len(s) = n
  BY <1>2
<1>4. QED
  BY <1>1, <1>3 DEF IsSeq

LEMMA ConcatIs ==
    ASSUME NEW s, NEW t, IsSeq(s), IsSeq(t)
    PROVE  /\ IsSeq(s \o t)
           /\ Len(s \o t) = Len(s) + Len(t)
           /\ \A j \in 1..Len(s) : (s \o t)[j] = s[j]
           /\ \A j \in 1..Len(t) : (s \o t)[Len(s) + j] = t[j]
<1> DEFINE S == { s[j] : j \in DOMAIN s } \cup { t[j] : j \in DOMAIN t }
<1>1. s \in Seq(S) /\ t \in Seq(S)
  BY DEF IsSeq
<1> HIDE DEF S
<1>2. s \o t \in Seq(S) /\ Len(s \o t) = Len(s) + Len(t)
  BY <1>1
<1>3. /\ \A j \in 1..Len(s) : (s \o t)[j] = s[j]
      /\ \A j \in 1..Len(t) : (s \o t)[Len(s) + j] = t[j]
  BY <1>1
<1>4. IsSeq(s \o t)
  <2> DEFINE u == s \o t
  <2> HIDE DEF u
  <2>1. u \in Seq(S)
    BY <1>2 DEF u
  <2>2. u = [j \in 1..Len(u) |-> u[j]] /\ Len(u) \in Nat
    BY <2>1
  <2>3. IsSeq(u)
    BY <2>2, MapIsSeq
  <2>4. QED
    BY <2>3 DEF u
<1>5. QED
  BY <1>2, <1>3, <1>4

\* Sequences with the same elements are the same.
LEMMA SameSeq ==
    ASSUME NEW s, NEW t, IsSeq(s), IsSeq(t), Len(s) = Len(t), \A j \in 1..Len(s) : s[j] = t[j]
    PROVE  s = t
<1>1. s = [j \in 1..Len(s) |-> s[j]] /\ t = [j \in 1..Len(s) |-> t[j]]
  BY SeqIs
<1>2. QED
  BY <1>1

LEMMA ConcatAssoc ==
    ASSUME NEW s, NEW t, NEW u, IsSeq(s), IsSeq(t), IsSeq(u)
    PROVE  (s \o t) \o u = s \o (t \o u)
<1> DEFINE S == { s[j] : j \in DOMAIN s } \cup { t[j] : j \in DOMAIN t } \cup { u[j] : j \in DOMAIN u }
<1>1. s \in Seq(S) /\ t \in Seq(S) /\ u \in Seq(S)
  BY DEF IsSeq
<1> HIDE DEF S
<1>2. QED
  BY <1>1

LEMMA ConcatEmpty == ASSUME NEW s, IsSeq(s) PROVE s \o <<>> = s
BY DEF IsSeq

LEMMA TupleIsSeq ==
    /\ IsSeq(<<>>) /\ Len(<<>>) = 0
    /\ \A a : IsSeq(<<a>>) /\ Len(<<a>>) = 1
    /\ \A a, b : IsSeq(<<a, b>>) /\ Len(<<a, b>>) = 2
    /\ \A a, b, c : IsSeq(<<a, b, c>>) /\ Len(<<a, b, c>>) = 3
<1>1. IsSeq(<<>>)
  BY DEF IsSeq
<1>2. ASSUME NEW a PROVE IsSeq(<<a>>)
  BY DEF IsSeq
<1>3. ASSUME NEW a, NEW b PROVE IsSeq(<<a, b>>)
  BY DEF IsSeq
<1>4. ASSUME NEW a, NEW b, NEW c PROVE IsSeq(<<a, b, c>>)
  BY DEF IsSeq
<1>5. QED
  BY <1>1, <1>2, <1>3, <1>4

LEMMA AppendIs == ASSUME NEW s, NEW x, IsSeq(s) PROVE Append(s, x) = s \o <<x>>
BY DEF IsSeq

\* A sequence is a prefix of it with anything behind.
LEMMA PrefixOfConcat ==
    ASSUME NEW s, NEW t, IsSeq(s), IsSeq(t)
    PROVE  IsPrefix(s, s \o t)
<1>1. /\ Len(s) \in Nat /\ Len(t) \in Nat
      /\ IsSeq(s \o t) /\ Len(s \o t) = Len(s) + Len(t)
      /\ \A j \in 1..Len(s) : (s \o t)[j] = s[j]
  BY SeqIs, ConcatIs
<1> DEFINE u == s \o t
<1> HIDE DEF u
<1>2. SubSeq(s, 1, Len(s)) = [j \in 1..Len(s) |-> s[j]]
  BY <1>1 DEF IsSeq
<1>3. SubSeq(u, 1, Len(s)) = [j \in 1..Len(s) |-> u[j]]
  BY <1>1 DEF IsSeq, u
<1>4. QED
  BY <1>1, <1>2, <1>3 DEF IsPrefix, u

LEMMA PrefixIs ==
    ASSUME NEW s, NEW t, IsSeq(s), IsSeq(t)
    PROVE  IsPrefix(s, t) <=> Len(s) <= Len(t) /\ \A j \in 1..Len(s) : s[j] = t[j]
<1>1. Len(s) \in Nat /\ Len(t) \in Nat
  BY SeqIs
<1>2. SubSeq(s, 1, Len(s)) = [j \in 1..Len(s) |-> s[j]]
  BY <1>1 DEF IsSeq
<1>3. Len(s) <= Len(t) => SubSeq(t, 1, Len(s)) = [j \in 1..Len(s) |-> t[j]]
  BY <1>1 DEF IsSeq
<1>4. QED
  BY <1>1, <1>2, <1>3 DEF IsPrefix

LEMMA PrefixTrans ==
    ASSUME NEW s, NEW t, NEW u, IsSeq(s), IsSeq(t), IsSeq(u), IsPrefix(s, t), IsPrefix(t, u)
    PROVE  IsPrefix(s, u)
<1>1. Len(s) \in Nat /\ Len(t) \in Nat /\ Len(u) \in Nat
  BY SeqIs
<1>2. QED
  BY <1>1, PrefixIs

\* The members of a finite set of numbers, each at its place.
LEMMA InOrderIs ==
    ASSUME NEW S, IsFiniteSet(S), S \subseteq Nat
    PROVE  /\ IsSeq(InOrder(S))
           /\ \A i \in S : \E j \in DOMAIN InOrder(S) : InOrder(S)[j] = i
<1> DEFINE Lower(i) == { x \in S : x <= i }
<1>1. Cardinality(S) \in Nat
  BY FS_CardinalityType
<1>2. IsSeq(InOrder(S))
  <2> DEFINE f == InOrder(S)
             member(j) == CHOOSE i \in S : Cardinality({ x \in S : x <= i }) = j
  <2>1. f = [j \in 1..Cardinality(S) |-> f[j]]
    <3>1. f = [j \in 1..Cardinality(S) |-> member(j)]
      BY DEF InOrder
    <3> HIDE DEF f, member
    <3>2. QED
      BY <3>1
  <2> HIDE DEF f, member
  <2>2. IsSeq(f)
    BY <1>1, <2>1, MapIsSeq
  <2>3. QED
    BY <2>2 DEF f
<1>3. ASSUME NEW i \in S, NEW l \in S, l < i
      PROVE  Cardinality(Lower(l)) < Cardinality(Lower(i))
  <2>1. IsFiniteSet(Lower(i))
    BY PartAndRest
  <2>2. Lower(l) \in SUBSET Lower(i) /\ i \in Lower(i) \ Lower(l)
    <3>1. \A x \in S : x \in Nat
      OBVIOUS
    <3>2. \A x \in S : x <= l => x <= i
      BY <1>3, <3>1
    <3>3. i <= i /\ ~(i <= l)
      BY <1>3, <3>1
    <3>4. QED
      BY <3>2, <3>3
  <2>3. /\ IsFiniteSet(Lower(i) \ Lower(l)) /\ Cardinality(Lower(l)) \in Nat
        /\ Cardinality(Lower(i)) = Cardinality(Lower(l)) + Cardinality(Lower(i) \ Lower(l))
    BY <2>1, <2>2, PartAndRest
  <2>4. Cardinality(Lower(i) \ Lower(l)) \in Nat \ {0}
    BY <2>2, <2>3, FS_CardinalityType, FS_EmptySet
  <2>5. QED
    BY <2>3, <2>4
<1>4. ASSUME NEW i \in S PROVE \E j \in DOMAIN InOrder(S) : InOrder(S)[j] = i
  <2> DEFINE j == Cardinality(Lower(i))
             at == CHOOSE l \in S : Cardinality({ x \in S : x <= l }) = j
  <2>1. j \in 1..Cardinality(S)
    <3>1. Lower(i) \in SUBSET S /\ i \in Lower(i)
      OBVIOUS
    <3>2. /\ IsFiniteSet(Lower(i)) /\ j \in Nat /\ Cardinality(S \ Lower(i)) \in Nat
          /\ Cardinality(S) = j + Cardinality(S \ Lower(i))
      BY <3>1, PartAndRest
    <3>3. j # 0
      BY <3>1, <3>2, FS_EmptySet
    <3>4. QED
      BY <1>1, <3>2, <3>3
  <2>2. InOrder(S)[j] = at
    BY <2>1 DEF InOrder
  <2>3. at \in S /\ Cardinality(Lower(at)) = j
    OBVIOUS
  <2>4. at = i
    <3> HIDE DEF at
    <3>1. at \in Nat /\ i \in Nat
      BY <2>3
    <3>2. ~(at < i) /\ ~(i < at)
      <4>1. Cardinality(Lower(at)) \in Nat
        BY PartAndRest
      <4>2. QED
        BY <1>3, <2>3, <4>1
    <3>3. QED
      BY <3>1, <3>2
  <2>5. j \in DOMAIN InOrder(S)
    BY <2>1 DEF InOrder
  <2>6. QED
    BY <2>2, <2>4, <2>5
<1>5. QED
  BY <1>2, <1>4
-----------------------------------------------------------------------------
(* What a part of the transcript squeezes.                                 *)

SqueezedOf(items) == { items[j].value : j \in { i \in DOMAIN items : items[i].op = "squeeze" } }

LEMMA SqueezedConcat ==
    ASSUME NEW s, NEW t, IsSeq(s), IsSeq(t)
    PROVE  SqueezedOf(s) \subseteq SqueezedOf(s \o t) /\ SqueezedOf(t) \subseteq SqueezedOf(s \o t)
<1> DEFINE u == s \o t
<1>1. /\ DOMAIN s = 1..Len(s) /\ DOMAIN t = 1..Len(t) /\ Len(s) \in Nat /\ Len(t) \in Nat
      /\ IsSeq(u) /\ Len(u) = Len(s) + Len(t)
      /\ \A j \in 1..Len(s) : u[j] = s[j]
      /\ \A j \in 1..Len(t) : u[Len(s) + j] = t[j]
  BY ConcatIs, SeqIs
<1> HIDE DEF u
<1>2. DOMAIN u = 1..Len(u)
  BY <1>1, SeqIs
<1>3. \A j \in DOMAIN s : j \in DOMAIN u /\ u[j] = s[j]
  BY <1>1, <1>2
<1>4. \A j \in DOMAIN t : Len(s) + j \in DOMAIN u /\ u[Len(s) + j] = t[j]
  BY <1>1, <1>2
<1>5. SqueezedOf(s) \subseteq SqueezedOf(u)
  BY <1>3 DEF SqueezedOf
<1>6. SqueezedOf(t) \subseteq SqueezedOf(u)
  BY <1>4 DEF SqueezedOf
<1>7. QED
  BY <1>5, <1>6 DEF u

LEMMA SqueezeIs ==
    ASSUME NEW names, IsSeq(names)
    PROVE  /\ IsSeq(Squeeze(names)) /\ Len(Squeeze(names)) = Len(names)
           /\ \A j \in 1..Len(names) : Squeeze(names)[j] = [op |-> "squeeze", value |-> Squeezed(names[j])]
           /\ \A j \in DOMAIN names : Squeezed(names[j]) \in SqueezedOf(Squeeze(names))
<1> DEFINE f == Squeeze(names)
           item(j) == [op |-> "squeeze", value |-> Squeezed(names[j])]
<1>1. DOMAIN names = 1..Len(names) /\ Len(names) \in Nat
  BY SeqIs
<1>2. f = [j \in 1..Len(names) |-> item(j)]
  BY <1>1 DEF Squeeze
<1>3. \A j : item(j).op = "squeeze" /\ item(j).value = Squeezed(names[j])
  OBVIOUS
<1> HIDE DEF f, item
<1>4. f = [j \in 1..Len(names) |-> f[j]] /\ DOMAIN f = 1..Len(names)
  BY <1>2
<1>5. IsSeq(f) /\ Len(f) = Len(names)
  BY <1>1, <1>4, MapIsSeq
<1>6. \A j \in 1..Len(names) : f[j] = item(j)
  BY <1>2
<1>7. \A j \in DOMAIN names : Squeezed(names[j]) \in SqueezedOf(f)
  <2>1. \A j \in DOMAIN names : j \in DOMAIN f /\ f[j].op = "squeeze" /\ f[j].value = Squeezed(names[j])
    BY <1>1, <1>3, <1>4, <1>6
  <2>2. QED
    BY <2>1 DEF SqueezedOf
<1>8. QED
  BY <1>5, <1>6, <1>7 DEF f, item

LEMMA PartOfInterval ==
    ASSUME NEW n \in Nat, NEW T \in SUBSET (1..n)
    PROVE  IsFiniteSet(T) /\ T \subseteq Nat
<1>1. IsFiniteSet(1..n)
  BY FS_Interval
<1>2. IsFiniteSet(T)
  BY <1>1, FS_Subset
<1>3. QED
  BY <1>2

\* A stage's names are those of its challenges.
LEMMA StageIdsAre ==
    ASSUME NEW stage
    PROVE  /\ IsSeq(StageIds(stage))
           /\ \A c \in Range(ChallengesMap) : c.stage = stage =>
                 \E j \in DOMAIN StageIds(stage) : StageIds(stage)[j] = <<c.name>>
<1> DEFINE cm == ChallengesMap
           S == { i \in DOMAIN cm : cm[i].stage = stage }
           ids == InOrder(S)
           f == StageIds(stage)
           name(j) == <<cm[ids[j]].name>>
<1>1. f = [j \in DOMAIN ids |-> name(j)]
  BY DEF StageIds
<1>2. Len(cm) \in Nat /\ DOMAIN cm = 1..Len(cm)
  BY ChallengesAssumption
<1>3. IsFiniteSet(S) /\ S \subseteq Nat
  <2> DEFINE n == Len(cm)
  <2>1. n \in Nat /\ S \in SUBSET (1..n)
    BY <1>2
  <2> HIDE DEF n, S
  <2>2. QED
    BY <2>1, PartOfInterval
<1>4. IsSeq(ids) /\ \A i \in S : \E j \in DOMAIN ids : ids[j] = i
  <2> HIDE DEF S
  <2>1. QED
    BY <1>3, InOrderIs
<1>5. \A c \in Range(cm) : c.stage = stage => \E i \in S : cm[i] = c
  BY DEF Range
<1> HIDE DEF ids, f, S
<1>6. DOMAIN ids = 1..Len(ids) /\ Len(ids) \in Nat
  BY <1>4, SeqIs
<1>7. ASSUME NEW c \in Range(cm), c.stage = stage PROVE \E j \in DOMAIN f : f[j] = <<c.name>>
  <2>1. PICK i \in S : cm[i] = c
    BY <1>5, <1>7
  <2>2. PICK j \in DOMAIN ids : ids[j] = i
    BY <1>4
  <2>3. j \in DOMAIN f /\ f[j] = name(j)
    BY <1>1
  <2>4. name(j) = <<c.name>>
    BY <2>1, <2>2
  <2>5. QED
    BY <2>3, <2>4
<1>8. IsSeq(f)
  <2> HIDE DEF name
  <2>1. f = [j \in 1..Len(ids) |-> f[j]]
    BY <1>1, <1>6
  <2>2. QED
    BY <1>6, <2>1, MapIsSeq
<1>9. QED
  BY <1>7, <1>8 DEF f

LEMMA StageSqueezes ==
    ASSUME NEW stage
    PROVE  /\ IsSeq(Squeeze(StageIds(stage)))
           /\ \A c \in Range(ChallengesMap) :
                 c.stage = stage => Squeezed(<<c.name>>) \in SqueezedOf(Squeeze(StageIds(stage)))
<1> DEFINE f == StageIds(stage)
<1>1. /\ IsSeq(f)
      /\ \A c \in Range(ChallengesMap) : c.stage = stage => \E j \in DOMAIN f : f[j] = <<c.name>>
  BY StageIdsAre
<1> HIDE DEF f
<1>2. IsSeq(Squeeze(f)) /\ \A j \in DOMAIN f : Squeezed(f[j]) \in SqueezedOf(Squeeze(f))
  BY <1>1, SqueezeIs
<1>3. \A c \in Range(ChallengesMap) : c.stage = stage => Squeezed(<<c.name>>) \in SqueezedOf(Squeeze(f))
  BY <1>1, <1>2
<1>4. QED
  BY <1>2, <1>3 DEF f

LEMMA OneSqueezed ==
    ASSUME NEW n
    PROVE  IsSeq(Squeeze(<<n>>)) /\ Len(Squeeze(<<n>>)) = 1 /\ Squeezed(n) \in SqueezedOf(Squeeze(<<n>>))
<1> DEFINE f == <<n>>
<1>1. IsSeq(f) /\ Len(f) = 1 /\ f[1] = n /\ 1 \in DOMAIN f
  BY TupleIsSeq
<1> HIDE DEF f
<1>2. /\ IsSeq(Squeeze(f)) /\ Len(Squeeze(f)) = Len(f)
      /\ \A j \in DOMAIN f : Squeezed(f[j]) \in SqueezedOf(Squeeze(f))
  BY <1>1, SqueezeIs
<1>3. QED
  BY <1>1, <1>2 DEF f

LEMMA AirvaluesSeq == ASSUME IsAir(air) PROVE IsSeq(StageTwoAirvalues(air))
<1> DEFINE S == { i \in DOMAIN air.airvalues : air.airvalues[i] = 2 }
           ids == InOrder(S)
           f == StageTwoAirvalues(air)
           item(j) == Put(<<AirvaluesOut[1], <<"airvalue", ids[j]>>>>)
           n == Len(air.airvalues)
<1>1. n \in Nat /\ DOMAIN air.airvalues = 1..n
  BY AirIs
<1>2. S \in SUBSET (1..n)
  BY <1>1
<1>3. f = [j \in DOMAIN ids |-> item(j)]
  BY DEF StageTwoAirvalues, StageTwo
<1> HIDE DEF n, S, f, item
<1>4. IsFiniteSet(S) /\ S \subseteq Nat
  BY <1>1, <1>2, PartOfInterval
<1>5. IsSeq(ids)
  BY <1>4, InOrderIs
<1> HIDE DEF ids
<1>6. DOMAIN ids = 1..Len(ids) /\ Len(ids) \in Nat
  BY <1>5, SeqIs
<1>7. f = [j \in 1..Len(ids) |-> f[j]]
  BY <1>3, <1>6
<1>8. IsSeq(f)
  BY <1>6, <1>7, MapIsSeq
<1>9. QED
  BY <1>8 DEF f

LEMMA FriRoundIs ==
    ASSUME NEW i
    PROVE  /\ IsSeq(FriRound(i)) /\ Len(FriRound(i)) = 2
           /\ Squeezed(<<"beta", i>>) \in SqueezedOf(FriRound(i))
<1> DEFINE x == << Put(FriRoot(i)) >>
           n == <<"beta", i>>
<1> HIDE DEF n
<1> DEFINE q == Squeeze(<<n>>)
<1>1. IsSeq(x) /\ Len(x) = 1
  BY TupleIsSeq
<1>2. IsSeq(q) /\ Len(q) = 1 /\ Squeezed(n) \in SqueezedOf(q)
  BY OneSqueezed
<1>3. FriRound(i) = x \o q
  BY DEF FriRound, n
<1> HIDE DEF x, q
<1>4. IsSeq(x \o q) /\ Len(x \o q) = Len(x) + Len(q) /\ SqueezedOf(q) \subseteq SqueezedOf(x \o q)
  BY <1>1, <1>2, ConcatIs, SqueezedConcat
<1>5. QED
  BY <1>1, <1>2, <1>3, <1>4 DEF n

\* The rounds, two items each.
LEMMA FriRoundsAre ==
    ASSUME NEW m \in Nat
    PROVE  /\ IsSeq(FriRounds(m)) /\ Len(FriRounds(m)) = 2 * m
           /\ FriRounds(m + 1) = FriRounds(m) \o FriRound(m)
<1> DEFINE item(j) == FriRound((j - 1) \div 2)[1 + ((j - 1) % 2)]
<1>1. \A l : FriRounds(l) = [j \in 1..(2 * l) |-> item(j)]
  BY DEF FriRounds
<1>2. item(2 * m + 1) = FriRound(m)[1] /\ item(2 * m + 2) = FriRound(m)[2]
  <2>1. ((2 * m + 1) - 1) \div 2 = m /\ ((2 * m + 1) - 1) % 2 = 0
    OBVIOUS
  <2>2. ((2 * m + 2) - 1) \div 2 = m /\ ((2 * m + 2) - 1) % 2 = 1
    OBVIOUS
  <2>3. 1 + 0 = 1 /\ 1 + 1 = 2
    OBVIOUS
  <2>4. QED
    BY <2>1, <2>2, <2>3
<1> HIDE DEF item
<1>3. ASSUME NEW l \in Nat PROVE IsSeq(FriRounds(l)) /\ Len(FriRounds(l)) = 2 * l
  <2> DEFINE f == FriRounds(l)
             n == 2 * l
  <2>1. n \in Nat /\ f = [j \in 1..n |-> item(j)]
    BY <1>1
  <2> HIDE DEF f, n
  <2>2. f = [j \in 1..n |-> f[j]]
    BY <2>1
  <2>3. IsSeq(f) /\ Len(f) = n
    BY <2>1, <2>2, MapIsSeq
  <2>4. QED
    BY <2>3 DEF f, n
<1>4. FriRounds(m + 1) = FriRounds(m) \o FriRound(m)
  <2> DEFINE f == FriRounds(m)
             g == FriRounds(m + 1)
             r == FriRound(m)
             u == f \o r
             n == 2 * m
  <2>1. IsSeq(f) /\ Len(f) = n /\ IsSeq(g) /\ Len(g) = n + 2 /\ IsSeq(r) /\ Len(r) = 2
    <3>1. m + 1 \in Nat /\ 2 * (m + 1) = n + 2
      OBVIOUS
    <3>2. QED
      BY <1>3, <3>1, FriRoundIs
  <2>2. \A j \in 1..n : f[j] = item(j)
    BY <1>1
  <2>3. \A j \in 1..(n + 2) : g[j] = item(j)
    BY <1>1
  <2>4. item(n + 1) = r[1] /\ item(n + 2) = r[2] /\ n \in Nat
    BY <1>2
  <2> HIDE DEF f, g, r, n
  <2>5. /\ IsSeq(u) /\ Len(u) = Len(f) + Len(r)
        /\ \A j \in 1..Len(f) : u[j] = f[j]
        /\ \A j \in 1..Len(r) : u[Len(f) + j] = r[j]
    <3>1. IsSeq(f) /\ IsSeq(r)
      BY <2>1
    <3>2. QED
      BY ONLY <3>1, ConcatIs
  <2> HIDE DEF u
  <2>6. Len(u) = n + 2 /\ u[n + 1] = r[1] /\ u[n + 2] = r[2] /\ \A j \in 1..n : u[j] = f[j]
    BY <2>1, <2>4, <2>5
  <2>7. \A j \in 1..(n + 2) : u[j] = g[j]
    <3>1. ASSUME NEW j \in 1..(n + 2) PROVE u[j] = g[j]
      <4>1. j \in 1..n \/ j = n + 1 \/ j = n + 2
        BY <2>4
      <4>2. QED
        BY <2>2, <2>3, <2>4, <2>6, <4>1
    <3>2. QED
      BY <3>1
  <2>8. u = g
    BY <2>1, <2>5, <2>6, <2>7, SameSeq
  <2>9. QED
    BY <2>8 DEF u, f, g, r
<1>5. QED
  BY <1>3, <1>4
-----------------------------------------------------------------------------
\* One sequence begins with another.
Extends(s, t) == IsSeq(s) /\ IsSeq(t) /\ IsPrefix(s, t)

LEMMA ExtendsItself == ASSUME NEW s, IsSeq(s) PROVE Extends(s, s)
BY SeqIs, PrefixIs DEF Extends

LEMMA ExtendsOn == ASSUME NEW s, NEW t, NEW u, Extends(s, t), Extends(t, u) PROVE Extends(s, u)
BY PrefixTrans DEF Extends

LEMMA ConcatExtends ==
    ASSUME NEW s, NEW t, IsSeq(s), IsSeq(t)
    PROVE  Extends(s, s \o t)
BY ConcatIs, PrefixOfConcat DEF Extends

LEMMA ConcatsExtend ==
    ASSUME NEW s, NEW t, NEW u, IsSeq(s), Extends(t, u)
    PROVE  Extends(s \o t, s \o u)
<1> DEFINE a == s \o t
           b == s \o u
<1>1. /\ IsSeq(a) /\ Len(a) = Len(s) + Len(t) /\ IsSeq(b) /\ Len(b) = Len(s) + Len(u)
      /\ \A j \in 1..Len(s) : a[j] = s[j] /\ b[j] = s[j]
      /\ \A j \in 1..Len(t) : a[Len(s) + j] = t[j]
      /\ \A j \in 1..Len(u) : b[Len(s) + j] = u[j]
  BY ConcatIs DEF Extends
<1>2. /\ Len(s) \in Nat /\ Len(t) \in Nat /\ Len(u) \in Nat
      /\ Len(t) <= Len(u) /\ \A j \in 1..Len(t) : t[j] = u[j]
  BY SeqIs, PrefixIs DEF Extends
<1> HIDE DEF a, b
<1>3. ASSUME NEW j \in 1..Len(a) PROVE a[j] = b[j]
  <2>1. CASE j <= Len(s)
    BY <1>1, <1>2, <2>1
  <2>2. CASE ~(j <= Len(s))
    <3>1. j - Len(s) \in 1..Len(t) /\ j - Len(s) \in 1..Len(u) /\ j = Len(s) + (j - Len(s))
      BY <1>1, <1>2, <2>2
    <3>2. a[j] = t[j - Len(s)] /\ b[j] = u[j - Len(s)]
      BY <1>1, <3>1
    <3>3. QED
      BY <1>2, <3>1, <3>2
  <2>3. QED
    BY <2>1, <2>2
<1>4. Len(a) <= Len(b)
  BY <1>1, <1>2
<1>5. IsPrefix(a, b)
  BY <1>1, <1>3, <1>4, PrefixIs
<1>6. QED
  BY <1>1, <1>5 DEF Extends, a, b

LEMMA SqueezedStays ==
    ASSUME NEW s, NEW t, Extends(s, t)
    PROVE  SqueezedOf(s) \subseteq SqueezedOf(t)
<1>1. DOMAIN s = 1..Len(s) /\ DOMAIN t = 1..Len(t) /\ Len(s) \in Nat /\ Len(t) \in Nat
  BY SeqIs DEF Extends
<1>2. Len(s) <= Len(t) /\ \A j \in 1..Len(s) : s[j] = t[j]
  BY PrefixIs DEF Extends
<1>3. \A j \in DOMAIN s : j \in DOMAIN t /\ t[j] = s[j]
  BY <1>1, <1>2
<1>4. QED
  BY <1>3 DEF SqueezedOf

LEMMA RoundsExtend ==
    ASSUME NEW m \in Nat, NEW n \in Nat, m <= n
    PROVE  /\ Extends(FriRounds(m), FriRounds(n))
           /\ \A i \in 0..(n - 1) : Squeezed(<<"beta", i>>) \in SqueezedOf(FriRounds(n))
<1>1. \A l \in Nat : IsSeq(FriRounds(l)) /\ Len(FriRounds(l)) = 2 * l
  BY FriRoundsAre
<1>2. ASSUME NEW l \in Nat, l <= n PROVE Extends(FriRounds(l), FriRounds(n))
  <2> DEFINE s == FriRounds(l)
             t == FriRounds(n)
             item(j) == FriRound((j - 1) \div 2)[1 + ((j - 1) % 2)]
  <2>1. s = [j \in 1..(2 * l) |-> item(j)] /\ t = [j \in 1..(2 * n) |-> item(j)]
    BY DEF FriRounds
  <2>2. IsSeq(s) /\ IsSeq(t) /\ Len(s) = 2 * l /\ Len(t) = 2 * n
    BY <1>1
  <2> HIDE DEF s, t, item
  <2>3. Len(s) <= Len(t) /\ \A j \in 1..Len(s) : s[j] = t[j]
    <3>1. \A j \in 1..(2 * l) : j \in 1..(2 * n)
      BY <1>2
    <3>2. 2 * l <= 2 * n
      BY <1>2
    <3>3. QED
      BY <2>1, <2>2, <3>1, <3>2
  <2>4. IsPrefix(s, t)
    BY <2>2, <2>3, PrefixIs
  <2>5. QED
    BY <2>2, <2>4 DEF Extends, s, t
<1>3. ASSUME NEW i \in 0..(n - 1) PROVE Squeezed(<<"beta", i>>) \in SqueezedOf(FriRounds(n))
  <2>1. i \in Nat /\ i + 1 \in Nat /\ i + 1 <= n
    OBVIOUS
  <2>2. FriRounds(i + 1) = FriRounds(i) \o FriRound(i) /\ IsSeq(FriRounds(i))
    BY <2>1, FriRoundsAre
  <2>3. IsSeq(FriRound(i)) /\ Squeezed(<<"beta", i>>) \in SqueezedOf(FriRound(i))
    BY FriRoundIs
  <2>4. Squeezed(<<"beta", i>>) \in SqueezedOf(FriRounds(i + 1))
    <3> DEFINE s == FriRounds(i)
               t == FriRound(i)
    <3> HIDE DEF s, t
    <3>1. IsSeq(s) /\ IsSeq(t)
      BY <2>2, <2>3 DEF s, t
    <3>2. SqueezedOf(t) \subseteq SqueezedOf(s \o t)
      BY <3>1, SqueezedConcat
    <3>3. QED
      BY <2>2, <2>3, <3>2 DEF s, t
  <2>5. Extends(FriRounds(i + 1), FriRounds(n))
    BY <1>2, <2>1
  <2>6. QED
    BY <2>4, <2>5, SqueezedStays
<1>4. QED
  BY <1>2, <1>3

-----------------------------------------------------------------------------
(* The transcript by place.                                                *)

Log2 == Seed(air) \o Squeeze(StageIds(2))
Log3 == Log2 \o << Put(Out(Run(<<"commit2">>), <<"root2">>)) >> \o StageTwoAirvalues(air)
             \o Squeeze(StageIds(NStages + 1))
Log4 == Log3 \o << Put(Out(Run(<<"quotient_commit">>), <<"rootq">>)) >> \o Squeeze(StageIds(NStages + 2))
Log5 == Log4 \o << Absorb(air, EvalsOut) >> \o Squeeze(StageIds(NStages + 3))
LogRounds(m) == Log5 \o FriRounds(m)
LogQueries == LogRounds(air.rounds) \o << Absorb(air, Out(Run(<<"fri_final">>), <<"final_pol">>)) >>
                                    \o Squeeze(<< <<"challenge">> >>)

LogSoFar ==
    IF Past("fri_final") THEN LogQueries
    ELSE IF Past("evals_sum") THEN LogRounds(Committed)
    ELSE IF Past("quotient_commit") THEN Log4
    ELSE IF Past("commit2") THEN Log3 ELSE Log2

LEMMA LogQueriesIs == Protocol(air) = LogQueries
BY DEF Protocol, LogQueries, LogRounds, Log5, Log4, Log3, Log2

Gives(items, stage) ==
    \A c \in Range(ChallengesMap) : c.stage = stage => Squeezed(<<c.name>>) \in SqueezedOf(items)

LEMMA GivesOn == ASSUME NEW s, NEW t, Extends(s, t), NEW stage, Gives(s, stage) PROVE Gives(t, stage)
BY SqueezedStays DEF Gives

\* One thing put and a stage squeezed.
LEMMA StageMore ==
    ASSUME NEW s, NEW x, IsSeq(s), NEW stage
    PROVE  /\ Extends(s, s \o <<x>> \o Squeeze(StageIds(stage)))
           /\ Gives(s \o <<x>> \o Squeeze(StageIds(stage)), stage)
<1> DEFINE q == Squeeze(StageIds(stage))
           p == s \o <<x>>
<1>1. IsSeq(q) /\ Gives(q, stage)
  BY StageSqueezes DEF Gives
<1>2. IsSeq(<<x>>)
  BY TupleIsSeq
<1>3. IsSeq(p) /\ Extends(s, p)
  BY <1>2, ConcatIs, ConcatExtends
<1> HIDE DEF q, p
<1>4. Extends(p, p \o q) /\ SqueezedOf(q) \subseteq SqueezedOf(p \o q)
  BY <1>1, <1>3, ConcatExtends, SqueezedConcat
<1>5. Extends(s, p \o q)
  BY <1>3, <1>4, ExtendsOn
<1>6. Gives(p \o q, stage)
  BY <1>1, <1>4 DEF Gives
<1>7. QED
  BY <1>5, <1>6 DEF p, q

LEMMA LogsExtend ==
    ASSUME IsAir(air), ~air.recursive
    PROVE  /\ Extends(Log2, Log3) /\ Extends(Log3, Log4) /\ Extends(Log4, Log5)
           /\ Gives(Log2, 2) /\ Gives(Log3, 3) /\ Gives(Log4, 4) /\ Gives(Log5, 5)
<1>1. IsSeq(Log2) /\ Gives(Log2, 2)
  <2> DEFINE s == << Put(Host(<<"global_challenge">>)) >>
             q == Squeeze(StageIds(2))
  <2>1. Log2 = s \o q
    BY DEF Log2, Seed
  <2>2. IsSeq(s) /\ IsSeq(q) /\ Gives(q, 2)
    BY TupleIsSeq, StageSqueezes DEF Gives
  <2> HIDE DEF s, q
  <2>3. IsSeq(s \o q) /\ SqueezedOf(q) \subseteq SqueezedOf(s \o q)
    BY <2>2, ConcatIs, SqueezedConcat
  <2>4. QED
    BY <2>1, <2>2, <2>3 DEF Gives
<1>2. Extends(Log2, Log3) /\ Gives(Log3, 3)
  <2> DEFINE x == Put(Out(Run(<<"commit2">>), <<"root2">>))
             s == Log2 \o <<x>>
             a == StageTwoAirvalues(air)
             p == s \o a
             q == Squeeze(StageIds(3))
  <2>1. Log3 = p \o q
    BY DEF Log3, NStages
  <2>2. IsSeq(q) /\ Gives(q, 3)
    BY StageSqueezes DEF Gives
  <2>3. IsSeq(<<x>>) /\ IsSeq(a)
    BY TupleIsSeq, AirvaluesSeq
  <2>4. IsSeq(s) /\ Extends(Log2, s)
    BY <1>1, <2>3, ConcatIs, ConcatExtends
  <2> HIDE DEF a, s
  <2>5. IsSeq(p) /\ Extends(s, p)
    BY <2>3, <2>4, ConcatIs, ConcatExtends
  <2> HIDE DEF p, q
  <2>6. Extends(p, p \o q) /\ SqueezedOf(q) \subseteq SqueezedOf(p \o q)
    BY <2>2, <2>5, ConcatExtends, SqueezedConcat
  <2>7. Extends(Log2, p \o q)
    BY <2>4, <2>5, <2>6, ExtendsOn
  <2>8. QED
    BY <2>1, <2>2, <2>6, <2>7 DEF Gives
<1>3. Extends(Log3, Log4) /\ Gives(Log4, 4)
  <2>1. IsSeq(Log3) /\ NStages + 2 = 4
    BY <1>2 DEF Extends, NStages
  <2>2. QED
    BY <2>1, StageMore DEF Log4
<1>4. Extends(Log4, Log5) /\ Gives(Log5, 5)
  <2>1. IsSeq(Log4) /\ NStages + 3 = 5
    BY <1>3 DEF Extends, NStages
  <2>2. QED
    BY <2>1, StageMore DEF Log5
<1>5. QED
  BY <1>1, <1>2, <1>3, <1>4

\* The rounds.
LEMMA LogRoundsExtend ==
    ASSUME IsAir(air), ~air.recursive, NEW m \in Nat, NEW n \in Nat, m <= n
    PROVE  /\ Extends(Log5, LogRounds(m)) /\ Extends(LogRounds(m), LogRounds(n))
           /\ \A i \in 0..(n - 1) : Squeezed(<<"beta", i>>) \in SqueezedOf(LogRounds(n))
           /\ LogRounds(0) = Log5
           /\ LogRounds(m + 1) = LogRounds(m) \o << Put(FriRoot(m)) >> \o Squeeze(<< <<"beta", m>> >>)
<1>1. IsSeq(Log5)
  BY LogsExtend DEF Extends
<1>2. \A l \in Nat : IsSeq(FriRounds(l))
  BY FriRoundsAre
<1>3. Extends(Log5, LogRounds(m)) /\ IsSeq(LogRounds(m))
  BY <1>1, <1>2, ConcatExtends DEF LogRounds, Extends
<1>4. /\ Extends(FriRounds(m), FriRounds(n))
      /\ \A i \in 0..(n - 1) : Squeezed(<<"beta", i>>) \in SqueezedOf(FriRounds(n))
  BY RoundsExtend
<1>5. Extends(LogRounds(m), LogRounds(n))
  BY <1>1, <1>4, ConcatsExtend DEF LogRounds
<1>6. SqueezedOf(FriRounds(n)) \subseteq SqueezedOf(LogRounds(n))
  BY <1>1, <1>2, SqueezedConcat DEF LogRounds
<1>7. LogRounds(0) = Log5
  <2>1. FriRounds(0) = <<>>
    <3>1. IsSeq(FriRounds(0)) /\ Len(FriRounds(0)) = 0
      BY FriRoundsAre
    <3>2. QED
      BY <3>1, TupleIsSeq, SameSeq
  <2>2. QED
    BY <1>1, <2>1, ConcatEmpty DEF LogRounds
<1>8. LogRounds(m + 1) = LogRounds(m) \o << Put(FriRoot(m)) >> \o Squeeze(<< <<"beta", m>> >>)
  <2> DEFINE r == FriRounds(m)
             x == << Put(FriRoot(m)) >>
             n1 == <<"beta", m>>
  <2> HIDE DEF n1
  <2> DEFINE q == Squeeze(<<n1>>)
  <2>1. FriRounds(m + 1) = r \o (x \o q)
    BY FriRoundsAre DEF FriRound, n1
  <2>2. IsSeq(r) /\ IsSeq(x) /\ IsSeq(q)
    BY <1>2, TupleIsSeq, OneSqueezed
  <2> DEFINE l == Log5
             y == x \o q
             z == l \o r
  <2> HIDE DEF r, x, q, l
  <2>3. IsSeq(l) /\ IsSeq(y) /\ IsSeq(z)
    BY <1>1, <2>2, ConcatIs DEF l
  <2>4. z \o y = (z \o x) \o q
    <3> HIDE DEF z, y
    <3>1. IsSeq(z) /\ IsSeq(x) /\ IsSeq(q)
      BY <2>2, <2>3
    <3>2. (z \o x) \o q = z \o (x \o q)
      BY ONLY <3>1, ConcatAssoc
    <3>3. QED
      BY <3>2 DEF y
  <2>5. l \o (r \o y) = z \o y
    <3> HIDE DEF y, z
    <3>1. IsSeq(l) /\ IsSeq(r) /\ IsSeq(y)
      BY <2>2, <2>3
    <3>2. (l \o r) \o y = l \o (r \o y)
      BY ONLY <3>1, ConcatAssoc
    <3>3. QED
      BY <3>2 DEF z
  <2>6. QED
    BY <2>1, <2>4, <2>5 DEF LogRounds, r, x, q, n1, l
<1>9. QED
  BY <1>3, <1>4, <1>5, <1>6, <1>7, <1>8

LEMMA LogQueriesExtend ==
    ASSUME IsAir(air), ~air.recursive
    PROVE  /\ Extends(LogRounds(air.rounds), LogQueries)
           /\ Squeezed(<<"challenge">>) \in SqueezedOf(LogQueries)
<1> DEFINE s == LogRounds(air.rounds)
           x == << Absorb(air, Out(Run(<<"fri_final">>), <<"final_pol">>)) >>
           p == s \o x
           n == <<"challenge">>
<1> HIDE DEF n
<1> DEFINE q == Squeeze(<<n>>)
<1>1. LogQueries = p \o q
  BY DEF LogQueries, n
<1>2. IsSeq(q) /\ Squeezed(n) \in SqueezedOf(q)
  BY OneSqueezed
<1>3. IsSeq(s) /\ IsSeq(x)
  <2>1. air.rounds \in Nat
    BY AirIs
  <2>2. IsSeq(s)
    <3> DEFINE m == air.rounds
    <3>1. m \in Nat /\ m <= m
      BY <2>1
    <3> HIDE DEF m
    <3>2. Extends(Log5, LogRounds(m))
      BY <3>1, LogRoundsExtend
    <3>3. QED
      BY <3>2 DEF Extends, m
  <2>3. QED
    BY <2>2, TupleIsSeq
<1> HIDE DEF s, x, q
<1>4. IsSeq(p) /\ Extends(s, p)
  BY <1>3, ConcatIs, ConcatExtends
<1> HIDE DEF p
<1>5. Extends(p, p \o q) /\ SqueezedOf(q) \subseteq SqueezedOf(p \o q)
  BY <1>2, <1>4, ConcatExtends, SqueezedConcat
<1>6. Extends(s, p \o q)
  BY <1>4, <1>5, ExtendsOn
<1>7. QED
  BY <1>1, <1>2, <1>5, <1>6 DEF s, n

\* At every place the log is a beginning of the protocol, and has squeezed what
\* the programs ahead are given.
LEMMA LogKnows ==
    ASSUME IsAir(air), ~air.recursive, InPlace, pc # "idle"
    PROVE  /\ Extends(LogSoFar, LogQueries)
           /\ Gives(LogSoFar, 2)
           /\ Past("commit2") => Gives(LogSoFar, 3)
           /\ Past("quotient_commit") => Gives(LogSoFar, 4)
           /\ Past("evals_sum") => Gives(LogSoFar, 5)
           /\ \A i \in 0..(Committed - 1) : Squeezed(<<"beta", i>>) \in SqueezedOf(LogSoFar)
           /\ Past("fri_final") => Squeezed(<<"challenge">>) \in SqueezedOf(LogSoFar)
<1>1. air.rounds \in Nat /\ Committed \in 0..air.rounds
  <2>1. air.rounds \in Nat
    BY AirIs
  <2>2. QED
    BY <2>1 DEF Committed, InPlace, Rounds
<1>2. /\ Past("quotient_commit") => Past("commit2")
      /\ Past("evals_sum") => Past("quotient_commit")
      /\ Past("fri_final") => Past("evals_sum") /\ Committed = air.rounds
      /\ ~Past("evals_sum") => Committed = 0
  BY PlacesAre DEF Past, InPlace, Places, Committed
<1>3. /\ Extends(Log2, Log3) /\ Extends(Log3, Log4) /\ Extends(Log4, Log5)
      /\ Gives(Log2, 2) /\ Gives(Log3, 3) /\ Gives(Log4, 4) /\ Gives(Log5, 5)
  BY LogsExtend
<1>4. /\ Extends(Log5, LogRounds(Committed)) /\ Extends(LogRounds(Committed), LogRounds(air.rounds))
      /\ \A i \in 0..(Committed - 1) : Squeezed(<<"beta", i>>) \in SqueezedOf(LogRounds(Committed))
  <2> DEFINE m == Committed
             n == air.rounds
  <2>1. m \in Nat /\ n \in Nat /\ m <= n /\ m <= m
    BY <1>1
  <2> HIDE DEF m, n
  <2>2. Extends(Log5, LogRounds(m)) /\ Extends(LogRounds(m), LogRounds(n))
    BY <2>1, LogRoundsExtend
  <2>3. \A i \in 0..(m - 1) : Squeezed(<<"beta", i>>) \in SqueezedOf(LogRounds(m))
    BY <2>1, LogRoundsExtend
  <2>4. QED
    BY <2>2, <2>3 DEF m, n
<1>5. Extends(LogRounds(air.rounds), LogQueries) /\ Squeezed(<<"challenge">>) \in SqueezedOf(LogQueries)
  BY LogQueriesExtend
<1>6. Gives(Log3, 2) /\ Gives(Log4, 2) /\ Gives(Log4, 3) /\ Gives(Log5, 2) /\ Gives(Log5, 3) /\ Gives(Log5, 4)
  BY <1>3, GivesOn
<1>7. \A g \in 2..5 : Gives(Log5, g)
  BY <1>3, <1>6
<1>8. \A g \in 2..5 : Gives(LogRounds(Committed), g) /\ Gives(LogQueries, g)
  BY <1>4, <1>5, <1>7, GivesOn
<1>9. /\ Extends(LogRounds(Committed), LogQueries) /\ Extends(Log4, LogQueries)
      /\ Extends(Log3, LogQueries) /\ Extends(Log2, LogQueries)
  BY <1>3, <1>4, <1>5, ExtendsOn
<1>10. CASE Past("fri_final")
  <2>1. Extends(LogQueries, LogQueries)
    BY <1>9, ExtendsItself DEF Extends
  <2>2. \A i \in 0..(Committed - 1) : Squeezed(<<"beta", i>>) \in SqueezedOf(LogQueries)
    BY <1>4, <1>9, SqueezedStays
  <2>3. QED
    BY <1>5, <1>8, <1>10, <2>1, <2>2 DEF LogSoFar
<1>11. CASE ~Past("fri_final") /\ Past("evals_sum")
  BY <1>4, <1>8, <1>9, <1>11 DEF LogSoFar
<1>12. CASE ~Past("fri_final") /\ ~Past("evals_sum")
  <2>1. 0..(Committed - 1) = {}
    BY <1>2, <1>12
  <2>2. CASE Past("quotient_commit")
    BY <1>2, <1>3, <1>6, <1>9, <1>12, <2>1, <2>2 DEF LogSoFar
  <2>3. CASE ~Past("quotient_commit") /\ Past("commit2")
    BY <1>3, <1>6, <1>9, <1>12, <2>1, <2>3 DEF LogSoFar
  <2>4. CASE ~Past("quotient_commit") /\ ~Past("commit2")
    BY <1>3, <1>9, <1>12, <2>1, <2>4 DEF LogSoFar
  <2>5. QED
    BY <2>2, <2>3, <2>4
<1>13. QED
  BY <1>10, <1>11, <1>12
-----------------------------------------------------------------------------
(* The wire by place.                                                      *)

WireFirst ==
    << AirgroupvaluesOut(air), AirvaluesOut,
       Out(Run(<<"commit1">>), <<"root1">>), Out(Run(<<"commit2">>), <<"root2">>),
       Out(Run(<<"quotient_commit">>), <<"rootq">>), EvalsOut,
       Opening(Run(<<"open_const">>)) >>
CustomOpenings(m) == [j \in 1..m |-> Opening(Run(<<"open_custom", air.customs[j]>>))]
LayerOpenings(m) == [i \in 1..m |-> Opening(Run(<<"open_fri", i - 1>>))]
Roots == [i \in 1..air.rounds |-> FriRoot(i - 1)]
LastParts == << Out(Run(<<"fri_final">>), <<"final_pol">>), Out(Run(<<"grind">>), <<"nonce">>) >>

WireTrees(m) == WireFirst \o CustomOpenings(m)
WireCm1 == Append(WireTrees(Len(air.customs)), Opening(Run(<<"open_cm1">>)))
WireCm2 == Append(WireCm1, Opening(Run(<<"open_cm2">>)))
WireQsec == WireCm2 \o << Opening(Run(<<"open_qsec">>)) >> \o Roots
WireLayers(m) == WireQsec \o LayerOpenings(m)
WholeWire == WireLayers(air.rounds) \o LastParts

WireSoFar ==
    IF Past("open_qsec") THEN WireLayers(LayersOpened)
    ELSE IF Past("open_cm2") THEN WireCm2
    ELSE IF Past("open_cm1") THEN WireCm1
    ELSE IF Past("open_const") THEN WireTrees(Behind("custom", air.customs)) ELSE <<>>

\* A list by its elements: it begins a longer one, or the next one joins it.
IsList(s, n) == s = [j \in 1..n |-> s[j]]

LEMMA ListGrows ==
    ASSUME NEW m \in Nat, NEW n \in Nat, m <= n, NEW a, NEW b,
           IsList(a, m), IsList(b, n), \A j \in 1..m : a[j] = b[j]
    PROVE  /\ IsSeq(a) /\ IsSeq(b) /\ Extends(a, b)
           /\ n = m + 1 => Append(a, b[n]) = b
<1>1. IsSeq(a) /\ IsSeq(b) /\ Len(a) = m /\ Len(b) = n
  BY MapIsSeq DEF IsList
<1>2. IsPrefix(a, b)
  BY <1>1, PrefixIs
<1>3. ASSUME n = m + 1 PROVE Append(a, b[n]) = b
  <2> DEFINE x == b[n]
             t == <<x>>
             u == a \o t
  <2> HIDE DEF x
  <2>1. IsSeq(t) /\ Len(t) = 1 /\ t[1] = x
    BY TupleIsSeq
  <2> HIDE DEF t
  <2>2. /\ IsSeq(u) /\ Len(u) = m + 1 /\ \A j \in 1..m : u[j] = a[j]
        /\ u[m + 1] = x
    <3>0. IsSeq(a) /\ IsSeq(t)
      BY <1>1, <2>1
    <3>1. /\ IsSeq(u) /\ Len(u) = Len(a) + Len(t) /\ \A j \in 1..Len(a) : u[j] = a[j]
          /\ \A j \in 1..Len(t) : u[Len(a) + j] = t[j]
      BY ONLY <3>0, ConcatIs
    <3> HIDE DEF u
    <3>2. 1 \in 1..Len(t)
      BY <2>1
    <3>3. QED
      BY <1>1, <2>1, <3>1, <3>2
  <2>3. Append(a, x) = u
    BY <1>1, AppendIs DEF t
  <2> HIDE DEF u
  <2>4. \A j \in 1..Len(u) : u[j] = b[j]
    <3>1. ASSUME NEW j \in 1..(m + 1) PROVE u[j] = b[j]
      <4>1. CASE j \in 1..m
        BY <2>2, <4>1
      <4>2. CASE j \notin 1..m
        <5>1. j = m + 1
          BY <4>2
        <5>2. QED
          BY <1>3, <2>2, <5>1 DEF x
      <4>3. QED
        BY <4>1, <4>2
    <3>2. QED
      BY <2>2, <3>1
  <2>5. u = b
    BY <1>1, <1>3, <2>2, <2>4, SameSeq
  <2>6. QED
    BY <2>3, <2>5 DEF x
<1>4. QED
  BY <1>1, <1>2, <1>3 DEF Extends

LEMMA OpeningsGrow ==
    ASSUME NEW m \in Nat, NEW n \in Nat, m <= n
    PROVE  /\ Extends(CustomOpenings(m), CustomOpenings(n)) /\ Extends(LayerOpenings(m), LayerOpenings(n))
           /\ n = m + 1 => /\ Append(CustomOpenings(m), Opening(Run(<<"open_custom", air.customs[n]>>)))
                                = CustomOpenings(n)
                           /\ Append(LayerOpenings(m), Opening(Run(<<"open_fri", m>>))) = LayerOpenings(n)
<1> DEFINE custom(j) == Opening(Run(<<"open_custom", air.customs[j]>>))
           layer(i) == Opening(Run(<<"open_fri", i - 1>>))
<1>1. \A l : /\ CustomOpenings(l) = [j \in 1..l |-> custom(j)]
             /\ LayerOpenings(l) = [j \in 1..l |-> layer(j)]
  BY DEF CustomOpenings, LayerOpenings
<1>2. n = m + 1 => layer(n) = Opening(Run(<<"open_fri", m>>))
  BY DEF layer
<1> HIDE DEF custom, layer
<1>3. /\ Extends(CustomOpenings(m), CustomOpenings(n))
      /\ n = m + 1 => Append(CustomOpenings(m), custom(n)) = CustomOpenings(n)
  <2> DEFINE a == CustomOpenings(m)
             b == CustomOpenings(n)
  <2>1. IsList(a, m) /\ IsList(b, n) /\ \A j \in 1..n : b[j] = custom(j)
    BY <1>1 DEF IsList
  <2>3. \A j \in 1..m : a[j] = b[j]
    BY <1>1
  <2> HIDE DEF a, b
  <2>2. Extends(a, b) /\ (n = m + 1 => Append(a, b[n]) = b)
    BY <2>1, <2>3, ListGrows
  <2>4. n = m + 1 => n \in 1..n
    OBVIOUS
  <2>5. QED
    BY <2>1, <2>2, <2>4 DEF a, b
<1>4. /\ Extends(LayerOpenings(m), LayerOpenings(n))
      /\ n = m + 1 => Append(LayerOpenings(m), layer(n)) = LayerOpenings(n)
  <2> DEFINE a == LayerOpenings(m)
             b == LayerOpenings(n)
  <2>1. IsList(a, m) /\ IsList(b, n) /\ \A j \in 1..n : b[j] = layer(j)
    BY <1>1 DEF IsList
  <2>3. \A j \in 1..m : a[j] = b[j]
    BY <1>1
  <2> HIDE DEF a, b
  <2>2. Extends(a, b) /\ (n = m + 1 => Append(a, b[n]) = b)
    BY <2>1, <2>3, ListGrows
  <2>4. n = m + 1 => n \in 1..n
    OBVIOUS
  <2>5. QED
    BY <2>1, <2>2, <2>4 DEF a, b
<1>5. QED
  BY <1>2, <1>3, <1>4 DEF custom

\* One more behind what is there already.
LEMMA AppendBehind ==
    ASSUME NEW s, NEW t, NEW x, IsSeq(s), IsSeq(t)
    PROVE  Append(s \o t, x) = s \o Append(t, x)
<1> DEFINE y == <<x>>
           u == s \o t
<1>1. IsSeq(y) /\ IsSeq(u)
  BY TupleIsSeq, ConcatIs
<1>2. Append(t, x) = t \o y
  BY AppendIs
<1>3. Append(u, x) = u \o y
  <2> HIDE DEF u
  <2>1. QED
    BY <1>1, AppendIs
<1> HIDE DEF y
<1>4. u \o y = s \o (t \o y)
  BY <1>1, ConcatAssoc
<1>5. QED
  BY <1>2, <1>3, <1>4

LEMMA WireParts ==
    ASSUME IsAir(air)
    PROVE  /\ IsSeq(WireFirst) /\ IsSeq(Roots) /\ IsSeq(LastParts)
           /\ \A m \in Nat : IsSeq(CustomOpenings(m)) /\ IsSeq(LayerOpenings(m))
           /\ \A m \in Nat : IsSeq(WireTrees(m)) /\ IsSeq(WireLayers(m))
           /\ IsSeq(WireCm1) /\ IsSeq(WireCm2) /\ IsSeq(WireQsec)
<1>1. IsSeq(WireFirst) /\ IsSeq(LastParts)
  BY DEF IsSeq, WireFirst, LastParts
<1>2. IsSeq(Roots)
  <2>1. air.rounds \in Nat
    BY AirIs
  <2> DEFINE f == Roots
  <2>2. f = [i \in 1..air.rounds |-> f[i]]
    BY DEF Roots
  <2> HIDE DEF f
  <2>3. IsSeq(f)
    BY <2>1, <2>2, MapIsSeq
  <2>4. QED
    BY <2>3 DEF f
<1>3. ASSUME NEW m \in Nat PROVE IsSeq(CustomOpenings(m)) /\ IsSeq(LayerOpenings(m))
  <2>1. m <= m
    OBVIOUS
  <2>2. QED
    BY <2>1, OpeningsGrow DEF Extends
<1>4. ASSUME NEW m \in Nat PROVE IsSeq(WireTrees(m))
  BY <1>1, <1>3, ConcatIs DEF WireTrees
<1>5. \A s, x : IsSeq(s) => IsSeq(Append(s, x))
  BY TupleIsSeq, AppendIs, ConcatIs
<1>6. IsSeq(WireCm1) /\ IsSeq(WireCm2)
  <2>1. Len(air.customs) \in Nat
    BY AirIs
  <2>2. IsSeq(WireTrees(Len(air.customs)))
    BY <1>4, <2>1
  <2>3. QED
    BY <1>5, <2>2 DEF WireCm1, WireCm2
<1>7. IsSeq(WireQsec)
  <2> DEFINE x == << Opening(Run(<<"open_qsec">>)) >>
             s == WireCm2 \o x
  <2>1. IsSeq(x)
    BY TupleIsSeq
  <2> HIDE DEF x
  <2>2. IsSeq(s)
    BY <1>6, <2>1, ConcatIs
  <2> HIDE DEF s
  <2>3. IsSeq(s \o Roots)
    BY <1>2, <2>2, ConcatIs
  <2>4. QED
    BY <2>3 DEF WireQsec, s, x
<1>8. ASSUME NEW m \in Nat PROVE IsSeq(WireLayers(m))
  BY <1>3, <1>7, ConcatIs DEF WireLayers
<1>9. QED
  BY <1>1, <1>2, <1>3, <1>4, <1>6, <1>7, <1>8

\* The openings of the custom trees and of the layers are written one by one.
LEMMA WireGrows ==
    ASSUME IsAir(air), NEW m \in Nat, NEW n \in Nat, m <= n
    PROVE  /\ WireTrees(0) = WireFirst /\ WireLayers(0) = WireQsec
           /\ Append(WireTrees(m), Opening(Run(<<"open_custom", air.customs[m + 1]>>))) = WireTrees(m + 1)
           /\ Append(WireLayers(m), Opening(Run(<<"open_fri", m>>))) = WireLayers(m + 1)
           /\ Extends(WireTrees(m), WireTrees(n)) /\ Extends(WireLayers(m), WireLayers(n))
           /\ Extends(WireQsec, WireLayers(m))
<1>1. /\ IsSeq(WireFirst) /\ IsSeq(WireQsec)
      /\ \A l \in Nat : IsSeq(CustomOpenings(l)) /\ IsSeq(LayerOpenings(l))
  BY WireParts
<1>2. CustomOpenings(0) = <<>> /\ LayerOpenings(0) = <<>>
  BY DEF CustomOpenings, LayerOpenings
<1>3. WireTrees(0) = WireFirst /\ WireLayers(0) = WireQsec
  BY <1>1, <1>2, ConcatEmpty DEF WireTrees, WireLayers
<1>4. /\ Append(CustomOpenings(m), Opening(Run(<<"open_custom", air.customs[m + 1]>>))) = CustomOpenings(m + 1)
      /\ Append(LayerOpenings(m), Opening(Run(<<"open_fri", m>>))) = LayerOpenings(m + 1)
  <2> DEFINE l == m + 1
  <2>1. l \in Nat /\ m <= l /\ l = m + 1
    OBVIOUS
  <2> HIDE DEF l
  <2>2. /\ Append(CustomOpenings(m), Opening(Run(<<"open_custom", air.customs[l]>>))) = CustomOpenings(l)
        /\ Append(LayerOpenings(m), Opening(Run(<<"open_fri", m>>))) = LayerOpenings(l)
    BY <2>1, OpeningsGrow
  <2>3. QED
    BY <2>2 DEF l
<1>5. /\ Append(WireTrees(m), Opening(Run(<<"open_custom", air.customs[m + 1]>>))) = WireTrees(m + 1)
      /\ Append(WireLayers(m), Opening(Run(<<"open_fri", m>>))) = WireLayers(m + 1)
  <2> DEFINE c == CustomOpenings(m)
             l == LayerOpenings(m)
             x == Opening(Run(<<"open_custom", air.customs[m + 1]>>))
             y == Opening(Run(<<"open_fri", m>>))
             w == WireFirst
             q == WireQsec
  <2>1. IsSeq(c) /\ IsSeq(l) /\ IsSeq(w) /\ IsSeq(q)
    BY <1>1
  <2>2. Append(c, x) = CustomOpenings(m + 1) /\ Append(l, y) = LayerOpenings(m + 1)
    BY <1>4
  <2>3. WireTrees(m) = w \o c /\ WireLayers(m) = q \o l
    BY DEF WireTrees, WireLayers
  <2>4. WireTrees(m + 1) = w \o CustomOpenings(m + 1) /\ WireLayers(m + 1) = q \o LayerOpenings(m + 1)
    BY DEF WireTrees, WireLayers
  <2> HIDE DEF c, l, x, y, w, q
  <2>5. Append(w \o c, x) = w \o Append(c, x) /\ Append(q \o l, y) = q \o Append(l, y)
    BY ONLY <2>1, AppendBehind
  <2>6. QED
    BY <2>2, <2>3, <2>4, <2>5 DEF x, y
<1>6. Extends(CustomOpenings(m), CustomOpenings(n)) /\ Extends(LayerOpenings(m), LayerOpenings(n))
  BY OpeningsGrow
<1>7. Extends(WireTrees(m), WireTrees(n)) /\ Extends(WireLayers(m), WireLayers(n))
  BY <1>1, <1>6, ConcatsExtend DEF WireTrees, WireLayers
<1>8. Extends(WireQsec, WireLayers(m))
  BY <1>1, ConcatExtends DEF WireLayers
<1>9. QED
  BY <1>3, <1>5, <1>7, <1>8

LEMMA TuplesJoin ==
    ASSUME NEW a, NEW b, NEW c
    PROVE  <<b>> \o <<c>> = <<b, c>> /\ <<a>> \o <<b, c>> = <<a, b, c>>
<1> DEFINE x == <<a>>
           y == <<b>>
           z == <<c>>
           yz == <<b, c>>
           xyz == <<a, b, c>>
<1>1. /\ IsSeq(x) /\ IsSeq(y) /\ IsSeq(z) /\ IsSeq(yz) /\ IsSeq(xyz)
      /\ Len(x) = 1 /\ Len(y) = 1 /\ Len(z) = 1 /\ Len(yz) = 2 /\ Len(xyz) = 3
  BY TupleIsSeq
<1>2. /\ x[1] = a /\ y[1] = b /\ z[1] = c /\ yz[1] = b /\ yz[2] = c
      /\ xyz[1] = a /\ xyz[2] = b /\ xyz[3] = c
  OBVIOUS
<1> HIDE DEF x, y, z, yz, xyz
<1>3. y \o z = yz
  <2> DEFINE u == y \o z
  <2>1. IsSeq(u) /\ Len(u) = 2 /\ u[1] = y[1] /\ u[2] = z[1]
    <3>1. /\ IsSeq(u) /\ Len(u) = Len(y) + Len(z) /\ \A j \in 1..Len(y) : u[j] = y[j]
          /\ \A j \in 1..Len(z) : u[Len(y) + j] = z[j]
      <4>1. IsSeq(y) /\ IsSeq(z)
        BY <1>1
      <4>2. QED
        BY ONLY <4>1, ConcatIs
    <3> HIDE DEF u
    <3>2. 1 \in 1..1 /\ 1 + 1 = 2
      OBVIOUS
    <3>3. QED
      BY <1>1, <3>1, <3>2
  <2> HIDE DEF u
  <2>2. \A j \in 1..2 : u[j] = yz[j]
    <3>1. \A j \in 1..2 : j = 1 \/ j = 2
      OBVIOUS
    <3>2. QED
      BY <1>2, <2>1, <3>1
  <2>3. u = yz
    BY <1>1, <2>1, <2>2, SameSeq
  <2>4. QED
    BY <2>3 DEF u
<1>4. x \o yz = xyz
  <2> DEFINE u == x \o yz
  <2>1. IsSeq(u) /\ Len(u) = 3 /\ u[1] = x[1] /\ u[2] = yz[1] /\ u[3] = yz[2]
    <3>1. /\ IsSeq(u) /\ Len(u) = Len(x) + Len(yz) /\ \A j \in 1..Len(x) : u[j] = x[j]
          /\ \A j \in 1..Len(yz) : u[Len(x) + j] = yz[j]
      <4>1. IsSeq(x) /\ IsSeq(yz)
        BY <1>1
      <4>2. QED
        BY ONLY <4>1, ConcatIs
    <3> HIDE DEF u
    <3>2. 1 \in 1..1 /\ 1 \in 1..2 /\ 2 \in 1..2 /\ 1 + 1 = 2 /\ 1 + 2 = 3
      OBVIOUS
    <3>3. QED
      BY <1>1, <3>1, <3>2
  <2> HIDE DEF u
  <2>2. \A j \in 1..3 : u[j] = xyz[j]
    <3>1. \A j \in 1..3 : j = 1 \/ j = 2 \/ j = 3
      OBVIOUS
    <3>2. QED
      BY <1>2, <2>1, <3>1
  <2>3. u = xyz
    BY <1>1, <2>1, <2>2, SameSeq
  <2>4. QED
    BY <2>3 DEF u
<1>5. QED
  BY <1>3, <1>4 DEF x, y, z, yz, xyz

LEMMA WireIs == ASSUME IsAir(air) PROVE Wire(air) = WholeWire
<1> DEFINE n == Len(air.customs)
           t == WireTrees(n)
           a == Opening(Run(<<"open_cm1">>))
           b == Opening(Run(<<"open_cm2">>))
           c == Opening(Run(<<"open_qsec">>))
           first == WireFirst
           customs == CustomOpenings(n)
           layers_ == LayerOpenings(air.rounds)
<1>1. n \in Nat /\ DOMAIN air.customs = 1..n /\ air.rounds \in Nat
  BY AirIs
<1>2. Wire(air) = first \o customs \o <<a, b, c>> \o Roots \o layers_ \o LastParts
  BY <1>1 DEF Wire, WireFirst, CustomOpenings, LayerOpenings, Roots, LastParts
<1>3. t = first \o customs
  BY DEF WireTrees
<1>4. IsSeq(t)
  BY <1>1, WireParts
<1>5. WireCm2 = Append(Append(t, a), b) /\ WireQsec = WireCm2 \o <<c>> \o Roots
  BY DEF WireCm1, WireCm2, WireQsec
<1>6. WholeWire = WireQsec \o layers_ \o LastParts
  BY DEF WholeWire, WireLayers
<1> HIDE DEF t, a, b, c, first, customs, layers_
<1>7. t \o <<a, b, c>> = Append(Append(t, a), b) \o <<c>>
  <2> DEFINE x == <<a>>
             y == <<b>>
             z == <<c>>
             u == t \o x
             v == y \o z
             w == u \o y
  <2>1. IsSeq(x) /\ IsSeq(y) /\ IsSeq(z)
    BY TupleIsSeq
  <2>0. <<a, b, c>> = x \o v
    BY TuplesJoin
  <2>2. Append(t, a) = u
    BY <1>4, AppendIs
  <2> HIDE DEF x, z
  <2>3. IsSeq(u) /\ IsSeq(v)
    BY <1>4, <2>1, ConcatIs
  <2>4. u \o v = t \o (x \o v)
    <3> HIDE DEF v
    <3>1. IsSeq(t) /\ IsSeq(x) /\ IsSeq(v)
      BY <1>4, <2>1, <2>3
    <3>2. (t \o x) \o v = t \o (x \o v)
      BY ONLY <3>1, ConcatAssoc
    <3>3. QED
      BY <3>2
  <2> HIDE DEF u
  <2>5. Append(u, b) = w
    BY <2>3, AppendIs
  <2> HIDE DEF y
  <2>6. w \o z = u \o v
    BY <2>1, <2>3, ConcatAssoc
  <2> HIDE DEF v, w
  <2>7. QED
    BY <2>0, <2>1, <2>2, <2>4, <2>5, <2>6 DEF z
<1>8. QED
  BY <1>2, <1>3, <1>5, <1>6, <1>7

\* At every place the wire is a beginning of the whole proof.
LEMMA WireBegins ==
    ASSUME IsAir(air), InPlace, pc # "idle"
    PROVE  Extends(WireSoFar, Wire(air))
<1> DEFINE n == Len(air.customs)
           c == Behind("custom", air.customs)
           r == air.rounds
           l == LayersOpened
<1>1. n \in Nat /\ c \in 0..n /\ r \in Nat /\ l \in 0..r
  <2>1. n \in Nat /\ DOMAIN air.customs = 1..n /\ r \in Nat
    BY AirIs
  <2>2. QED
    BY <2>1 DEF Behind, LayersOpened, InPlace, Rounds
<1>2. /\ IsSeq(LastParts) /\ IsSeq(Roots) /\ IsSeq(WireCm1) /\ IsSeq(WireCm2) /\ IsSeq(WireQsec)
      /\ \A m \in Nat : IsSeq(WireTrees(m)) /\ IsSeq(WireLayers(m))
  BY WireParts
<1>3. Extends(WireLayers(r), WholeWire)
  BY <1>1, <1>2, ConcatExtends DEF WholeWire
<1>4. /\ Extends(WireTrees(c), WireTrees(n)) /\ Extends(WireLayers(l), WireLayers(r))
      /\ Extends(WireQsec, WireLayers(r))
  <2>1. c \in Nat /\ c <= n /\ l \in Nat /\ l <= r /\ r <= r /\ n \in Nat /\ r \in Nat
    BY <1>1
  <2> HIDE DEF n, c, r, l
  <2>2. QED
    BY <2>1, WireGrows
<1>5. /\ Extends(WireTrees(n), WireCm1) /\ Extends(WireCm1, WireCm2)
  <2> DEFINE s == WireTrees(n)
             x == Opening(Run(<<"open_cm1">>))
             y == Opening(Run(<<"open_cm2">>))
             u == WireCm1
  <2>1. IsSeq(s) /\ IsSeq(u) /\ WireCm1 = Append(s, x) /\ WireCm2 = Append(u, y)
    BY <1>1, <1>2 DEF WireCm1, WireCm2
  <2> HIDE DEF s, x, y, u
  <2>2. \A v, z : IsSeq(v) => Extends(v, Append(v, z))
    BY AppendIs, TupleIsSeq, ConcatExtends
  <2>3. Extends(s, Append(s, x)) /\ Extends(u, Append(u, y))
    BY <2>1, <2>2
  <2>4. QED
    BY <2>1, <2>3 DEF s, u
<1>6. Extends(WireCm2, WireQsec)
  <2> DEFINE x == << Opening(Run(<<"open_qsec">>)) >>
             w == WireCm2
             s == w \o x
             q == Roots
  <2>1. IsSeq(x) /\ IsSeq(w) /\ IsSeq(q) /\ WireQsec = s \o q
    BY <1>2, TupleIsSeq DEF WireQsec
  <2> HIDE DEF x, w, q
  <2>2. IsSeq(s) /\ Extends(w, s)
    BY <2>1, ConcatIs, ConcatExtends
  <2> HIDE DEF s
  <2>3. Extends(s, s \o q)
    BY <2>1, <2>2, ConcatExtends
  <2>4. QED
    BY <2>1, <2>2, <2>3, ExtendsOn DEF w
<1>7. /\ Extends(WireQsec, WholeWire) /\ Extends(WireLayers(l), WholeWire)
      /\ Extends(WireCm2, WholeWire) /\ Extends(WireCm1, WholeWire) /\ Extends(WireTrees(c), WholeWire)
  BY <1>3, <1>4, <1>5, <1>6, ExtendsOn
<1>8. Extends(<<>>, WholeWire)
  <2>1. IsSeq(WholeWire)
    BY <1>3 DEF Extends
  <2>2. IsPrefix(<<>>, WholeWire)
    BY <2>1, TupleIsSeq, PrefixIs, SeqIs
  <2>3. QED
    BY <2>1, <2>2, TupleIsSeq DEF Extends
<1>9. QED
  BY <1>7, <1>8, WireIs DEF WireSoFar
-----------------------------------------------------------------------------
(* The transcript and the wire follow the place.                           *)

Traced == pc # "idle" => log = LogSoFar /\ wire = WireSoFar

LogsKept ==
    /\ Past("fri_final")' <=> Past("fri_final")
    /\ Past("evals_sum")' <=> Past("evals_sum")
    /\ Past("quotient_commit")' <=> Past("quotient_commit")
    /\ Past("commit2")' <=> Past("commit2")
    /\ Past("evals_sum") => Committed' = Committed

WiresKept ==
    /\ Past("open_qsec")' <=> Past("open_qsec")
    /\ Past("open_cm2")' <=> Past("open_cm2")
    /\ Past("open_cm1")' <=> Past("open_cm1")
    /\ Past("open_const")' <=> Past("open_const")
    /\ Past("open_const") => Behind("custom", air.customs)' = Behind("custom", air.customs)
    /\ Past("open_qsec") => LayersOpened' = LayersOpened

LEMMA TableKept ==
    ASSUME air' = air
    PROVE  /\ Log2' = Log2 /\ Log3' = Log3 /\ Log4' = Log4 /\ Log5' = Log5 /\ LogQueries' = LogQueries
           /\ \A m : LogRounds(m)' = LogRounds(m)
           /\ WireFirst' = WireFirst /\ WireCm1' = WireCm1 /\ WireCm2' = WireCm2 /\ WireQsec' = WireQsec
           /\ \A m : WireTrees(m)' = WireTrees(m) /\ WireLayers(m)' = WireLayers(m)
<1>1. Log2' = Log2
  BY DEF Log2
<1>2. Log3' = Log3
  BY <1>1 DEF Log3
<1>3. Log4' = Log4
  BY <1>2 DEF Log4
<1>4. Log5' = Log5
  BY <1>3 DEF Log5
<1>5. \A m : LogRounds(m)' = LogRounds(m)
  BY <1>4 DEF LogRounds
<1>6. LogQueries' = LogQueries
  BY <1>4 DEF LogQueries, LogRounds
<1>7. WireFirst' = WireFirst
  BY DEF WireFirst
<1>8. \A m : WireTrees(m)' = WireTrees(m)
  BY <1>7 DEF WireTrees, CustomOpenings
<1>9. WireCm1' = WireCm1 /\ WireCm2' = WireCm2
  BY <1>7 DEF WireCm2, WireCm1, WireTrees, CustomOpenings
<1>10. WireQsec' = WireQsec
  BY <1>9 DEF WireQsec, Roots
<1>11. \A m : WireLayers(m)' = WireLayers(m)
  BY <1>10 DEF WireLayers, LayerOpenings
<1>12. QED
  BY <1>1, <1>2, <1>3, <1>4, <1>5, <1>6, <1>7, <1>8, <1>9, <1>10, <1>11

LEMMA LogKept == ASSUME air' = air, LogsKept PROVE LogSoFar' = LogSoFar
BY TableKept DEF LogSoFar, LogsKept

LEMMA WireKept == ASSUME air' = air, WiresKept PROVE WireSoFar' = WireSoFar
BY TableKept DEF WireSoFar, WiresKept

\* Up to the queries nothing is on the wire.
BeforeWire ==
    { "idle", "witness_calc", "commit1", "logup", "commit2", "quotient", "quotient_commit",
      "lev", "evals", "evals_sum", "deep", "deep_concat", "commit", "fold", "fri_final", "grind", "open_const" }

LEMMA NoWireYet == ASSUME pc \in BeforeWire PROVE WireSoFar = <<>>
BY PlacesAre DEF BeforeWire, WireSoFar, Past

LEMMA StillNoWire ==
    ASSUME Traced, pc \in BeforeWire \ {"idle"}, pc' \in BeforeWire, wire' = wire
    PROVE  wire' = WireSoFar'
<1>1. wire' = <<>>
  BY NoWireYet DEF Traced
<1>2. WireSoFar' = <<>>
  BY PlacesAre DEF BeforeWire, WireSoFar, Past
<1>3. QED
  BY <1>1, <1>2

\* After the queries nothing enters the transcript.
LEMMA LogIsOver == ASSUME Past("fri_final") PROVE LogSoFar = LogQueries
BY DEF LogSoFar

\* What the steps put into the transcript.
LEMMA LogOfCommit2 == ASSUME IInv, log = LogSoFar, Commit2 PROVE log' = LogSoFar'
<1> DEFINE run == Run(<<"commit2">>)
           outs == { <<"root2">>, <<"cm2_ext">>, <<"cm2_layers">> }
           after == RunInto(env, run)
           committed == Without(after, { <<"cm2">> })
           x == committed[<<"root2">>]
           a == env[<<"airvalues">>]
<1>1. pc = "commit2" /\ pc' = "quotient" /\ k' = 1 /\ air' = air /\ EnvHolds
  BY DEF Commit2, At, Kept, IInv, EnvIs
<1>2. log' = log \o << Put(x) >> \o [j \in DOMAIN StageTwo(air) |-> Put(<<a[1], <<"airvalue", StageTwo(air)[j]>>>>)]
                 \o Squeeze(StageIds(NStages + 1))
  BY <1>1 DEF Commit2, NextRun
<1>3. x = Out(run, <<"root2">>)
  <2>1. OutsOf(run) = outs /\ <<>> \notin outs
    BY StagePrograms, ProgramIs, RunName DEF OutsOf
  <2>2. DOMAIN after = outs \cup DOMAIN env /\ \A n \in outs : after[n] = Out(run, n)
    <3>1. IsRunInto(after, env, run)
      <4> HIDE DEF outs, run
      <4>1. QED
        BY <2>1, RunIntoIs
    <3>2. QED
      BY <2>1, <3>1 DEF IsRunInto
  <2>3. <<"root2">> \in outs /\ <<"root2">> # <<"cm2">>
    OBVIOUS
  <2> HIDE DEF outs, run, after
  <2> DEFINE gone == { <<"cm2">> }
  <2>4. <<"root2">> \in DOMAIN after \ gone
    BY <2>2, <2>3
  <2> HIDE DEF gone
  <2>5. \A n \in DOMAIN after \ gone : Without(after, gone)[n] = after[n]
    BY WithoutIs
  <2>6. QED
    BY <2>2, <2>3, <2>4, <2>5 DEF gone
<1>4. a[1] = AirvaluesOut[1]
  <2>1. <<"airvalues">> \in EnvNames /\ Means(<<"airvalues">>) = AirvaluesOut
    BY <1>1, PlacesAre DEF EnvNames, InstanceNames, Scalars, Only, Means, Past
  <2>2. QED
    BY <1>1, <2>1 DEF EnvHolds
<1> HIDE DEF x, a
<1>5. log' = log \o << Put(Out(Run(<<"commit2">>), <<"root2">>)) >> \o StageTwoAirvalues(air)
                 \o Squeeze(StageIds(NStages + 1))
  BY <1>2, <1>3, <1>4 DEF StageTwoAirvalues
<1>6. LogSoFar = Log2 /\ LogSoFar' = Log3
  BY <1>1, PlacesAre, TableKept DEF LogSoFar, Past
<1>7. QED
  BY <1>5, <1>6 DEF Log3

LEMMA LogOfQuotientCommit == ASSUME log = LogSoFar, QuotientCommit PROVE log' = LogSoFar'
<1>1. pc = "quotient_commit" /\ pc' = "lev" /\ air' = air
  BY DEF QuotientCommit, At, Kept
<1>2. log' = log \o << Put(Out(Run(<<"quotient_commit">>), <<"rootq">>)) >> \o Squeeze(StageIds(NStages + 2))
  BY <1>1 DEF QuotientCommit, Value, NextRun
<1>3. LogSoFar = Log3 /\ LogSoFar' = Log4
  BY <1>1, PlacesAre, TableKept DEF LogSoFar, Past
<1>4. QED
  BY <1>2, <1>3 DEF Log4

LEMMA LogOfEvalsSum == ASSUME IInv, log = LogSoFar, EvalsSum PROVE log' = LogSoFar'
<1>1. pc = "evals_sum" /\ pc' = "deep" /\ air' = air /\ IsAir(air) /\ ~air.recursive
  BY AirsAssumption, DriverAssumption DEF EvalsSum, At, Kept, IInv
<1>2. log' = log \o << Absorb(air, EvalsOut) >> \o Squeeze(StageIds(NStages + 3))
  BY <1>1 DEF EvalsSum, Value, NextRun, EvalsOut
<1>3. LogRounds(0) = Log5
  <2>1. 0 \in Nat /\ 0 <= 0
    OBVIOUS
  <2>2. QED
    BY <1>1, <2>1, LogRoundsExtend
<1>4. Committed' = 0
  BY <1>1, PlacesAre DEF Committed, Past
<1>5. LogSoFar = Log4 /\ LogSoFar' = LogRounds(0)
  <2>1. LogSoFar = Log4
    BY <1>1, PlacesAre DEF LogSoFar, Past
  <2>2. LogSoFar' = LogRounds(Committed)'
    BY <1>1, PlacesAre DEF LogSoFar, Past
  <2>3. LogRounds(Committed)' = LogRounds(0)
    BY <1>1, <1>4, TableKept DEF LogRounds
  <2>4. QED
    BY <2>1, <2>2, <2>3
<1>6. QED
  BY <1>2, <1>3, <1>5 DEF Log5

LEMMA LogOfFriCommit == ASSUME IInv, log = LogSoFar, FriCommit PROVE log' = LogSoFar'
<1>1. /\ pc = "commit" /\ pc' = "fold" /\ k' = k /\ air' = air /\ IsAir(air) /\ ~air.recursive
      /\ k \in Nat
  <2>1. pc = "commit" /\ pc' = "fold" /\ k' = k /\ air' = air /\ IsAir(air) /\ ~air.recursive /\ InPlace
    BY AirsAssumption, DriverAssumption DEF FriCommit, At, Kept, IInv
  <2>2. air.rounds \in Nat
    BY <2>1, AirIs
  <2>3. QED
    BY <2>1, <2>2 DEF InPlace, Rounds
<1>2. log' = log \o << Put(FriRoot(k)) >> \o Squeeze(<< <<"beta", k>> >>)
  BY <1>1 DEF FriCommit, Value, NextRun, FriRoot
<1>3. LogRounds(k + 1) = LogRounds(k) \o << Put(FriRoot(k)) >> \o Squeeze(<< <<"beta", k>> >>)
  <2>1. k <= k
    BY <1>1
  <2>2. QED
    BY <1>1, <2>1, LogRoundsExtend
<1>4. Committed = k /\ Committed' = k + 1
  BY <1>1, PlacesAre DEF Committed, Past
<1>5. LogSoFar = LogRounds(k) /\ LogSoFar' = LogRounds(k + 1)
  <2>1. LogSoFar = LogRounds(k)
    BY <1>1, <1>4, PlacesAre DEF LogSoFar, Past
  <2>2. LogSoFar' = LogRounds(Committed)'
    BY <1>1, PlacesAre DEF LogSoFar, Past
  <2>3. LogRounds(Committed)' = LogRounds(k + 1)
    BY <1>1, <1>4, TableKept DEF LogRounds
  <2>4. QED
    BY <2>1, <2>2, <2>3
<1>6. QED
  BY <1>2, <1>3, <1>5

LEMMA LogOfFriFinal == ASSUME IInv, log = LogSoFar, FriFinal PROVE log' = LogSoFar'
<1>1. pc = "fri_final" /\ pc' = "grind" /\ air' = air
  BY DEF FriFinal, At, Kept
<1>2. log' = log \o << Absorb(air, Out(Run(<<"fri_final">>), <<"final_pol">>)) >> \o Squeeze(<< <<"challenge">> >>)
  BY <1>1 DEF FriFinal, Value, NextRun
<1>3. Committed = air.rounds
  BY <1>1, PlacesAre DEF Committed, Past
<1>4. LogSoFar = LogRounds(air.rounds) /\ LogSoFar' = LogQueries
  BY <1>1, <1>3, PlacesAre, TableKept DEF LogSoFar, Past
<1>5. QED
  BY <1>2, <1>4 DEF LogQueries

LEMMA LogOfFriFold == ASSUME IInv, log = LogSoFar, FriFold PROVE log' = LogSoFar'
<1>1. /\ pc = "fold" /\ air' = air /\ log' = log
      /\ \/ pc' = "commit" /\ k' = k + 1
         \/ pc' = "fri_final" /\ ~(k + 1 < air.rounds)
  BY DEF FriFold, At, Kept, ToRound
<1>2. k \in Rounds(air) /\ air.rounds \in Nat
  <2>1. InPlace /\ IsAir(air)
    BY AirsAssumption DEF IInv
  <2>2. QED
    BY <1>1, <2>1, AirIs DEF InPlace
<1>3. Committed = k + 1 /\ Committed' = k + 1
  <2>1. Committed = k + 1
    BY <1>1, PlacesAre DEF Committed, Past
  <2>2. CASE pc' = "commit" /\ k' = k + 1
    BY <2>1, <2>2, PlacesAre DEF Committed, Past
  <2>3. CASE pc' = "fri_final" /\ ~(k + 1 < air.rounds)
    <3>1. air.rounds = k + 1
      BY <1>2, <2>3 DEF Rounds
    <3>2. Committed' = air'.rounds
      BY <2>3, PlacesAre DEF Committed, Past
    <3>3. QED
      BY <1>1, <2>1, <3>1, <3>2
  <2>4. QED
    BY <1>1, <2>2, <2>3
<1>4. LogsKept
  BY <1>1, <1>3, PlacesAre DEF LogsKept, Past
<1>5. QED
  BY <1>1, <1>4, LogKept

LEMMA LogOfDeepConcat == ASSUME IInv, log = LogSoFar, DeepConcat PROVE log' = LogSoFar'
<1>1. /\ pc = "deep_concat" /\ air' = air /\ log' = log
      /\ \/ pc' = "commit" /\ k' = 0
         \/ pc' = "fri_final" /\ ~(0 < air.rounds)
  BY DEF DeepConcat, At, Kept, ToRound
<1>2. air.rounds \in Nat
  BY AirsAssumption, AirIs DEF IInv
<1>3. Committed = 0 /\ Committed' = 0
  <2>1. Committed = 0
    BY <1>1, PlacesAre DEF Committed, Past
  <2>2. CASE pc' = "commit" /\ k' = 0
    BY <2>1, <2>2, PlacesAre DEF Committed, Past
  <2>3. CASE pc' = "fri_final" /\ ~(0 < air.rounds)
    <3>1. air.rounds = 0
      BY <1>2, <2>3
    <3>2. Committed' = air'.rounds
      BY <2>3, PlacesAre DEF Committed, Past
    <3>3. QED
      BY <1>1, <2>1, <3>1, <3>2
  <2>4. QED
    BY <1>1, <2>2, <2>3
<1>4. LogsKept
  BY <1>1, <1>3, PlacesAre DEF LogsKept, Past
<1>5. QED
  BY <1>1, <1>4, LogKept

\* What the steps write.
LEMMA EnvValue == ASSUME EnvHolds, NEW n \in EnvNames, NEW v, Means(n) = v PROVE env[n] = v
BY DEF EnvHolds

LEMMA WireOfOpenConst == ASSUME IInv, OpenConst PROVE wire' = WireSoFar'
<1>1. /\ pc = "open_const" /\ air' = air /\ wire' = WireHead \o << Opening(Run(<<"open_const">>)) >>
      /\ \/ air.customs = <<>> /\ pc' = "open_cm1" /\ k' = 0
         \/ pc' = "custom" /\ k' = 1
  BY DEF OpenConst, At, Kept, Value, NextRun, Opening
<1>2. IsAir(air) /\ EnvHolds
  BY <1>1, AirsAssumption DEF IInv, EnvIs
<1> DEFINE a == AirgroupvaluesOut(air)
           b == AirvaluesOut
           c == Out(Run(<<"commit1">>), <<"root1">>)
           d == Out(Run(<<"commit2">>), <<"root2">>)
           e == Out(Run(<<"quotient_commit">>), <<"rootq">>)
           f == EvalsOut
           g == Opening(Run(<<"open_const">>))
<1>3. /\ env[<<"airgroupvalues">>] = a /\ env[<<"airvalues">>] = b /\ env[<<"root1">>] = c
      /\ env[<<"root2">>] = d /\ env[<<"rootq">>] = e /\ env[<<"evals">>] = f
  <2>1. /\ <<"airgroupvalues">> \in EnvNames /\ <<"airvalues">> \in EnvNames /\ <<"root1">> \in EnvNames
        /\ <<"root2">> \in EnvNames /\ <<"rootq">> \in EnvNames /\ <<"evals">> \in EnvNames
    BY <1>1, PlacesAre DEF EnvNames, InstanceNames, Scalars, Only, Past
  <2>2. /\ Means(<<"airgroupvalues">>) = a /\ Means(<<"airvalues">>) = b /\ Means(<<"root1">>) = c
        /\ Means(<<"root2">>) = d /\ Means(<<"rootq">>) = e /\ Means(<<"evals">>) = f
    BY <1>1, PlacesAre DEF Means, Past
  <2>3. QED
    BY <1>2, <2>1, <2>2, EnvValue
<1>4. WireHead = <<a, b, c, d, e, f>>
  BY <1>3 DEF WireHead
<1>5. WireFirst = <<a, b, c, d, e, f, g>>
  BY DEF WireFirst
<1> HIDE DEF a, b, c, d, e, f
<1>6. <<a, b, c, d, e, f>> \o <<g>> = <<a, b, c, d, e, f, g>>
  <2> DEFINE s == <<a, b, c, d, e, f>>
             t == <<g>>
             w == <<a, b, c, d, e, f, g>>
             u == s \o t
  <2> HIDE DEF g
  <2>1. IsSeq(s) /\ IsSeq(t) /\ IsSeq(w)
    BY DEF IsSeq
  <2>2. /\ Len(s) = 6 /\ Len(t) = 1 /\ Len(w) = 7 /\ t[1] = w[7]
        /\ s[1] = w[1] /\ s[2] = w[2] /\ s[3] = w[3] /\ s[4] = w[4] /\ s[5] = w[5] /\ s[6] = w[6]
    OBVIOUS
  <2> HIDE DEF s, t, w
  <2>3. /\ IsSeq(u) /\ Len(u) = Len(s) + Len(t) /\ \A j \in 1..Len(s) : u[j] = s[j]
        /\ \A j \in 1..Len(t) : u[Len(s) + j] = t[j]
    <3>1. IsSeq(s) /\ IsSeq(t)
      BY <2>1
    <3>2. QED
      BY ONLY <3>1, ConcatIs
  <2> HIDE DEF u
  <2>4. Len(u) = 7 /\ u[7] = w[7] /\ \A j \in 1..6 : u[j] = s[j]
    <3>1. 1 \in 1..1 /\ 6 + 1 = 7
      OBVIOUS
    <3>2. QED
      BY <2>2, <2>3, <3>1
  <2>5. \A j \in 1..6 : u[j] = w[j]
    <3>1. \A j \in 1..6 : j = 1 \/ j = 2 \/ j = 3 \/ j = 4 \/ j = 5 \/ j = 6
      OBVIOUS
    <3>2. \A j \in 1..6 : s[j] = w[j]
      BY <2>2, <3>1
    <3>3. QED
      BY <2>4, <3>2
  <2>6. \A j \in 1..7 : u[j] = w[j]
    <3>1. \A j \in 1..7 : j \in 1..6 \/ j = 7
      OBVIOUS
    <3>2. QED
      BY <2>4, <2>5, <3>1
  <2>7. u = w
    BY <2>1, <2>2, <2>3, <2>4, <2>6, SameSeq
  <2>8. QED
    BY <2>7 DEF u, s, t, w
<1>7. wire' = WireFirst
  BY <1>1, <1>4, <1>5, <1>6
<1>8. Behind("custom", air.customs)' = 0
  <2>1. CASE air.customs = <<>> /\ pc' = "open_cm1"
    BY <1>1, <2>1, PlacesAre, TupleIsSeq DEF Behind, Past
  <2>2. CASE pc' = "custom" /\ k' = 1
    BY <1>1, <2>2, PlacesAre DEF Behind, Past
  <2>3. QED
    BY <1>1, <2>1, <2>2
<1>9. WireSoFar' = WireTrees(0)
  <2>1. WireSoFar' = WireTrees(Behind("custom", air.customs))'
    BY <1>1, PlacesAre DEF WireSoFar, Past
  <2>2. WireFirst' = WireFirst
    BY <1>1, TableKept
  <2>3. WireTrees(Behind("custom", air.customs))' = WireTrees(0)
    BY <1>1, <1>8, <2>2 DEF WireTrees, CustomOpenings
  <2>4. QED
    BY <2>1, <2>3
<1>10. WireTrees(0) = WireFirst
  <2>1. 0 \in Nat /\ 0 <= 0
    OBVIOUS
  <2>2. QED
    BY <1>2, <2>1, WireGrows
<1>11. QED
  BY <1>7, <1>9, <1>10

LEMMA WireOfOpenCustom == ASSUME IInv, wire = WireSoFar, OpenCustom PROVE wire' = WireSoFar'
<1>1. /\ pc = "custom" /\ air' = air /\ wire' = Append(wire, Opening(Run(<<"open_custom", air.customs[k]>>)))
      /\ \/ k < Len(air.customs) /\ pc' = "custom" /\ k' = k + 1
         \/ ~(k < Len(air.customs)) /\ pc' = "open_cm1"
  BY DEF OpenCustom, At, Kept, Value, NextRun, Opening
<1>2. IsAir(air) /\ Len(air.customs) \in Nat /\ k \in 1..Len(air.customs)
  <2>1. IsAir(air) /\ InPlace
    BY AirsAssumption DEF IInv
  <2>2. QED
    BY <1>1, <2>1, AirIs DEF InPlace
<1>3. Behind("custom", air.customs) = k - 1 /\ Behind("custom", air.customs)' = k
  <2>1. Behind("custom", air.customs) = k - 1
    BY <1>1, PlacesAre DEF Behind, Past
  <2>2. CASE pc' = "custom" /\ k' = k + 1
    BY <1>1, <1>2, <2>2, PlacesAre DEF Behind, Past
  <2>3. CASE ~(k < Len(air.customs)) /\ pc' = "open_cm1"
    <3>1. Len(air.customs) = k
      BY <1>2, <2>3
    <3>2. Behind("custom", air.customs)' = Len(air'.customs)
      BY <2>3, PlacesAre DEF Behind, Past
    <3>3. QED
      BY <1>1, <2>1, <3>1, <3>2
  <2>4. QED
    BY <1>1, <2>1, <2>2, <2>3
<1>4. WireSoFar = WireTrees(k - 1)
  BY <1>1, <1>3, PlacesAre DEF WireSoFar, Past
<1>5. WireSoFar' = WireTrees(k)
  <2>1. WireSoFar' = WireTrees(Behind("custom", air.customs))'
    BY <1>1, PlacesAre DEF WireSoFar, Past
  <2>2. WireFirst' = WireFirst
    BY <1>1, TableKept
  <2>3. WireTrees(Behind("custom", air.customs))' = WireTrees(k)
    BY <1>1, <1>3, <2>2 DEF WireTrees, CustomOpenings
  <2>4. QED
    BY <2>1, <2>3
<1>6. Append(WireTrees(k - 1), Opening(Run(<<"open_custom", air.customs[k]>>))) = WireTrees(k)
  <2> DEFINE m == k - 1
  <2>1. m \in Nat /\ m <= m /\ m + 1 = k
    BY <1>2
  <2> HIDE DEF m
  <2>2. Append(WireTrees(m), Opening(Run(<<"open_custom", air.customs[m + 1]>>))) = WireTrees(m + 1)
    BY <1>2, <2>1, WireGrows
  <2>3. QED
    BY <2>1, <2>2 DEF m
<1>7. QED
  BY <1>1, <1>4, <1>5, <1>6

LEMMA WireOfOpenCm1 == ASSUME wire = WireSoFar, OpenCm1 PROVE wire' = WireSoFar'
<1>1. pc = "open_cm1" /\ pc' = "open_cm2" /\ air' = air /\ wire' = Append(wire, Opening(Run(<<"open_cm1">>)))
  BY DEF OpenCm1, OpenStage, At, Kept, Value, NextRun, Opening
<1>2. Behind("custom", air.customs) = Len(air.customs)
  BY <1>1, PlacesAre DEF Behind, Past
<1>3. WireSoFar = WireTrees(Len(air.customs)) /\ WireSoFar' = WireCm1
  BY <1>1, <1>2, PlacesAre, TableKept DEF WireSoFar, Past
<1>4. QED
  BY <1>1, <1>3 DEF WireCm1

LEMMA WireOfOpenCm2 == ASSUME wire = WireSoFar, OpenCm2 PROVE wire' = WireSoFar'
<1>1. pc = "open_cm2" /\ pc' = "open_qsec" /\ air' = air /\ wire' = Append(wire, Opening(Run(<<"open_cm2">>)))
  BY DEF OpenCm2, OpenStage, At, Kept, Value, NextRun, Opening
<1>2. WireSoFar = WireCm1 /\ WireSoFar' = WireCm2
  BY <1>1, PlacesAre, TableKept DEF WireSoFar, Past
<1>3. QED
  BY <1>1, <1>2 DEF WireCm2

\* The layers' roots are those of the rounds.
LEMMA RootsInLayers ==
    ASSUME IInv, pc = "open_qsec"
    PROVE  [i \in DOMAIN layers |-> layers[i][<<"fri_root", i - 1>>]] = Roots
<1>1. LayersAre /\ air.rounds \in Nat
  BY AirsAssumption, AirIs DEF IInv, EnvIs
<1>2. Committed = air.rounds /\ LayersOpened = 0
  BY PlacesAre DEF Committed, LayersOpened, Past
<1>3. DOMAIN layers = 1..air.rounds /\ \A i \in 1..air.rounds : LayerHolds(layers[i], i - 1)
  BY <1>1, <1>2 DEF LayersAre
<1>4. \A i \in 1..air.rounds : layers[i][<<"fri_root", i - 1>>] = FriRoot(i - 1)
  BY <1>3 DEF LayerHolds, FriRoot
<1>5. QED
  BY <1>3, <1>4 DEF Roots

LEMMA WireOfOpenQsec == ASSUME IInv, wire = WireSoFar, OpenQsec PROVE wire' = WireSoFar'
<1>1. /\ pc = "open_qsec" /\ air' = air /\ k' = 0
      /\ wire' = wire \o << Opening(Run(<<"open_qsec">>)) >> \o [i \in DOMAIN layers |-> layers[i][<<"fri_root", i - 1>>]]
      /\ \/ pc' = "layers"
         \/ pc' = "end" /\ ~(air.rounds > 0)
  BY DEF OpenQsec, At, Kept, Value, NextRun, Opening
<1>2. IsAir(air) /\ air.rounds \in Nat
  BY AirsAssumption, AirIs DEF IInv
<1>3. WireSoFar = WireCm2
  BY <1>1, PlacesAre DEF WireSoFar, Past
<1>4. wire' = WireQsec
  BY <1>1, <1>3, RootsInLayers DEF WireQsec
<1>5. LayersOpened' = 0
  BY <1>1, <1>2, PlacesAre DEF LayersOpened, Past
<1>6. WireSoFar' = WireLayers(0)
  <2>1. WireSoFar' = WireLayers(LayersOpened)'
    BY <1>1, PlacesAre DEF WireSoFar, Past
  <2>2. WireQsec' = WireQsec
    BY <1>1, TableKept
  <2>3. WireLayers(LayersOpened)' = WireLayers(0)
    BY <1>1, <1>5, <2>2 DEF WireLayers, LayerOpenings
  <2>4. QED
    BY <2>1, <2>3
<1>7. WireLayers(0) = WireQsec
  <2>1. 0 \in Nat /\ 0 <= 0
    OBVIOUS
  <2>2. QED
    BY <1>2, <2>1, WireGrows
<1>8. QED
  BY <1>4, <1>6, <1>7

LEMMA WireOfOpenLayer == ASSUME IInv, wire = WireSoFar, OpenLayer PROVE wire' = WireSoFar'
<1>1. /\ pc = "layers" /\ air' = air /\ wire' = Append(wire, Opening(Run(<<"open_fri", k>>)))
      /\ \/ k + 1 < air.rounds /\ pc' = "layers" /\ k' = k + 1
         \/ ~(k + 1 < air.rounds) /\ pc' = "end"
  BY DEF OpenLayer, At, Kept, Value, NextRun, Opening
<1>2. IsAir(air) /\ air.rounds \in Nat /\ k \in Rounds(air) /\ k \in Nat
  <2>1. IsAir(air) /\ InPlace
    BY AirsAssumption DEF IInv
  <2>2. QED
    BY <1>1, <2>1, AirIs DEF InPlace, Rounds
<1>3. LayersOpened = k /\ LayersOpened' = k + 1
  <2>1. LayersOpened = k
    BY <1>1, PlacesAre DEF LayersOpened, Past
  <2>2. CASE pc' = "layers" /\ k' = k + 1
    BY <1>1, <2>2, PlacesAre DEF LayersOpened, Past
  <2>3. CASE ~(k + 1 < air.rounds) /\ pc' = "end"
    <3>1. air.rounds = k + 1
      BY <1>2, <2>3 DEF Rounds
    <3>2. QED
      BY <1>1, <2>1, <2>3, <3>1, PlacesAre DEF LayersOpened, Past
  <2>4. QED
    BY <1>1, <2>1, <2>2, <2>3
<1>4. WireSoFar = WireLayers(k)
  BY <1>1, <1>3, PlacesAre DEF WireSoFar, Past
<1>5. WireSoFar' = WireLayers(k + 1)
  <2>1. WireSoFar' = WireLayers(LayersOpened)'
    BY <1>1, PlacesAre DEF WireSoFar, Past
  <2>2. WireQsec' = WireQsec
    BY <1>1, TableKept
  <2>3. WireLayers(LayersOpened)' = WireLayers(k + 1)
    BY <1>1, <1>3, <2>2 DEF WireLayers, LayerOpenings
  <2>4. QED
    BY <2>1, <2>3
<1>6. Append(WireLayers(k), Opening(Run(<<"open_fri", k>>))) = WireLayers(k + 1)
  <2>1. k <= k
    BY <1>2
  <2>2. QED
    BY <1>2, <2>1, WireGrows
<1>7. QED
  BY <1>1, <1>4, <1>5, <1>6

LEMMA StartTraced ==
    ASSUME ~air.recursive, NEW keeps \in BOOLEAN, StartProve(keeps)
    PROVE  /\ air' = air /\ ran' = SetupRan
           /\ log' = Log2 /\ wire' = <<>>
           /\ log' = LogSoFar' /\ wire' = WireSoFar'
<1>1. /\ air' = air /\ wire' = <<>> /\ pc' \in { "witness_calc", "commit1" } /\ ran' = SetupRan
  BY DEF StartProve, At
<1>2. log' = Log2
  BY DEF StartProve, Log2, Seed
<1>3. LogSoFar' = Log2
  BY <1>1, PlacesAre, TableKept DEF LogSoFar, Past
<1>4. WireSoFar' = <<>>
  BY <1>1, PlacesAre DEF WireSoFar, Past
<1>5. QED
  BY <1>1, <1>2, <1>3, <1>4

\* The steps that neither absorb nor write.
QuietSteps == WitnessCalc \/ Commit1 \/ LogUp \/ Quotient \/ Lev \/ Evals \/ Deep \/ Grind

LEMMA QuietTraced ==
    ASSUME IInv, Traced, QuietSteps
    PROVE  log' = LogSoFar' /\ wire' = WireSoFar' /\ log' = log /\ wire' = wire
<1>1. /\ air' = air /\ log' = log /\ wire' = wire
      /\ \/ pc = "witness_calc" /\ pc' = "commit1"
         \/ pc = "commit1" /\ pc' = "logup"
         \/ pc = "logup" /\ pc' = "commit2"
         \/ pc = "quotient" /\ pc' \in { "quotient", "quotient_commit" }
         \/ pc = "lev" /\ pc' = "evals"
         \/ pc = "evals" /\ pc' \in { "evals", "evals_sum" }
         \/ pc = "deep" /\ pc' \in { "deep", "deep_concat" }
         \/ pc = "grind" /\ pc' = "open_const"
  BY DEF QuietSteps, WitnessCalc, Commit1, LogUp, Quotient, Lev, Evals, Deep, Grind, At, Kept
<1>2. pc \in BeforeWire \ {"idle"} /\ pc' \in BeforeWire
  BY <1>1 DEF BeforeWire
<1>3. LogsKept
  BY <1>1, PlacesAre DEF LogsKept, Past, Committed
<1>4. wire' = WireSoFar'
  BY <1>1, <1>2, StillNoWire
<1>5. log = LogSoFar
  BY <1>2 DEF Traced
<1>6. QED
  BY <1>1, <1>3, <1>4, <1>5, LogKept

\* The steps that absorb, and the two around the rounds.
TalkingSteps == Commit2 \/ QuotientCommit \/ EvalsSum \/ DeepConcat \/ FriCommit \/ FriFold \/ FriFinal

LEMMA TalkingTraced ==
    ASSUME IInv, Traced, TalkingSteps
    PROVE  log' = LogSoFar' /\ wire' = WireSoFar' /\ wire' = wire
<1>1. /\ wire' = wire
      /\ \/ pc = "commit2" /\ pc' = "quotient"
         \/ pc = "quotient_commit" /\ pc' = "lev"
         \/ pc = "evals_sum" /\ pc' = "deep"
         \/ pc = "deep_concat" /\ pc' \in { "commit", "fri_final" }
         \/ pc = "commit" /\ pc' = "fold"
         \/ pc = "fold" /\ pc' \in { "commit", "fri_final" }
         \/ pc = "fri_final" /\ pc' = "grind"
  BY DEF TalkingSteps, Commit2, QuotientCommit, EvalsSum, DeepConcat, FriCommit, FriFold, FriFinal, At, ToRound
<1>2. pc \in BeforeWire \ {"idle"} /\ pc' \in BeforeWire
  BY <1>1 DEF BeforeWire
<1>3. wire' = WireSoFar'
  BY <1>1, <1>2, StillNoWire
<1>4. log = LogSoFar
  BY <1>2 DEF Traced
<1>5. log' = LogSoFar'
  BY <1>4, LogOfCommit2, LogOfQuotientCommit, LogOfEvalsSum, LogOfDeepConcat, LogOfFriCommit, LogOfFriFold,
     LogOfFriFinal DEF TalkingSteps
<1>6. QED
  BY <1>1, <1>3, <1>5

\* The steps that open the trees.
OpeningSteps == OpenConst \/ OpenCustom \/ OpenCm1 \/ OpenCm2 \/ OpenQsec \/ OpenLayer

LEMMA OpeningTraced ==
    ASSUME IInv, Traced, OpeningSteps
    PROVE  log' = LogSoFar' /\ wire' = WireSoFar' /\ log' = log
<1>1. /\ log' = log /\ air' = air
      /\ \/ pc = "open_const" /\ pc' \in { "custom", "open_cm1" }
         \/ pc = "custom" /\ pc' \in { "custom", "open_cm1" }
         \/ pc = "open_cm1" /\ pc' = "open_cm2"
         \/ pc = "open_cm2" /\ pc' = "open_qsec"
         \/ pc = "open_qsec" /\ pc' \in { "layers", "end" }
         \/ pc = "layers" /\ pc' \in { "layers", "end" }
  BY DEF OpeningSteps, OpenConst, OpenCustom, OpenCm1, OpenCm2, OpenStage, OpenQsec, OpenLayer, At, Kept
<1>2. log = LogSoFar /\ wire = WireSoFar
  BY <1>1 DEF Traced
<1>3. LogSoFar = LogQueries /\ LogSoFar' = LogQueries
  BY <1>1, PlacesAre, TableKept DEF LogSoFar, Past
<1>4. wire' = WireSoFar'
  BY <1>2, WireOfOpenConst, WireOfOpenCustom, WireOfOpenCm1, WireOfOpenCm2, WireOfOpenQsec, WireOfOpenLayer
     DEF OpeningSteps
<1>5. QED
  BY <1>1, <1>2, <1>3, <1>4

LEMMA TracedStays == ASSUME IInv, Traced, [Next]_vars PROVE Traced'
<1>1. IsAir(air) /\ ~air.recursive
  BY AirsAssumption, DriverAssumption DEF IInv
<1>2. CASE SetFixed \/ DropFixed \/ Finish \/ Fail
  <2>1. pc' = "idle"
    BY <1>2 DEF SetFixed, DropFixed, Finish, Fail, Dropped, At
  <2>2. QED
    BY <2>1 DEF Traced
<1>3. ASSUME NEW keeps \in BOOLEAN, StartProve(keeps) PROVE Traced'
  BY <1>1, <1>3, StartTraced DEF Traced
<1>4. CASE QuietSteps
  BY <1>4, QuietTraced DEF Traced
<1>5. CASE TalkingSteps
  BY <1>5, TalkingTraced DEF Traced
<1>6. CASE OpeningSteps
  BY <1>6, OpeningTraced DEF Traced
<1>7. CASE UNCHANGED vars
  <2>1. pc' = pc /\ k' = k /\ air' = air /\ log' = log /\ wire' = wire
    BY <1>7 DEF vars
  <2>2. LogsKept /\ WiresKept
    BY <2>1 DEF LogsKept, WiresKept, Past, Committed, Behind, LayersOpened
  <2>3. QED
    BY <2>1, <2>2, LogKept, WireKept DEF Traced
<1>8. QED
  BY <1>2, <1>3, <1>4, <1>5, <1>6, <1>7 DEF Next, QuietSteps, TalkingSteps, OpeningSteps

\* Every run of the schedule is behind the last place.
LEMMA AllRanAtTheEnd ==
    ASSUME IInv, pc = "end"
    PROVE  RunsSoFar = Runs(air)
<1>1. IsAir(air) /\ air.rounds \in Nat
  BY AirsAssumption, AirIs DEF IInv
<1>2. RunsSoFar \subseteq Runs(air)
  BY <1>1 DEF IInv, RanAsScheduled
<1>3. /\ Behind("quotient", air.q) = Len(air.q) /\ Behind("evals", air.e) = Len(air.e)
      /\ Behind("deep", air.d) = Len(air.d) /\ Behind("custom", air.customs) = Len(air.customs)
      /\ Committed = air.rounds /\ FoldedRounds = air.rounds /\ LayersOpened = air.rounds
      /\ Past("witness_calc") /\ \A p \in SinglePlaces : Past(p)
  <2>1. /\ Past("quotient") /\ Past("evals") /\ Past("deep") /\ Past("custom")
        /\ Past("fold") /\ Past("layers") /\ Past("witness_calc")
    BY PlacesAre DEF Past
  <2>2. \A p \in SinglePlaces : Past(p)
    BY PlacesAre DEF Past, SinglePlaces
  <2>3. QED
    BY <2>1, <2>2 DEF Behind, Committed, FoldedRounds, LayersOpened
<1>4. /\ DOMAIN air.q = 1..Len(air.q) /\ DOMAIN air.e = 1..Len(air.e) /\ DOMAIN air.d = 1..Len(air.d)
      /\ DOMAIN air.customs = 1..Len(air.customs)
  BY <1>1, AirIs
<1>5. \A p \in SinglePlaces : Run(<<p>>) \in RunsSoFar
  BY <1>3 DEF RunsSoFar, SinglesRan
<1>6. Range(QuotientWindows(air)) \subseteq RunsSoFar
  BY <1>3, <1>4 DEF RunsSoFar, QuotientsRan, QuotientWindows, Range
<1>7. Range(EvalsWindows(air)) \subseteq RunsSoFar
  BY <1>3, <1>4 DEF RunsSoFar, EvalsRan, EvalsWindows, Range
<1>8. Range(DeepWindows(air)) \subseteq RunsSoFar
  BY <1>3, <1>4 DEF RunsSoFar, DeepsRan, DeepWindows, Range
<1>9. RunsOf(SetupNames(air)) \subseteq RunsSoFar
  BY DEF RunsSoFar
<1>10. RunsOf(FriNames(air)) \subseteq RunsSoFar
  <2>1. ASSUME NEW p \in FriNames(air) PROVE Run(p) \in RunsSoFar
    <3>1. p \in { <<"fri_final">>, <<"grind">> } => Run(p) \in RunsSoFar
      BY <1>5 DEF SinglePlaces
    <3>2. ASSUME NEW i \in Rounds(air) PROVE Run(<<"fri_commit", i>>) \in RunsSoFar /\ Run(<<"fri_fold", i>>) \in RunsSoFar
      BY <1>3 DEF RunsSoFar, CommitsRan, FoldsRan, Rounds
    <3>3. QED
      BY <3>1, <3>2 DEF FriNames, Named
  <2>2. QED
    BY <2>1 DEF RunsOf
<1>11. RunsOf(TreeNames(air)) \subseteq RunsSoFar
  <2>1. ASSUME NEW p \in TreeNames(air) PROVE Run(p) \in RunsSoFar
    <3>1. p \in { <<"open_const">>, <<"open_cm1">>, <<"open_cm2">>, <<"open_qsec">> } => Run(p) \in RunsSoFar
      BY <1>5 DEF SinglePlaces
    <3>2. ASSUME NEW c \in Ids(air) PROVE Run(<<"open_custom", c>>) \in RunsSoFar
      <4>1. PICK j \in DOMAIN air.customs : c = air.customs[j]
        BY DEF Ids, Range
      <4>2. QED
        BY <1>3, <1>4, <4>1 DEF RunsSoFar, CustomsRan
    <3>3. ASSUME NEW i \in Rounds(air) PROVE Run(<<"open_fri", i>>) \in RunsSoFar
      BY <1>3 DEF RunsSoFar, LayersRan, Rounds
    <3>4. QED
      BY <3>1, <3>2, <3>3 DEF TreeNames, Named
  <2>2. QED
    BY <2>1 DEF RunsOf
<1>12. RunsOf(StageNames(air) \ QuotientNames(air)) \subseteq RunsSoFar
  <2>1. ASSUME NEW p \in StageNames(air) \ QuotientNames(air) PROVE Run(p) \in RunsSoFar
    <3>1. \/ p \in { <<"commit1">>, <<"logup">>, <<"commit2">>, <<"quotient_commit">> }
          \/ air.witness /\ p = <<"witness_calc">>
      BY DEF StageNames
    <3>2. p \in { <<"commit1">>, <<"logup">>, <<"commit2">>, <<"quotient_commit">> } => Run(p) \in RunsSoFar
      BY <1>5 DEF SinglePlaces
    <3>3. air.witness /\ p = <<"witness_calc">> => Run(p) \in RunsSoFar
      BY <1>3 DEF RunsSoFar, WitnessRan, Only
    <3>4. QED
      BY <3>1, <3>2, <3>3
  <2>2. QED
    BY <2>1 DEF RunsOf
<1>13. RunsOf({ <<"lev">>, <<"evals_sum">>, <<"deep_concat">> }) \subseteq RunsSoFar
  BY <1>5 DEF RunsOf, SinglePlaces
<1>14. Runs(air) \subseteq RunsSoFar
  <2>1. RunsOf(SetupNames(air) \cup FriNames(air) \cup TreeNames(air)) \subseteq RunsSoFar
    BY <1>9, <1>10, <1>11 DEF RunsOf
  <2>2. QED
    BY <1>6, <1>7, <1>8, <1>12, <1>13, <2>1 DEF Runs, StageRuns, OpeningRuns
<1>15. QED
  BY <1>2, <1>14

LEMMA WholeAtTheEnd ==
    ASSUME IInv, Traced, Finish
    PROVE  { r.run : r \in ran } = Runs(air) /\ log = Protocol(air) /\ wire' = Wire(air)
<1>1. pc = "end" /\ IsAir(air)
  BY AirsAssumption DEF IInv, Finish
<1>2. log = LogSoFar /\ wire = WireSoFar
  BY <1>1 DEF Traced
<1>3. { r.run : r \in ran } = Runs(air)
  BY <1>1, AllRanAtTheEnd DEF IInv, RanAsScheduled
<1>4. log = Protocol(air)
  BY <1>1, <1>2, LogQueriesIs, PlacesAre DEF LogSoFar, Past
<1>5. wire = WireLayers(air.rounds)
  BY <1>1, <1>2, PlacesAre DEF WireSoFar, Past, LayersOpened
<1>6. wire' = WholeWire
  BY <1>5 DEF Finish, WholeWire, LastParts
<1>7. QED
  BY <1>1, <1>3, <1>4, <1>6, WireIs

\* A prove that finishes, of whatever AIR, ran every program of the schedule
\* once its inputs were there, exchanged the whole transcript in its order and
\* wrote every part of the proof, whatever failed before.
THEOREM ProofsAreWholeWhenFinished == Spec => FinishedProofsAreWhole
<1>1. Init => IInv /\ Traced
  BY InitHolds DEF Init, Traced
<1>2. IInv /\ Traced /\ [Next]_vars => IInv' /\ Traced'
  BY StepKeeps, TracedStays
<1>3. IInv /\ Traced /\ [Next]_vars =>
        [Finish => /\ { r.run : r \in ran } = Runs(air)
                   /\ log = Protocol(air)
                   /\ wire' = Wire(air)]_vars
  BY WholeAtTheEnd
<1>4. QED
  BY <1>1, <1>2, <1>3, PTL DEF Spec, FinishedProofsAreWhole
-----------------------------------------------------------------------------
(* What exists when.                                                       *)

Over(runs) == { r.run : r \in runs }

\* A value exists, when these runs are over and these values squeezed.
Known(v, over, squeezed) ==
    LET source == v[1][1]
    IN  CASE source = <<"host">> \/ source = <<"window">> -> TRUE
          [] source = <<"challenge">>  -> v \in squeezed
          [] source = <<"challenges">> ->
                \A c \in Range(ChallengesMap) : c.stage <= v[2][1] => Squeezed(<<c.name>>) \in squeezed
          [] source = <<"positions">>  ->
                /\ Squeezed(<<"challenge">>) \in squeezed
                /\ Run(<<"grind">>) \in over
          [] OTHER -> v[1] \in over

\* The inputs that come from the transcript.
FromTheTranscript(v) == v[1][1] \in { <<"challenge">>, <<"challenges">> }

ArgsKnown(r, over, squeezed) == \A n \in DOMAIN r.args : Known(r.args[n], over, squeezed)
ChallengesKnown(r, over, squeezed) ==
    \A n \in DOMAIN r.args : FromTheTranscript(r.args[n]) => Known(r.args[n], over, squeezed)

CausalRuns(runs, items) == \A r \in runs : ArgsKnown(r, Over(runs), SqueezedOf(items))
CausalItem(runs, items, j) ==
    items[j].op # "squeeze" =>
        /\ Known(items[j].value, Over(runs), SqueezedOf(items))
        /\ \A r \in runs : r.run = items[j].value[1] =>
              ChallengesKnown(r, Over(runs), SqueezedOf(SubSeq(items, 1, j - 1)))
CausalWire(runs, items, parts_) == \A j \in DOMAIN parts_ : Known(parts_[j], Over(runs), SqueezedOf(items))

CausalIn(runs, items, parts_) ==
    /\ CausalRuns(runs, items)
    /\ \A j \in DOMAIN items : CausalItem(runs, items, j)
    /\ CausalWire(runs, items, parts_)

AsScheduled(runs) == \A r \in runs : r.run \in Runs(air) /\ r.args = ArgsOf(air, r.run)

LEMMA SqueezedIs == ASSUME NEW items PROVE Schedule!SqueezedIn(items) = SqueezedOf(items)
BY DEF Schedule!SqueezedIn, Schedule!Range, SqueezedOf

LEMMA ExistsIs ==
    ASSUME NEW v, NEW items
    PROVE  Schedule!Exists(v, items) <=> Known(v, Over(ran), SqueezedOf(items))
BY SqueezedIs DEF Schedule!Exists, Known, Schedule!Ran, Over, Schedule!Range, Range

LEMMA CausalIs == Schedule!Causal <=> CausalIn(ran, log, wire)
BY ExistsIs DEF Schedule!Causal, CausalIn, CausalRuns, CausalItem, CausalWire, ArgsKnown, ChallengesKnown, FromTheTranscript

LEMMA ConsistentIs ==
    Schedule!Consistent <=>
       /\ AsScheduled(ran)
       /\ IsPrefix(log, Protocol(air))
       /\ IsPrefix(wire, Wire(air))
       /\ CausalIn(ran, log, wire)
BY CausalIs DEF Schedule!Consistent, AsScheduled, Schedule!IsPrefix, IsPrefix

LEMMA ConsistentThen ==
    Schedule!Consistent' <=>
       /\ AsScheduled(ran)'
       /\ IsPrefix(log', Protocol(air'))
       /\ IsPrefix(wire', Wire(air'))
       /\ CausalIn(ran', log', wire')
<1>1. Schedule!Consistent <=>
       /\ AsScheduled(ran)
       /\ IsPrefix(log, Protocol(air))
       /\ IsPrefix(wire, Wire(air))
       /\ CausalIn(ran, log, wire)
  BY ConsistentIs
<1>2. (Schedule!Consistent <=>
       /\ AsScheduled(ran)
       /\ IsPrefix(log, Protocol(air))
       /\ IsPrefix(wire, Wire(air))
       /\ CausalIn(ran, log, wire))'
  BY <1>1, PTL
<1>3. QED
  BY <1>2

\* What exists goes on existing.
LEMMA KnownOn ==
    ASSUME NEW v, NEW o, NEW o2, NEW s, NEW s2, o \subseteq o2, s \subseteq s2, Known(v, o, s)
    PROVE  Known(v, o2, s2)
BY DEF Known

LEMMA ArgsKnownOn ==
    ASSUME NEW r, NEW o, NEW o2, NEW s, NEW s2, o \subseteq o2, s \subseteq s2, ArgsKnown(r, o, s)
    PROVE  ArgsKnown(r, o2, s2) /\ ChallengesKnown(r, o2, s2)
BY KnownOn DEF ArgsKnown, ChallengesKnown

Sources == { <<"host">>, <<"window">>, <<"challenge">>, <<"challenges">>, <<"positions">> }

LEMMA RunsAreNoSources == ASSUME NEW r \in Runs(air) PROVE r[1] \notin Sources
<1>1. \A p \in SetupNames(air) \cup FriNames(air) \cup TreeNames(air) : p[1] \in SetupKinds \cup FriKinds \cup TreeKinds
  BY Kinds
<1>2. r[1][1] \in SetupKinds \cup StageKinds \cup OpeningKinds \cup FriKinds \cup TreeKinds
  <2>1. CASE r \in RunsOf(SetupNames(air) \cup FriNames(air) \cup TreeNames(air))
    BY <1>1, <2>1, RunName DEF RunsOf
  <2>2. CASE r \in StageRuns(air) \cup OpeningRuns(air)
    BY <2>2, RunKinds
  <2>3. QED
    BY <2>1, <2>2 DEF Runs
<1>3. \A v \in Sources : v[1] \notin SetupKinds \cup StageKinds \cup OpeningKinds \cup FriKinds \cup TreeKinds
  BY DEF Sources, SetupKinds, StageKinds, OpeningKinds, FriKinds, TreeKinds
<1>4. QED
  BY <1>2, <1>3

LEMMA KnownRunIsOver ==
    ASSUME NEW v, NEW o, NEW s, Known(v, o, s), v[1] \in Runs(air)
    PROVE  v[1] \in o
<1>1. v[1][1] \notin Sources
  BY RunsAreNoSources
<1>2. QED
  BY <1>1 DEF Known, Sources

\* What precedes an item of a longer log.
LEMMA Before ==
    ASSUME NEW s, NEW t, Extends(s, t), NEW j \in 1..Len(t)
    PROVE  IF j <= Len(s) THEN SubSeq(t, 1, j - 1) = SubSeq(s, 1, j - 1)
                          ELSE SqueezedOf(s) \subseteq SqueezedOf(SubSeq(t, 1, j - 1))
<1>1. IsSeq(s) /\ IsSeq(t) /\ Len(s) \in Nat /\ Len(t) \in Nat
  BY SeqIs DEF Extends
<1>2. Len(s) <= Len(t) /\ \A i \in 1..Len(s) : s[i] = t[i]
  BY <1>1, PrefixIs DEF Extends
<1>3. SubSeq(t, 1, j - 1) = [i \in 1..(j - 1) |-> t[i]]
  BY <1>1 DEF IsSeq
<1>4. CASE j <= Len(s)
  <2>1. SubSeq(s, 1, j - 1) = [i \in 1..(j - 1) |-> s[i]]
    BY <1>1, <1>4 DEF IsSeq
  <2>2. \A i \in 1..(j - 1) : s[i] = t[i]
    BY <1>1, <1>2, <1>4
  <2>3. QED
    BY <1>3, <1>4, <2>1, <2>2
<1>5. CASE ~(j <= Len(s))
  <2> DEFINE u == SubSeq(t, 1, j - 1)
  <2>1. DOMAIN s = 1..Len(s)
    BY <1>1, SeqIs
  <2>2. \A i \in DOMAIN s : i \in DOMAIN u /\ u[i] = s[i]
    BY <1>1, <1>2, <1>3, <1>5, <2>1
  <2> HIDE DEF u
  <2>3. SqueezedOf(s) \subseteq SqueezedOf(u)
    BY <2>2 DEF SqueezedOf
  <2>4. QED
    BY <1>5, <2>3 DEF u
<1>6. QED
  BY <1>4, <1>5

\* A step keeps the causality: the inputs of its run exist before it, and what
\* it adds to the transcript and to the proof exists after it.
NewItemsKnown(l, m, over) ==
    \A j \in 1..Len(m) : j <= Len(l) \/ (m[j].op # "squeeze" => Known(m[j].value, over, SqueezedOf(m)))
NewPartsKnown(w, x, over, squeezed) == \A j \in 1..Len(x) : j <= Len(w) \/ Known(x[j], over, squeezed)
NewRunsKnown(R, S, l) == \A r \in S : r \in R \/ ArgsKnown(r, Over(R), SqueezedOf(l))

LEMMA CausalStep ==
    ASSUME NEW R, NEW S, NEW l, NEW m, NEW w, NEW x,
           CausalIn(R, l, w), AsScheduled(S), R \subseteq S, Extends(l, m), Extends(w, x),
           NewRunsKnown(R, S, l), NewItemsKnown(l, m, Over(S)), NewPartsKnown(w, x, Over(S), SqueezedOf(m))
    PROVE  CausalIn(S, m, x)
<1>1. /\ IsSeq(l) /\ IsSeq(m) /\ IsSeq(w) /\ IsSeq(x)
      /\ DOMAIN l = 1..Len(l) /\ DOMAIN m = 1..Len(m) /\ DOMAIN w = 1..Len(w) /\ DOMAIN x = 1..Len(x)
      /\ Len(l) \in Nat /\ Len(m) \in Nat /\ Len(w) \in Nat /\ Len(x) \in Nat
  BY SeqIs DEF Extends
<1>2. /\ Len(l) <= Len(m) /\ \A j \in 1..Len(l) : l[j] = m[j]
      /\ Len(w) <= Len(x) /\ \A j \in 1..Len(w) : w[j] = x[j]
  BY <1>1, PrefixIs DEF Extends
<1>3. Over(R) \subseteq Over(S) /\ SqueezedOf(l) \subseteq SqueezedOf(m)
  BY SqueezedStays DEF Over
<1>4. \A r \in S : ArgsKnown(r, Over(R), SqueezedOf(l))
  BY DEF CausalIn, CausalRuns, NewRunsKnown
<1>5. CausalRuns(S, m)
  BY <1>3, <1>4, ArgsKnownOn DEF CausalRuns
<1>6. CausalWire(S, m, x)
  <2>1. ASSUME NEW j \in DOMAIN x PROVE Known(x[j], Over(S), SqueezedOf(m))
    <3>1. CASE j <= Len(w)
      <4>1. j \in DOMAIN w /\ x[j] = w[j]
        BY <1>1, <1>2, <3>1
      <4>2. Known(w[j], Over(R), SqueezedOf(l))
        BY <4>1 DEF CausalIn, CausalWire
      <4>3. QED
        BY <1>3, <4>1, <4>2, KnownOn
    <3>2. CASE ~(j <= Len(w))
      BY <1>1, <3>2 DEF NewPartsKnown
    <3>3. QED
      BY <3>1, <3>2
  <2>2. QED
    BY <2>1 DEF CausalWire
<1>7. ASSUME NEW j \in DOMAIN m PROVE CausalItem(S, m, j)
  <2>1. CASE j <= Len(l)
    <3>1. j \in DOMAIN l /\ m[j] = l[j] /\ j \in 1..Len(m)
      BY <1>1, <1>2, <2>1
    <3>2. CausalItem(R, l, j)
      BY <3>1 DEF CausalIn
    <3>3. SUFFICES ASSUME m[j].op # "squeeze"
                   PROVE  /\ Known(m[j].value, Over(S), SqueezedOf(m))
                          /\ \A r \in S : r.run = m[j].value[1] =>
                                ChallengesKnown(r, Over(S), SqueezedOf(SubSeq(m, 1, j - 1)))
      BY DEF CausalItem
    <3>4. /\ Known(l[j].value, Over(R), SqueezedOf(l))
          /\ \A r \in R : r.run = l[j].value[1] =>
                ChallengesKnown(r, Over(R), SqueezedOf(SubSeq(l, 1, j - 1)))
      BY <3>1, <3>2, <3>3 DEF CausalItem
    <3>5. SubSeq(m, 1, j - 1) = SubSeq(l, 1, j - 1)
      BY <2>1, <3>1, Before
    <3>6. ASSUME NEW r \in S, r.run = m[j].value[1]
          PROVE  ChallengesKnown(r, Over(S), SqueezedOf(SubSeq(m, 1, j - 1)))
      <4>1. r.run \in Runs(air) /\ r.args = ArgsOf(air, r.run)
        BY DEF AsScheduled
      <4>2. r.run \in Over(R)
        BY <3>1, <3>4, <3>6, <4>1, KnownRunIsOver
      <4>3. PICK q \in R : q.run = r.run
        BY <4>2 DEF Over
      <4>4. q.args = r.args
        BY <4>1, <4>3 DEF AsScheduled
      <4>5. ChallengesKnown(q, Over(R), SqueezedOf(SubSeq(l, 1, j - 1)))
        BY <3>1, <3>4, <3>6, <4>3
      <4>6. ChallengesKnown(r, Over(R), SqueezedOf(SubSeq(m, 1, j - 1)))
        BY <3>5, <4>4, <4>5 DEF ChallengesKnown
      <4>7. QED
        BY <1>3, <4>6, KnownOn DEF ChallengesKnown
    <3>7. Known(m[j].value, Over(S), SqueezedOf(m))
      BY <1>3, <3>1, <3>4, KnownOn
    <3>8. QED
      BY <3>6, <3>7
  <2>2. CASE ~(j <= Len(l))
    <3>1. j \in 1..Len(m)
      BY <1>1
    <3>2. SqueezedOf(l) \subseteq SqueezedOf(SubSeq(m, 1, j - 1))
      BY <2>2, <3>1, Before
    <3>3. \A r \in S : ChallengesKnown(r, Over(S), SqueezedOf(SubSeq(m, 1, j - 1)))
      <4> DEFINE before == SqueezedOf(SubSeq(m, 1, j - 1))
                 then == SqueezedOf(l)
                 o == Over(R)
                 o2 == Over(S)
      <4>1. then \subseteq before /\ o \subseteq o2 /\ \A r \in S : ArgsKnown(r, o, then)
        BY <1>3, <1>4, <3>2
      <4> HIDE DEF before, then, o, o2
      <4>2. \A r \in S : ChallengesKnown(r, o2, before)
        BY <4>1, ArgsKnownOn
      <4>3. QED
        BY <4>2 DEF before, o2
    <3>4. m[j].op # "squeeze" => Known(m[j].value, Over(S), SqueezedOf(m))
      BY <2>2, <3>1 DEF NewItemsKnown
    <3>5. QED
      BY <3>3, <3>4 DEF CausalItem
  <2>3. QED
    BY <2>1, <2>2
<1>8. QED
  BY <1>5, <1>6, <1>7 DEF CausalIn

\* The values there are.
LEMMA OutKnown ==
    ASSUME NEW r \in Runs(air), NEW n, NEW o, r \in o, NEW s
    PROVE  Known(Out(r, n), o, s)
<1>1. r[1] \notin Sources
  BY RunsAreNoSources
<1>2. QED
  BY <1>1 DEF Known, Out, Sources

LEMMA HostKnown ==
    ASSUME NEW o, NEW s
    PROVE  (\A n : Known(Host(n), o, s)) /\ (\A i : Known(Window(i), o, s))
BY DEF Known, Host, Window, Run

LEMMA SqueezedKnown == ASSUME NEW n, NEW o, NEW s, Squeezed(n) \in s PROVE Known(Squeezed(n), o, s)
BY DEF Known, Squeezed, Run

LEMMA ChallengesUpToKnown ==
    ASSUME NEW stage \in Nat, NEW o, NEW items, \A g \in 2..stage : Gives(items, g)
    PROVE  Known(ChallengesUpTo(stage), o, SqueezedOf(items))
<1>1. \A c \in Range(ChallengesMap) : c.stage \in 2..5
  <2>1. ChallengesMap \in Seq([name : STRING, stage : 2..5])
    BY ChallengesAssumption DEF NStages
  <2> DEFINE S == [name : STRING, stage : 2..5]
             cm == ChallengesMap
  <2>2. cm \in Seq(S) /\ \A c \in S : c.stage \in 2..5
    BY <2>1
  <2> HIDE DEF S, cm
  <2>3. \A i \in DOMAIN cm : cm[i] \in S
    BY <2>2
  <2>4. Range(cm) \subseteq S
    BY <2>3 DEF Range
  <2>5. QED
    BY <2>2, <2>4 DEF cm
<1>2. \A c \in Range(ChallengesMap) : c.stage <= stage => Squeezed(<<c.name>>) \in SqueezedOf(items)
  <2>1. ASSUME NEW c \in Range(ChallengesMap), c.stage <= stage PROVE Squeezed(<<c.name>>) \in SqueezedOf(items)
    <3>1. c.stage \in 2..stage
      BY <1>1, <2>1
    <3>2. QED
      BY <3>1 DEF Gives
  <2>2. QED
    BY <2>1
<1>3. QED
  BY <1>2 DEF Known, ChallengesUpTo, Run

LEMMA PositionsKnown ==
    ASSUME NEW at, NEW o, NEW s, Run(<<"grind">>) \in o, Squeezed(<<"challenge">>) \in s
    PROVE  Known(Positions(at), o, s)
BY DEF Known, Positions, Run

\* The challenges with names.
LEMMA NamedSqueezed ==
    ASSUME NEW items
    PROVE  /\ Gives(items, 4) => Squeezed(<<"std_xi">>) \in SqueezedOf(items)
           /\ Gives(items, 5) => /\ Squeezed(<<"std_vf1">>) \in SqueezedOf(items)
                                 /\ Squeezed(<<"std_vf2">>) \in SqueezedOf(items)
<1>1. /\ [name |-> "std_xi", stage |-> 4] \in Range(ChallengesMap)
      /\ [name |-> "std_vf1", stage |-> 5] \in Range(ChallengesMap)
      /\ [name |-> "std_vf2", stage |-> 5] \in Range(ChallengesMap)
  BY ChallengesAssumption DEF NStages
<1>2. QED
  BY <1>1 DEF Gives

-----------------------------------------------------------------------------
(* Items and parts that are all known.                                     *)

ItemsKnown(t, over, squeezed) == \A j \in 1..Len(t) : t[j].op # "squeeze" => Known(t[j].value, over, squeezed)
PartsKnown(t, over, squeezed) == \A j \in 1..Len(t) : Known(t[j], over, squeezed)

LEMMA ItemsConcat ==
    ASSUME NEW s, NEW t, NEW o, NEW q, IsSeq(s), IsSeq(t), ItemsKnown(s, o, q), ItemsKnown(t, o, q)
    PROVE  IsSeq(s \o t) /\ ItemsKnown(s \o t, o, q)
<1> DEFINE u == s \o t
<1>1. /\ IsSeq(u) /\ Len(u) = Len(s) + Len(t) /\ Len(s) \in Nat /\ Len(t) \in Nat
      /\ \A j \in 1..Len(s) : u[j] = s[j]
      /\ \A j \in 1..Len(t) : u[Len(s) + j] = t[j]
  BY ConcatIs, SeqIs
<1> HIDE DEF u
<1>2. ASSUME NEW j \in 1..Len(u), u[j].op # "squeeze" PROVE Known(u[j].value, o, q)
  <2>1. CASE j <= Len(s)
    <3>1. j \in 1..Len(s)
      BY <1>1, <2>1
    <3>2. QED
      BY <1>1, <1>2, <3>1 DEF ItemsKnown
  <2>2. CASE ~(j <= Len(s))
    <3>1. j - Len(s) \in 1..Len(t) /\ j = Len(s) + (j - Len(s))
      BY <1>1, <2>2
    <3>2. u[j] = t[j - Len(s)]
      BY <1>1, <3>1
    <3>3. QED
      BY <1>2, <3>1, <3>2 DEF ItemsKnown
  <2>3. QED
    BY <2>1, <2>2
<1>3. QED
  BY <1>1, <1>2 DEF ItemsKnown, u

LEMMA SqueezeKnown == ASSUME NEW names, NEW o, NEW q, IsSeq(names) PROVE ItemsKnown(Squeeze(names), o, q)
<1>1. /\ Len(Squeeze(names)) = Len(names)
      /\ \A j \in 1..Len(names) : Squeeze(names)[j] = [op |-> "squeeze", value |-> Squeezed(names[j])]
  BY SqueezeIs
<1>2. \A v : [op |-> "squeeze", value |-> v].op = "squeeze"
  OBVIOUS
<1> DEFINE t == Squeeze(names)
<1> HIDE DEF t
<1>3. Len(t) = Len(names) /\ \A j \in 1..Len(names) : t[j] = [op |-> "squeeze", value |-> Squeezed(names[j])]
  BY <1>1 DEF t
<1>4. \A j \in 1..Len(t) : t[j].op = "squeeze"
  BY <1>2, <1>3
<1>5. QED
  BY <1>4 DEF ItemsKnown, t

LEMMA PutKnown ==
    ASSUME NEW v, NEW o, NEW q, Known(v, o, q)
    PROVE  ItemsKnown(<<Put(v)>>, o, q) /\ ItemsKnown(<<Absorb(air, v)>>, o, q)
<1>1. Put(v).value = v /\ Absorb(air, v).value = v
  BY DEF Put, Absorb
<1>2. \A a : Len(<<a>>) = 1 /\ <<a>>[1] = a
  OBVIOUS
<1> HIDE DEF Put, Absorb
<1>3. ASSUME NEW a, a.value = v PROVE ItemsKnown(<<a>>, o, q)
  <2>1. \A j \in 1..Len(<<a>>) : <<a>>[j] = a
    BY <1>2
  <2>2. QED
    BY <1>3, <2>1 DEF ItemsKnown
<1>4. QED
  BY <1>1, <1>3

LEMMA PartsAreNew ==
    ASSUME NEW w, NEW t, NEW o, NEW q, IsSeq(w), IsSeq(t), PartsKnown(t, o, q)
    PROVE  Extends(w, w \o t) /\ NewPartsKnown(w, w \o t, o, q)
<1> DEFINE m == w \o t
<1>1. /\ IsSeq(m) /\ Len(m) = Len(w) + Len(t) /\ Len(w) \in Nat /\ Len(t) \in Nat
      /\ \A j \in 1..Len(t) : m[Len(w) + j] = t[j]
  BY ConcatIs, SeqIs
<1>2. Extends(w, m)
  BY ConcatExtends
<1> HIDE DEF m
<1>3. ASSUME NEW j \in 1..Len(m), ~(j <= Len(w)) PROVE Known(m[j], o, q)
  <2>1. j - Len(w) \in 1..Len(t) /\ j = Len(w) + (j - Len(w))
    BY <1>1, <1>3
  <2>2. m[j] = t[j - Len(w)]
    BY <1>1, <2>1
  <2>3. QED
    BY <2>1, <2>2 DEF PartsKnown
<1>4. NewPartsKnown(w, m, o, q)
  BY <1>3 DEF NewPartsKnown
<1>5. QED
  BY <1>2, <1>4 DEF m
-----------------------------------------------------------------------------
(* What the driver binds exists.                                           *)

LEMMA PlacesPassed ==
    ASSUME pc \in Places, pc # "idle"
    PROVE  \A p \in SinglePlaces : Past(p) => Run(<<p>>) \in RunsSoFar
BY DEF RunsSoFar, SinglesRan

LEMMA RanRuns == ASSUME IInv, pc # "idle" PROVE RunsSoFar \subseteq Runs(air)
BY DEF IInv, RanAsScheduled

LEMMA SetupRunsRan ==
    /\ Run(<<"constants">>) \in RunsSoFar /\ Run(<<"const_setup">>) \in RunsSoFar
    /\ \A c \in Ids(air) : Run(<<"custom_setup", c>>) \in RunsSoFar
BY DEF RunsSoFar, RunsOf, SetupNames, Named

\* The key's names.
LEMMA KeyNameIs ==
    ASSUME IsAir(air), NEW n \in KeyNames
    PROVE  \/ n[1] \in { "zi", "domain", "const_root", "rows", "const_base", "custom_base", "const_ext", "const_layers" }
           \/ n[1] \in { "custom_root", "custom_ext", "custom_layers" } /\ n[2] \in Ids(air)
<1>1. CustomsLeft \subseteq Ids(air)
  BY DEF CustomsLeft, Ids, Range
<1>2. \A c \in Ids(air) : n \in CustomNames(c) => n[1] \in { "custom_ext", "custom_layers" } /\ n[2] \in Ids(air)
  BY DEF CustomNames
<1>3. n \in Named("custom_root", Ids(air)) => n[1] = "custom_root" /\ n[2] \in Ids(air)
  BY DEF Named
<1>4. n \in Named("custom_base", Ids(air)) => n[1] = "custom_base"
  BY DEF Named
<1>5. n \in Parts("rows", air.q) => n[1] = "rows"
  BY DEF Parts
<1>6. \/ n \in { <<"zi">>, <<"domain">>, <<"const_root">>, <<"const_base">>, <<"const_ext">>, <<"const_layers">> }
      \/ n \in Named("custom_root", Ids(air)) \/ n \in Named("custom_base", Ids(air)) \/ n \in Parts("rows", air.q)
      \/ \E c \in CustomsLeft : n \in CustomNames(c)
  BY DEF KeyNames, OfTheSetup, BaseNames, Only
<1>7. QED
  BY <1>1, <1>2, <1>3, <1>4, <1>5, <1>6

LEMMA KeyKnown ==
    ASSUME IInv, pc # "idle", NEW n \in KeyNames, NEW s
    PROVE  Known(Means(n), RunsSoFar, s)
<1>1. RunsSoFar \subseteq Runs(air) /\ IsAir(air)
  BY RanRuns, AirsAssumption DEF IInv
<1>2. \A r \in RunsSoFar : \A x : Known(Out(r, x), RunsSoFar, s)
  BY <1>1, OutKnown
<1>3. CASE n[1] \in { "const_base", "custom_base" }
  BY <1>3, HostKnown DEF Means
<1>4. CASE n[1] = "rows"
  BY <1>4, HostKnown DEF Means
<1>5. CASE n[1] \in { "zi", "domain" }
  <2>1. Means(n) = Out(Run(<<"constants">>), n)
    BY <1>5 DEF Means
  <2>2. QED
    BY <1>2, <2>1, SetupRunsRan
<1>6. CASE n[1] \in { "const_root", "const_ext", "const_layers" }
  <2>1. \E x : Means(n) = Out(Run(<<"const_setup">>), x)
    BY <1>6 DEF Means
  <2>2. QED
    BY <1>2, <2>1, SetupRunsRan
<1>7. CASE n[1] \in { "custom_root", "custom_ext", "custom_layers" } /\ n[2] \in Ids(air)
  <2>1. \E x : Means(n) = Out(Run(<<"custom_setup", n[2]>>), x)
    BY <1>7 DEF Means
  <2>2. Run(<<"custom_setup", n[2]>>) \in RunsSoFar
    BY <1>7, SetupRunsRan
  <2>3. QED
    BY <1>2, <2>1, <2>2
<1>8. QED
  BY <1>1, <1>3, <1>4, <1>5, <1>6, <1>7, KeyNameIs

\* The instance's names.
LEMMA InstanceKnown ==
    ASSUME IInv, pc # "idle", NEW n \in InstanceNames
    PROVE  Known(Means(n), RunsSoFar, SqueezedOf(LogSoFar))
<1>1. RunsSoFar \subseteq Runs(air) /\ IsAir(air) /\ ~air.recursive /\ InPlace /\ pc \in Places
  BY RanRuns, AirsAssumption, DriverAssumption DEF IInv, InPlace
<1> DEFINE s == SqueezedOf(LogSoFar)
<1>2. \A r \in RunsSoFar : \A x : Known(Out(r, x), RunsSoFar, s)
  BY <1>1, OutKnown
<1>3. \A p \in SinglePlaces : Past(p) => \A x : Known(Out(Run(<<p>>), x), RunsSoFar, s)
  BY <1>1, <1>2, PlacesPassed
<1>4. /\ Gives(LogSoFar, 2)
      /\ Past("commit2") => Gives(LogSoFar, 3)
      /\ Past("quotient_commit") => Gives(LogSoFar, 4)
      /\ Past("evals_sum") => Gives(LogSoFar, 5)
  BY <1>1, LogKnows
<1> HIDE DEF s
<1>5. CASE n \in { <<"publics">>, <<"proofvalues">> }
  BY <1>5, HostKnown DEF Means
<1>6. CASE n = <<"airvalues">>
  <2>1. Means(n) = IF Past("logup") THEN Out(Run(<<"logup">>), <<"airvalues">>) ELSE Host(n)
    BY <1>6 DEF Means, AirvaluesOut
  <2>2. QED
    BY <1>3, <2>1, HostKnown DEF SinglePlaces, s
<1>7. CASE n = <<"trace">>
  <2>1. Means(n) = IF Past("witness_calc") /\ air.witness THEN Out(Run(<<"witness_calc">>), <<"trace">>) ELSE Host(n)
    BY <1>7 DEF Means, Trace
  <2>2. Past("witness_calc") /\ air.witness => Run(<<"witness_calc">>) \in RunsSoFar
    BY DEF RunsSoFar, WitnessRan, Only
  <2>3. QED
    BY <1>2, <2>1, <2>2, HostKnown DEF s
<1>8. CASE n = <<"challenges">>
  <2>1. Means(n) = IF Past("commit2") THEN ChallengesUpTo(3) ELSE ChallengesUpTo(2)
    BY <1>8 DEF Means, NStages
  <2>2. 2 \in Nat /\ 3 \in Nat /\ (\A g \in 2..2 : g = 2) /\ (\A g \in 2..3 : g \in {2, 3})
    OBVIOUS
  <2>3. Known(ChallengesUpTo(2), RunsSoFar, s)
    <3>1. \A g \in 2..2 : Gives(LogSoFar, g)
      BY <1>4, <2>2
    <3>2. QED
      BY <2>2, <3>1, ChallengesUpToKnown DEF s
  <2>4. Past("commit2") => Known(ChallengesUpTo(3), RunsSoFar, s)
    <3>1. Past("commit2") => \A g \in 2..3 : Gives(LogSoFar, g)
      BY <1>4, <2>2
    <3>2. QED
      BY <2>2, <3>1, ChallengesUpToKnown DEF s
  <2>5. QED
    BY <2>1, <2>3, <2>4 DEF s
<1>9. CASE n \in { <<"root1">>, <<"cm1_ext">>, <<"cm1_layers">> }
  <2>1. Means(n) = Out(Run(<<"commit1">>), n) /\ Past("commit1")
    BY <1>9 DEF Means, InstanceNames, Only, Scalars
  <2>2. QED
    BY <1>3, <2>1 DEF SinglePlaces, s
<1>10. CASE n \in { <<"cm2">>, <<"airgroupvalue">> }
  <2>1. Means(n) = Out(Run(<<"logup">>), n) /\ Past("logup")
    BY <1>10 DEF Means, InstanceNames, Only, Scalars
  <2>2. QED
    BY <1>3, <2>1 DEF SinglePlaces, s
<1>11. CASE n \in { <<"root2">>, <<"cm2_ext">>, <<"cm2_layers">> }
  <2>1. Means(n) = Out(Run(<<"commit2">>), n) /\ Past("commit2")
    BY <1>11 DEF Means, InstanceNames, Only, Scalars
  <2>2. QED
    BY <1>3, <2>1 DEF SinglePlaces, s
<1>12. CASE n = <<"airgroupvalues">>
  <2>1. Means(n) = AirgroupvaluesOut(air) /\ Past("commit2")
    BY <1>12 DEF Means, InstanceNames, Only, Scalars
  <2>2. Past("logup")
    BY <1>1, <2>1, PlacesAre DEF Past, Places
  <2>3. QED
    BY <1>3, <2>1, <2>2, HostKnown DEF SinglePlaces, s, AirgroupvaluesOut
<1>13. CASE n \in { <<"rootq">>, <<"qsec">>, <<"qsec_layers">> }
  <2>1. Means(n) = Out(Run(<<"quotient_commit">>), n) /\ Past("quotient_commit")
    BY <1>13 DEF Means, InstanceNames, Only, Scalars
  <2>2. QED
    BY <1>3, <2>1 DEF SinglePlaces, s
<1>14. CASE n = <<"xi">>
  <2>1. Means(n) = Squeezed(<<"std_xi">>) /\ Past("quotient_commit")
    BY <1>14 DEF Means, InstanceNames, Only, Scalars
  <2>2. QED
    BY <1>4, <2>1, NamedSqueezed, SqueezedKnown
<1>15. CASE n \in { <<"vf1">>, <<"vf2">> }
  <2>1. Past("evals_sum") /\ Means(n) \in { Squeezed(<<"std_vf1">>), Squeezed(<<"std_vf2">>) }
    BY <1>15 DEF Means, InstanceNames, Only, Scalars
  <2>2. QED
    BY <1>4, <2>1, NamedSqueezed, SqueezedKnown
<1>16. CASE n = <<"lev">>
  <2>1. Means(n) = Out(Run(<<"lev">>), n) /\ Past("lev")
    BY <1>16 DEF Means, InstanceNames, Only, Scalars
  <2>2. QED
    BY <1>3, <2>1 DEF SinglePlaces, s
<1>17. CASE n = <<"evals">>
  <2>1. Means(n) = Out(Run(<<"evals_sum">>), <<"evals">>) /\ Past("evals_sum")
    BY <1>17 DEF Means, InstanceNames, Only, Scalars, EvalsOut
  <2>2. QED
    BY <1>3, <2>1 DEF SinglePlaces, s
<1>18. n \in { <<"publics">>, <<"proofvalues">>, <<"airvalues">>, <<"trace">>, <<"challenges">>,
               <<"root1">>, <<"cm1_ext">>, <<"cm1_layers">>, <<"cm2">>, <<"airgroupvalue">>,
               <<"root2">>, <<"cm2_ext">>, <<"cm2_layers">>, <<"airgroupvalues">>,
               <<"rootq">>, <<"qsec">>, <<"qsec_layers">>, <<"xi">>, <<"vf1">>, <<"vf2">>, <<"lev">>, <<"evals">> }
  BY DEF InstanceNames, Only, Scalars
<1>19. QED
  BY <1>5, <1>6, <1>7, <1>8, <1>9, <1>10, <1>11, <1>12, <1>13, <1>14, <1>15, <1>16, <1>17, <1>18
-----------------------------------------------------------------------------
(* What a program's inputs are bound from exists before it is called.      *)

ExistsNow(v) == Known(v, RunsSoFar, SqueezedOf(LogSoFar))
AllExist(e) == \A n \in DOMAIN e : ExistsNow(e[n])

LEMMA JoinExists ==
    ASSUME NEW e, NEW f, AllExist(e), AllExist(f)
    PROVE  AllExist(e ++ f)
<1> DEFINE g == e ++ f
<1>1. IsJoin(g, e, f)
  BY JoinIs
<1> HIDE DEF g
<1>2. AllExist(g)
  BY <1>1 DEF AllExist, IsJoin
<1>3. QED
  BY <1>2 DEF g

LEMMA BindExists == ASSUME NEW n, NEW v, ExistsNow(v) PROVE AllExist(Bind(n, v))
<1> DEFINE g == Bind(n, v)
<1>1. DOMAIN g = {n} /\ g[n] = v
  BY BindIs
<1> HIDE DEF g
<1>2. AllExist(g)
  BY <1>1 DEF AllExist
<1>3. QED
  BY <1>2 DEF g

LEMMA OutExists ==
    ASSUME IInv, pc # "idle", NEW r \in RunsSoFar, NEW n
    PROVE  ExistsNow(Out(r, n))
BY RanRuns, OutKnown DEF ExistsNow

LEMMA SingleExists ==
    ASSUME IInv, pc # "idle", NEW p \in SinglePlaces, Past(p), NEW n
    PROVE  ExistsNow(Out(Run(<<p>>), n))
BY PlacesPassed, OutExists DEF IInv, InPlace

LEMMA EnvExists == ASSUME IInv, pc # "idle" PROVE AllExist(env)
<1>1. DOMAIN env = EnvNames /\ \A n \in EnvNames : env[n] = Means(n)
  BY DEF IInv, EnvIs, EnvHolds
<1>2. \A n \in EnvNames : ExistsNow(Means(n))
  BY KeyKnown, InstanceKnown DEF EnvNames, ExistsNow
<1>3. QED
  BY <1>1, <1>2 DEF AllExist

LEMMA PartsExist ==
    ASSUME IInv, pc # "idle", NEW f, NEW prefix, NEW runs, NEW out, NEW m,
           PartsHold(f, prefix, runs, out, m), \A j \in 1..m : runs[j] \in RunsSoFar
    PROVE  AllExist(f)
<1>1. ASSUME NEW n \in DOMAIN f PROVE ExistsNow(f[n])
  <2>1. PICK j \in 1..m : n = <<prefix, j>>
    BY DEF PartsHold
  <2>2. f[n] = Out(runs[j], out)
    BY <2>1 DEF PartsHold
  <2>3. QED
    BY <2>1, <2>2, OutExists
<1>2. QED
  BY <1>1 DEF AllExist

LEMMA CodewordExists ==
    ASSUME IInv, Past("deep_concat"), NEW i \in 0..FoldedRounds, pc # "idle"
    PROVE  ExistsNow(Codeword(i))
<1>0. air.rounds \in Nat /\ FoldedRounds \in Nat
  BY AirsAssumption, AirIs DEF IInv, InPlace, Rounds, FoldedRounds
<1>1. CASE i = 0
  BY <1>1, SingleExists DEF Codeword, SinglePlaces
<1>2. CASE i # 0
  <2>1. i - 1 \in 0..(FoldedRounds - 1)
    BY <1>0, <1>2
  <2>2. Run(<<"fri_fold", i - 1>>) \in RunsSoFar
    BY <2>1 DEF RunsSoFar, FoldsRan
  <2>3. QED
    BY <1>2, <2>2, OutExists DEF Codeword
<1>3. QED
  BY <1>1, <1>2

LEMMA PositionsExist ==
    ASSUME IInv, pc # "idle", Past("grind"), NEW at
    PROVE  ExistsNow(Positions(at))
<1>1. IsAir(air) /\ ~air.recursive /\ InPlace /\ Past("fri_final")
  BY AirsAssumption, DriverAssumption, PlacesAre DEF IInv, InPlace, Places, Past
<1>2. Squeezed(<<"challenge">>) \in SqueezedOf(LogSoFar)
  BY <1>1, LogKnows
<1>3. Run(<<"grind">>) \in RunsSoFar
  BY <1>1, PlacesPassed DEF InPlace, SinglePlaces
<1>4. QED
  BY <1>2, <1>3, PositionsKnown DEF ExistsNow

LEMMA WindowPartsExist ==
    ASSUME IInv, pc \in { "quotient_commit", "evals_sum", "deep_concat" }
    PROVE  AllExist(parts)
<1>1. IsAir(air) /\ PartsAre /\ pc # "idle"
  BY AirsAssumption DEF IInv, EnvIs
<1>2. /\ DOMAIN air.q = 1..Len(air.q) /\ DOMAIN air.e = 1..Len(air.e) /\ DOMAIN air.d = 1..Len(air.d)
  BY <1>1, AirIs
<1>3. CASE pc = "quotient_commit"
  <2>1. Behind("quotient", air.q) = Len(air.q)
    BY <1>3, PlacesAre DEF Behind, Past
  <2>2. \A j \in 1..Len(air.q) : QuotientWindows(air)[j] \in RunsSoFar
    BY <1>2, <2>1 DEF QuotientWindows, RunsSoFar, QuotientsRan
  <2>3. PartsHold(parts, "q", QuotientWindows(air), <<"q">>, Len(air.q))
    BY <1>1, <1>3, <2>1 DEF PartsAre
  <2>4. QED
    BY <1>1, <2>2, <2>3, PartsExist
<1>4. CASE pc = "evals_sum"
  <2>1. Behind("evals", air.e) = Len(air.e)
    BY <1>4, PlacesAre DEF Behind, Past
  <2>2. \A j \in 1..Len(air.e) : EvalsWindows(air)[j] \in RunsSoFar
    BY <1>2, <2>1 DEF EvalsWindows, RunsSoFar, EvalsRan
  <2>3. PartsHold(parts, "evals", EvalsWindows(air), <<"evals">>, Len(air.e))
    BY <1>1, <1>4, <2>1 DEF PartsAre
  <2>4. QED
    BY <1>1, <2>2, <2>3, PartsExist
<1>5. CASE pc = "deep_concat"
  <2>1. Behind("deep", air.d) = Len(air.d)
    BY <1>5, PlacesAre DEF Behind, Past
  <2>2. \A j \in 1..Len(air.d) : DeepWindows(air)[j] \in RunsSoFar
    BY <1>2, <2>1 DEF DeepWindows, RunsSoFar, DeepsRan
  <2>3. PartsHold(parts, "fri_pol", DeepWindows(air), <<"fri_pol">>, Len(air.d))
    BY <1>1, <1>5, <2>1 DEF PartsAre
  <2>4. QED
    BY <1>1, <2>2, <2>3, PartsExist
<1>6. QED
  BY <1>3, <1>4, <1>5

LEMMA BindingsExist == ASSUME IInv, pc \notin { "idle", "end" } PROVE AllExist(BindsFrom)
<1>1. /\ IsAir(air) /\ ~air.recursive /\ InPlace /\ pc \in Places /\ pc # "idle"
      /\ LayersAre /\ CodewordIs /\ DOMAIN env = EnvNames
  BY AirsAssumption, DriverAssumption DEF IInv, InPlace, EnvIs, EnvHolds
<1>2. AllExist(env)
  BY <1>1, EnvExists
<1>3. air.rounds \in Nat
  BY <1>1, AirIs
<1>4. CASE pc \in { "quotient_commit", "evals_sum", "deep_concat" }
  BY <1>4, WindowPartsExist DEF BindsFrom
<1>5. CASE pc \in { "commit", "fold", "fri_final" }
  <2>1. Past("deep_concat")
    BY <1>5, PlacesAre DEF Past
  <2>2. ExistsNow(codeword)
    <3>1. CASE pc = "fri_final"
      <4>1. FoldedRounds = air.rounds /\ codeword = Codeword(air.rounds)
        BY <1>1, <3>1, PlacesAre DEF FoldedRounds, Past, CodewordIs
      <4>2. air.rounds \in 0..FoldedRounds
        BY <1>3, <4>1
      <4>3. QED
        BY <1>1, <2>1, <4>1, <4>2, CodewordExists
    <3>2. CASE pc \in { "commit", "fold" }
      <4>1. FoldedRounds = k /\ codeword = Codeword(k) /\ k \in Rounds(air)
        BY <1>1, <3>2, PlacesAre DEF FoldedRounds, Past, CodewordIs, InPlace
      <4>2. k \in 0..FoldedRounds
        BY <1>3, <4>1 DEF Rounds
      <4>3. QED
        BY <1>1, <2>1, <4>1, <4>2, CodewordExists
    <3>3. QED
      BY <1>5, <3>1, <3>2
  <2>3. pc = "fold" => ExistsNow(Squeezed(<<"beta", k>>))
    <3>1. SUFFICES ASSUME pc = "fold" PROVE ExistsNow(Squeezed(<<"beta", k>>))
      OBVIOUS
    <3>2. k \in 0..(Committed - 1)
      BY <1>1, <1>3, <3>1, PlacesAre DEF Committed, Past, InPlace, Rounds
    <3>3. Squeezed(<<"beta", k>>) \in SqueezedOf(LogSoFar)
      BY <1>1, <3>2, LogKnows
    <3>4. QED
      BY <3>3, SqueezedKnown DEF ExistsNow
  <2>4. AllExist(<<>>)
    BY DEF AllExist
  <2>5. QED
    BY <1>5, <2>2, <2>3, <2>4, BindExists, JoinExists DEF BindsFrom, FriEnv
<1>6. CASE pc = "grind"
  <2>1. Past("fri_final")
    BY <1>6, PlacesAre DEF Past
  <2>2. ExistsNow(Squeezed(<<"challenge">>))
    BY <1>1, <2>1, LogKnows, SqueezedKnown DEF ExistsNow
  <2>3. QED
    BY <1>6, <2>2, BindExists DEF BindsFrom
<1>7. CASE pc = "quotient"
  <2>1. SUFFICES ASSUME Len(air.q) > 1 PROVE ExistsNow(env[<<"rows", k>>])
    BY <1>2, <1>7, BindExists, JoinExists DEF BindsFrom
  <2>2. <<"rows", k>> \in EnvNames
    BY <1>1, <1>7, <2>1 DEF EnvNames, KeyNames, OfTheSetup, Only, Parts, InPlace
  <2>3. QED
    BY <1>1, <1>2, <2>2 DEF AllExist
<1>8. CASE pc \in { "evals", "deep" }
  <2>1. ExistsNow(Window(NextRun[2]))
    BY HostKnown DEF ExistsNow
  <2>2. QED
    BY <1>2, <1>8, <2>1, BindExists, JoinExists DEF BindsFrom
<1>9. CASE pc = "layers"
  <2>1. k \in Rounds(air) /\ Committed = air.rounds /\ LayersOpened = k /\ Past("grind")
    BY <1>1, <1>9, PlacesAre DEF Committed, LayersOpened, Past, InPlace
  <2>2. k + 1 \in 1..Committed /\ ~(k + 1 <= LayersOpened) /\ (k + 1) - 1 = k /\ k \in 0..(Committed - 1)
    BY <1>3, <2>1 DEF Rounds
  <2>3. LayerHolds(layers[k + 1], k)
    BY <1>1, <2>2 DEF LayersAre
  <2>4. Run(<<"fri_commit", k>>) \in RunsSoFar
    BY <2>2 DEF RunsSoFar, CommitsRan
  <2>5. AllExist(layers[k + 1])
    BY <1>1, <2>3, <2>4, OutExists DEF LayerHolds, AllExist
  <2>6. QED
    BY <1>1, <1>9, <2>1, <2>5, PositionsExist, BindExists, JoinExists DEF BindsFrom, OpenEnv
<1>10. CASE pc \in { "open_const", "custom", "open_cm1", "open_cm2", "open_qsec" }
  <2>1. Past("grind")
    BY <1>10, PlacesAre DEF Past
  <2>2. QED
    BY <1>1, <1>2, <1>10, <2>1, PositionsExist, BindExists, JoinExists DEF BindsFrom, OpenEnv
<1>11. CASE pc \in { "witness_calc", "commit1", "logup", "commit2", "lev" }
  BY <1>2, <1>11 DEF BindsFrom
<1>12. QED
  BY <1>1, <1>4, <1>5, <1>6, <1>7, <1>8, <1>9, <1>10, <1>11 DEF Places

\* A program is called with what exists.
LEMMA CallsKnown ==
    ASSUME IInv, pc \notin { "idle", "end" }
    PROVE  ArgsKnown(Called(air, NextRun, BindsFrom), RunsSoFar, SqueezedOf(LogSoFar))
<1> DEFINE b == BindsFrom
           args == Args(air, NextRun, b)
<1>1. AllExist(b)
  BY BindingsExist
<1> HIDE DEF b
<1>2. \A n \in DOMAIN args : n \in DOMAIN b /\ args[n] = b[n]
  BY DEF Args
<1>3. Called(air, NextRun, b).args = args
  BY DEF Called
<1> HIDE DEF args
<1>4. QED
  BY <1>1, <1>2, <1>3 DEF ArgsKnown, AllExist, ExistsNow, b
-----------------------------------------------------------------------------
(* What entered the transcript, and what is on the wire, exists.           *)

LEMMA EmptyKnown == ASSUME NEW o, NEW q PROVE ItemsKnown(<<>>, o, q) /\ PartsKnown(<<>>, o, q)
BY DEF ItemsKnown, PartsKnown

LEMMA PartsConcat ==
    ASSUME NEW s, NEW t, NEW o, NEW q, IsSeq(s), IsSeq(t), PartsKnown(s, o, q), PartsKnown(t, o, q)
    PROVE  PartsKnown(s \o t, o, q)
<1> DEFINE u == s \o t
<1>1. /\ Len(u) = Len(s) + Len(t) /\ Len(s) \in Nat /\ Len(t) \in Nat
      /\ \A j \in 1..Len(s) : u[j] = s[j]
      /\ \A j \in 1..Len(t) : u[Len(s) + j] = t[j]
  BY ConcatIs, SeqIs
<1> HIDE DEF u
<1>2. ASSUME NEW j \in 1..Len(u) PROVE Known(u[j], o, q)
  <2>1. CASE j <= Len(s)
    <3>1. j \in 1..Len(s)
      BY <1>1, <2>1
    <3>2. QED
      BY <1>1, <3>1 DEF PartsKnown
  <2>2. CASE ~(j <= Len(s))
    <3>1. j - Len(s) \in 1..Len(t) /\ j = Len(s) + (j - Len(s))
      BY <1>1, <2>2
    <3>2. u[j] = t[j - Len(s)]
      BY <1>1, <3>1
    <3>3. QED
      BY <3>1, <3>2 DEF PartsKnown
  <2>3. QED
    BY <2>1, <2>2
<1>3. QED
  BY <1>2 DEF PartsKnown, u

\* Something put and names squeezed behind what is known.
LEMMA PutAndSqueezed ==
    ASSUME NEW s, NEW x, NEW names, NEW o, NEW q, IsSeq(s), IsSeq(names),
           ItemsKnown(s, o, q), ItemsKnown(<<x>>, o, q)
    PROVE  /\ IsSeq(s \o <<x>> \o Squeeze(names))
           /\ ItemsKnown(s \o <<x>> \o Squeeze(names), o, q)
<1> DEFINE t == <<x>>
           z == Squeeze(names)
           p == s \o t
<1>1. IsSeq(t) /\ IsSeq(z) /\ ItemsKnown(z, o, q) /\ ItemsKnown(t, o, q)
  BY TupleIsSeq, SqueezeIs, SqueezeKnown
<1> HIDE DEF t, z
<1>2. IsSeq(p) /\ ItemsKnown(p, o, q)
  BY <1>1, ItemsConcat
<1> HIDE DEF p
<1>3. IsSeq(p \o z) /\ ItemsKnown(p \o z, o, q)
  BY <1>1, <1>2, ItemsConcat
<1>4. QED
  BY <1>3 DEF p, t, z

\* A run's output, absorbed.
LEMMA OutAbsorbed ==
    ASSUME NEW r \in Runs(air), NEW n, NEW o, r \in o, NEW q
    PROVE  ItemsKnown(<<Put(Out(r, n))>>, o, q) /\ ItemsKnown(<<Absorb(air, Out(r, n))>>, o, q)
<1> DEFINE v == Out(r, n)
<1>1. Known(v, o, q)
  BY OutKnown
<1> HIDE DEF v
<1>2. QED
  BY <1>1, PutKnown DEF v

LEMMA AirvaluesKnown ==
    ASSUME IsAir(air), NEW o, NEW q, Run(<<"logup">>) \in o, Run(<<"logup">>) \in Runs(air)
    PROVE  ItemsKnown(StageTwoAirvalues(air), o, q)
<1> DEFINE t == StageTwoAirvalues(air)
           r == Run(<<"logup">>)
           value(j) == Out(r, <<"airvalue", StageTwo(air)[j]>>)
<1>1. \A j \in DOMAIN t : t[j] = Put(value(j))
  <2>1. AirvaluesOut[1] = r
    BY DEF AirvaluesOut, Out
  <2>2. DOMAIN t = DOMAIN StageTwo(air)
    BY DEF StageTwoAirvalues
  <2>3. \A j \in DOMAIN StageTwo(air) : t[j] = Put(<<AirvaluesOut[1], <<"airvalue", StageTwo(air)[j]>>>>)
    BY DEF StageTwoAirvalues
  <2>4. QED
    BY <2>1, <2>2, <2>3 DEF Out
<1>2. \A v : Put(v).value = v
  BY DEF Put
<1>3. \A j : Known(value(j), o, q)
  BY OutKnown
<1>4. IsSeq(t)
  BY AirvaluesSeq
<1> HIDE DEF t, value, r
<1>5. DOMAIN t = 1..Len(t)
  BY <1>4, SeqIs
<1>6. ItemsKnown(t, o, q)
  BY <1>1, <1>2, <1>3, <1>5 DEF ItemsKnown
<1>7. QED
  BY <1>6 DEF t

LEMMA NamesAreSeq == (\A stage : IsSeq(StageIds(stage))) /\ \A n : IsSeq(<<n>>)
BY StageIdsAre, TupleIsSeq

\* Up to each place, given the runs up to it.
LEMMA LogsKnown ==
    ASSUME IsAir(air), ~air.recursive, NEW o \in SUBSET Runs(air), NEW q
    PROVE  /\ ItemsKnown(Log2, o, q)
           /\ Run(<<"logup">>) \in o /\ Run(<<"commit2">>) \in o => ItemsKnown(Log3, o, q)
           /\ ItemsKnown(Log3, o, q) /\ Run(<<"quotient_commit">>) \in o => ItemsKnown(Log4, o, q)
           /\ ItemsKnown(Log4, o, q) /\ Run(<<"evals_sum">>) \in o => ItemsKnown(Log5, o, q)
<1>1. IsSeq(Log2) /\ IsSeq(Log3) /\ IsSeq(Log4) /\ IsSeq(Log5)
  BY LogsExtend DEF Extends
<1>2. ItemsKnown(Log2, o, q)
  <2> DEFINE v == Host(<<"global_challenge">>)
             s == <<Put(v)>>
             t == Squeeze(StageIds(2))
  <2>1. Log2 = s \o t
    BY DEF Log2, Seed
  <2>2. Known(v, o, q)
    BY HostKnown
  <2> HIDE DEF v
  <2>3. IsSeq(s) /\ ItemsKnown(s, o, q)
    BY <2>2, PutKnown, TupleIsSeq
  <2>4. IsSeq(t) /\ ItemsKnown(t, o, q)
    BY NamesAreSeq, SqueezeIs, SqueezeKnown
  <2> HIDE DEF s, t
  <2>5. ItemsKnown(s \o t, o, q)
    BY <2>3, <2>4, ItemsConcat
  <2>6. QED
    BY <2>1, <2>5
<1>3. ASSUME Run(<<"logup">>) \in o, Run(<<"commit2">>) \in o PROVE ItemsKnown(Log3, o, q)
  <2> DEFINE x == << Put(Out(Run(<<"commit2">>), <<"root2">>)) >>
             a == StageTwoAirvalues(air)
             t == Squeeze(StageIds(NStages + 1))
             l == Log2
             s == l \o x
             p == s \o a
  <2>1. Log3 = p \o t
    BY DEF Log3
  <2>2. IsSeq(x) /\ ItemsKnown(x, o, q)
    BY <1>3, OutAbsorbed, TupleIsSeq
  <2>3. IsSeq(a) /\ ItemsKnown(a, o, q)
    BY <1>3, AirvaluesSeq, AirvaluesKnown
  <2>4. IsSeq(t) /\ ItemsKnown(t, o, q)
    BY NamesAreSeq, SqueezeIs, SqueezeKnown
  <2>5. IsSeq(l) /\ ItemsKnown(l, o, q)
    BY <1>1, <1>2
  <2> HIDE DEF x, a, t, l
  <2>6. IsSeq(s) /\ ItemsKnown(s, o, q)
    BY <2>2, <2>5, ItemsConcat
  <2> HIDE DEF s
  <2>7. IsSeq(p) /\ ItemsKnown(p, o, q)
    BY <2>3, <2>6, ItemsConcat
  <2> HIDE DEF p
  <2>8. ItemsKnown(p \o t, o, q)
    BY <2>4, <2>7, ItemsConcat
  <2>9. QED
    BY <2>1, <2>8
<1>4. ASSUME ItemsKnown(Log3, o, q), Run(<<"quotient_commit">>) \in o PROVE ItemsKnown(Log4, o, q)
  <2> DEFINE x == Put(Out(Run(<<"quotient_commit">>), <<"rootq">>))
             n == StageIds(NStages + 2)
             l == Log3
  <2>1. Log4 = l \o <<x>> \o Squeeze(n)
    BY DEF Log4
  <2>2. ItemsKnown(<<x>>, o, q) /\ IsSeq(n) /\ IsSeq(l) /\ ItemsKnown(l, o, q)
    BY <1>1, <1>4, OutAbsorbed, NamesAreSeq
  <2> HIDE DEF x, n, l
  <2>3. QED
    BY <2>1, <2>2, PutAndSqueezed
<1>5. ASSUME ItemsKnown(Log4, o, q), Run(<<"evals_sum">>) \in o PROVE ItemsKnown(Log5, o, q)
  <2> DEFINE x == Absorb(air, EvalsOut)
             n == StageIds(NStages + 3)
             l == Log4
  <2>1. Log5 = l \o <<x>> \o Squeeze(n)
    BY DEF Log5
  <2>2. ItemsKnown(<<x>>, o, q) /\ IsSeq(n) /\ IsSeq(l) /\ ItemsKnown(l, o, q)
    BY <1>1, <1>5, OutAbsorbed, NamesAreSeq DEF EvalsOut
  <2> HIDE DEF x, n, l
  <2>3. QED
    BY <2>1, <2>2, PutAndSqueezed
<1>6. QED
  BY <1>2, <1>3, <1>4, <1>5

\* The rounds.
LEMMA RoundsKnown ==
    ASSUME IsAir(air), ~air.recursive, NEW o \in SUBSET Runs(air), NEW q, NEW m \in Nat,
           ItemsKnown(Log5, o, q), \A i \in 0..(m - 1) : Run(<<"fri_commit", i>>) \in o
    PROVE  ItemsKnown(LogRounds(m), o, q)
<1>1. IsSeq(FriRounds(m)) /\ Len(FriRounds(m)) = 2 * m
  BY FriRoundsAre
<1>2. ASSUME NEW j \in 1..Len(FriRounds(m)), FriRounds(m)[j].op # "squeeze"
      PROVE  Known(FriRounds(m)[j].value, o, q)
  <2> DEFINE i == (j - 1) \div 2
             p == 1 + ((j - 1) % 2)
  <2>1. i \in 0..(m - 1) /\ p \in 1..2
    BY <1>1
  <2>2. FriRounds(m)[j] = FriRound(i)[p]
    BY <1>1 DEF FriRounds
  <2> HIDE DEF i, p
  <2>3. ItemsKnown(FriRound(i), o, q) /\ Len(FriRound(i)) = 2
    <3> DEFINE x == << Put(FriRoot(i)) >>
               n == << <<"beta", i>> >>
               t == Squeeze(n)
    <3>1. FriRound(i) = x \o t
      BY DEF FriRound
    <3>2. IsSeq(n)
      BY NamesAreSeq
    <3> HIDE DEF n
    <3>3. IsSeq(t) /\ ItemsKnown(t, o, q)
      BY <3>2, SqueezeIs, SqueezeKnown
    <3>4. IsSeq(x) /\ ItemsKnown(x, o, q)
      <4>1. Run(<<"fri_commit", i>>) \in o
        BY <2>1
      <4>2. QED
        BY <4>1, OutAbsorbed, TupleIsSeq DEF FriRoot
    <3> HIDE DEF x, t
    <3>5. ItemsKnown(x \o t, o, q)
      BY <3>3, <3>4, ItemsConcat
    <3>6. QED
      BY <3>1, <3>5, FriRoundIs
  <2>4. QED
    BY <1>2, <2>1, <2>2, <2>3 DEF ItemsKnown
<1>3. ItemsKnown(FriRounds(m), o, q)
  BY <1>2 DEF ItemsKnown
<1>4. IsSeq(Log5)
  BY LogsExtend DEF Extends
<1>5. QED
  BY <1>1, <1>3, <1>4, ItemsConcat DEF LogRounds

LEMMA LogIsKnown ==
    ASSUME IInv, pc # "idle", NEW q
    PROVE  ItemsKnown(LogSoFar, RunsSoFar, q)
<1> DEFINE o == RunsSoFar
<1>1. IsAir(air) /\ ~air.recursive /\ o \in SUBSET Runs(air) /\ pc \in Places /\ InPlace
  BY RanRuns, AirsAssumption, DriverAssumption DEF IInv, InPlace
<1>2. air.rounds \in Nat /\ Committed \in Nat
  <2>1. air.rounds \in Nat
    BY <1>1, AirIs
  <2>2. QED
    BY <1>1, <2>1 DEF Committed, InPlace, Rounds
<1>3. \A p \in SinglePlaces : Past(p) => Run(<<p>>) \in o
  BY <1>1, PlacesPassed
<1>4. /\ Past("commit2") => Past("logup")
      /\ Past("quotient_commit") => Past("commit2")
      /\ Past("evals_sum") => Past("quotient_commit")
      /\ Past("fri_final") => Past("evals_sum") /\ Committed = air.rounds
  BY <1>1, PlacesAre DEF Past, Places, Committed
<1>5. \A i \in 0..(Committed - 1) : Run(<<"fri_commit", i>>) \in o
  BY DEF RunsSoFar, CommitsRan
<1> HIDE DEF o
<1>6. ItemsKnown(Log2, o, q)
  BY <1>1, LogsKnown
<1>7. Past("commit2") => ItemsKnown(Log3, o, q)
  BY <1>1, <1>3, <1>4, LogsKnown DEF SinglePlaces
<1>8. Past("quotient_commit") => ItemsKnown(Log4, o, q)
  BY <1>1, <1>3, <1>4, <1>7, LogsKnown DEF SinglePlaces
<1>9. Past("evals_sum") => ItemsKnown(Log5, o, q)
  BY <1>1, <1>3, <1>4, <1>8, LogsKnown DEF SinglePlaces
<1>10. Past("evals_sum") => ItemsKnown(LogRounds(Committed), o, q)
  <2> DEFINE m == Committed
  <2>1. m \in Nat /\ \A i \in 0..(m - 1) : Run(<<"fri_commit", i>>) \in o
    BY <1>2, <1>5
  <2> HIDE DEF m
  <2>2. Past("evals_sum") => ItemsKnown(LogRounds(m), o, q)
    BY <1>1, <1>9, <2>1, RoundsKnown
  <2>3. QED
    BY <2>2 DEF m
<1>11. Past("fri_final") => ItemsKnown(LogQueries, o, q)
  <2>1. SUFFICES ASSUME Past("fri_final") PROVE ItemsKnown(LogQueries, o, q)
    OBVIOUS
  <2> DEFINE x == Absorb(air, Out(Run(<<"fri_final">>), <<"final_pol">>))
             l == LogRounds(air.rounds)
             n == << <<"challenge">> >>
  <2>2. LogQueries = l \o <<x>> \o Squeeze(n)
    BY DEF LogQueries
  <2>3. ItemsKnown(l, o, q)
    BY <1>4, <1>10, <2>1
  <2>4. IsSeq(l)
    BY <1>1, LogQueriesExtend DEF Extends
  <2>5. ItemsKnown(<<x>>, o, q)
    <3>1. Run(<<"fri_final">>) \in o /\ Run(<<"fri_final">>) \in Runs(air)
      BY <1>1, <1>3, <2>1 DEF SinglePlaces
    <3>2. QED
      BY <3>1, OutAbsorbed
  <2>6. IsSeq(n)
    BY NamesAreSeq
  <2> HIDE DEF x, l, n
  <2>7. QED
    BY <2>2, <2>3, <2>4, <2>5, <2>6, PutAndSqueezed
<1>12. QED
  BY <1>6, <1>7, <1>8, <1>10, <1>11 DEF LogSoFar, o
-----------------------------------------------------------------------------
(* The wire.                                                               *)

LEMMA OneKnown == ASSUME NEW v, NEW o, NEW q, Known(v, o, q) PROVE IsSeq(<<v>>) /\ PartsKnown(<<v>>, o, q)
<1> DEFINE t == <<v>>
<1>1. IsSeq(t) /\ \A j \in 1..Len(t) : t[j] = v
  BY TupleIsSeq
<1> HIDE DEF t
<1>2. PartsKnown(t, o, q)
  BY <1>1 DEF PartsKnown
<1>3. QED
  BY <1>1, <1>2 DEF t

LEMMA OneMoreKnown ==
    ASSUME NEW s, NEW v, NEW o, NEW q, IsSeq(s), PartsKnown(s, o, q), Known(v, o, q)
    PROVE  PartsKnown(Append(s, v), o, q)
<1> DEFINE t == <<v>>
<1>1. Append(s, v) = s \o t
  BY AppendIs
<1>2. IsSeq(t) /\ PartsKnown(t, o, q)
  BY OneKnown
<1> HIDE DEF t
<1>3. QED
  BY <1>1, <1>2, PartsConcat

\* A list of opened trees or of roots.
LEMMA ListKnown ==
    ASSUME NEW s, NEW n \in Nat, NEW o, NEW q, IsList(s, n), \A j \in 1..n : Known(s[j], o, q)
    PROVE  PartsKnown(s, o, q)
<1>1. Len(s) = n
  BY MapIsSeq DEF IsList
<1>2. QED
  BY <1>1 DEF PartsKnown

LEMMA WireFirstKnown ==
    ASSUME NEW o \in SUBSET Runs(air), NEW q,
           { Run(<<p>>) : p \in { "logup", "commit1", "commit2", "quotient_commit", "evals_sum", "open_const" } } \subseteq o
    PROVE  PartsKnown(WireFirst, o, q)
<1>1. \A p \in { "logup", "commit1", "commit2", "quotient_commit", "evals_sum", "open_const" } :
          \A n : Known(Out(Run(<<p>>), n), o, q)
  BY OutKnown
<1>2. Known(AirgroupvaluesOut(air), o, q)
  BY <1>1, HostKnown DEF AirgroupvaluesOut
<1> DEFINE a == AirgroupvaluesOut(air)
           b == AirvaluesOut
           c == Out(Run(<<"commit1">>), <<"root1">>)
           d == Out(Run(<<"commit2">>), <<"root2">>)
           e == Out(Run(<<"quotient_commit">>), <<"rootq">>)
           f == EvalsOut
           g == Opening(Run(<<"open_const">>))
<1>3. /\ Known(b, o, q) /\ Known(c, o, q) /\ Known(d, o, q) /\ Known(e, o, q) /\ Known(f, o, q) /\ Known(g, o, q)
      /\ Known(a, o, q)
  BY <1>1, <1>2 DEF AirvaluesOut, EvalsOut, Opening
<1>4. WireFirst = <<a, b, c, d, e, f, g>>
  BY DEF WireFirst
<1> HIDE DEF a, b, c, d, e, f, g
<1>5. Len(WireFirst) = 7 /\ \A j \in 1..7 : Known(WireFirst[j], o, q)
  BY <1>3, <1>4
<1>6. QED
  BY <1>5 DEF PartsKnown

LEMMA WireIsKnown ==
    ASSUME IInv, pc # "idle", NEW q
    PROVE  PartsKnown(WireSoFar, RunsSoFar, q)
<1> DEFINE o == RunsSoFar
           customs == Behind("custom", air.customs)
<1>1. IsAir(air) /\ o \in SUBSET Runs(air) /\ pc \in Places /\ InPlace
  BY RanRuns, AirsAssumption DEF IInv, InPlace
<1>2. air.rounds \in Nat /\ LayersOpened \in Nat /\ customs \in Nat /\ Len(air.customs) \in Nat
  <2>1. air.rounds \in Nat /\ Len(air.customs) \in Nat /\ DOMAIN air.customs = 1..Len(air.customs)
    BY <1>1, AirIs
  <2>2. QED
    BY <1>1, <2>1 DEF LayersOpened, InPlace, Rounds, Behind
<1>3. \A p \in SinglePlaces : Past(p) => Run(<<p>>) \in o
  BY <1>1, PlacesPassed
<1>4. /\ Past("open_const") => \A p \in { "logup", "commit1", "commit2", "quotient_commit", "evals_sum" } : Past(p)
      /\ Past("open_cm1") => Past("open_const") /\ customs = Len(air.customs)
      /\ Past("open_cm2") => Past("open_cm1")
      /\ Past("open_qsec") => Past("open_cm2") /\ Committed = air.rounds
  BY <1>1, PlacesAre DEF Past, Places, Committed, Behind
<1>5. /\ \A i \in 0..(Committed - 1) : Run(<<"fri_commit", i>>) \in o
      /\ \A i \in 0..(LayersOpened - 1) : Run(<<"open_fri", i>>) \in o
      /\ \A j \in 1..customs : Run(<<"open_custom", air.customs[j]>>) \in o
  BY DEF RunsSoFar, CommitsRan, LayersRan, CustomsRan
<1> HIDE DEF o
<1>6. \A r \in o : \A n : Known(Out(r, n), o, q)
  BY <1>1, OutKnown
<1>7. /\ IsSeq(WireFirst) /\ IsSeq(Roots) /\ IsSeq(WireCm1) /\ IsSeq(WireCm2) /\ IsSeq(WireQsec)
      /\ \A m \in Nat : IsSeq(CustomOpenings(m)) /\ IsSeq(LayerOpenings(m)) /\ IsSeq(WireTrees(m)) /\ IsSeq(WireLayers(m))
  BY <1>1, WireParts
<1>8. Past("open_const") => PartsKnown(WireTrees(customs), o, q)
  <2>1. SUFFICES ASSUME Past("open_const") PROVE PartsKnown(WireTrees(customs), o, q)
    OBVIOUS
  <2>2. PartsKnown(WireFirst, o, q)
    <3>1. { Run(<<p>>) : p \in { "logup", "commit1", "commit2", "quotient_commit", "evals_sum", "open_const" } } \subseteq o
      BY <1>3, <1>4, <2>1 DEF SinglePlaces
    <3>2. QED
      BY <1>1, <3>1, WireFirstKnown
  <2> DEFINE m == customs
             c == CustomOpenings(m)
  <2>3. m \in Nat /\ IsSeq(c) /\ IsList(c, m) /\ \A j \in 1..m : c[j] = Out(Run(<<"open_custom", air.customs[j]>>), <<"opening">>)
    BY <1>2, <1>7 DEF CustomOpenings, IsList, Opening
  <2>4. \A j \in 1..m : Run(<<"open_custom", air.customs[j]>>) \in o
    BY <1>5
  <2> HIDE DEF c, m
  <2>5. PartsKnown(c, o, q)
    BY <1>6, <2>3, <2>4, ListKnown
  <2>6. PartsKnown(WireFirst \o c, o, q)
    BY <1>7, <2>2, <2>3, <2>5, PartsConcat
  <2>7. QED
    BY <2>6 DEF WireTrees, c, m
<1>9. Past("open_cm1") => PartsKnown(WireCm1, o, q)
  <2>1. SUFFICES ASSUME Past("open_cm1") PROVE PartsKnown(WireCm1, o, q)
    OBVIOUS
  <2> DEFINE t == WireTrees(Len(air.customs))
             v == Opening(Run(<<"open_cm1">>))
  <2>2. PartsKnown(t, o, q) /\ IsSeq(t) /\ Known(v, o, q) /\ WireCm1 = Append(t, v)
    BY <1>2, <1>3, <1>4, <1>6, <1>7, <1>8, <2>1 DEF SinglePlaces, Opening, WireCm1
  <2> HIDE DEF t, v
  <2>3. QED
    BY <2>2, OneMoreKnown
<1>10. Past("open_cm2") => PartsKnown(WireCm2, o, q)
  <2>1. SUFFICES ASSUME Past("open_cm2") PROVE PartsKnown(WireCm2, o, q)
    OBVIOUS
  <2> DEFINE t == WireCm1
             v == Opening(Run(<<"open_cm2">>))
  <2>2. PartsKnown(t, o, q) /\ IsSeq(t) /\ Known(v, o, q) /\ WireCm2 = Append(t, v)
    BY <1>3, <1>4, <1>6, <1>7, <1>9, <2>1 DEF SinglePlaces, Opening, WireCm2
  <2> HIDE DEF t, v
  <2>3. QED
    BY <2>2, OneMoreKnown
<1>11. Past("open_qsec") => PartsKnown(WireQsec, o, q)
  <2>1. SUFFICES ASSUME Past("open_qsec") PROVE PartsKnown(WireQsec, o, q)
    OBVIOUS
  <2> DEFINE w == WireCm2
             v == Opening(Run(<<"open_qsec">>))
             x == <<v>>
             s == w \o x
             r == Roots
             m == air.rounds
  <2>2. PartsKnown(w, o, q) /\ IsSeq(w) /\ Known(v, o, q) /\ WireQsec = s \o r /\ IsSeq(r)
    BY <1>3, <1>4, <1>6, <1>7, <1>10, <2>1 DEF SinglePlaces, Opening, WireQsec
  <2>3. m \in Nat /\ IsList(r, m) /\ \A j \in 1..m : r[j] = Out(Run(<<"fri_commit", j - 1>>), <<"fri_root", j - 1>>)
    BY <1>2 DEF Roots, IsList, FriRoot
  <2>4. \A j \in 1..m : Run(<<"fri_commit", j - 1>>) \in o
    <3>1. \A j \in 1..m : j - 1 \in 0..(Committed - 1)
      BY <1>2, <1>4, <2>1
    <3>2. QED
      BY <1>5, <3>1
  <2> HIDE DEF w, v, r, m
  <2>5. PartsKnown(r, o, q)
    BY <1>6, <2>3, <2>4, ListKnown
  <2>6. IsSeq(x) /\ PartsKnown(x, o, q)
    BY <2>2, OneKnown
  <2> HIDE DEF x
  <2>7. IsSeq(s) /\ PartsKnown(s, o, q)
    BY <2>2, <2>6, PartsConcat, ConcatIs
  <2> HIDE DEF s
  <2>8. QED
    BY <2>2, <2>5, <2>7, PartsConcat
<1>12. Past("open_qsec") => PartsKnown(WireLayers(LayersOpened), o, q)
  <2>1. SUFFICES ASSUME Past("open_qsec") PROVE PartsKnown(WireLayers(LayersOpened), o, q)
    OBVIOUS
  <2> DEFINE m == LayersOpened
             c == LayerOpenings(m)
             w == WireQsec
  <2>2. PartsKnown(w, o, q) /\ IsSeq(w) /\ WireLayers(m) = w \o c
    BY <1>7, <1>11, <2>1 DEF WireLayers
  <2>3. m \in Nat /\ IsSeq(c) /\ IsList(c, m) /\ \A j \in 1..m : c[j] = Out(Run(<<"open_fri", j - 1>>), <<"opening">>)
    BY <1>2, <1>7 DEF LayerOpenings, IsList, Opening
  <2>4. \A j \in 1..m : Run(<<"open_fri", j - 1>>) \in o
    <3>1. \A j \in 1..m : j - 1 \in 0..(m - 1)
      BY <1>2
    <3>2. QED
      BY <1>5, <3>1
  <2> HIDE DEF c, m, w
  <2>5. PartsKnown(c, o, q)
    BY <1>6, <2>3, <2>4, ListKnown
  <2>6. PartsKnown(w \o c, o, q)
    BY <2>2, <2>3, <2>5, PartsConcat
  <2>7. QED
    BY <2>2, <2>6 DEF m
<1>13. PartsKnown(<<>>, o, q)
  BY EmptyKnown
<1>14. QED
  BY <1>8, <1>9, <1>10, <1>12, <1>13 DEF WireSoFar, o

\* What the last step writes.
LEMMA LastPartsKnown ==
    ASSUME IInv, pc = "end", NEW q
    PROVE  IsSeq(LastParts) /\ PartsKnown(LastParts, RunsSoFar, q)
<1> DEFINE a == Out(Run(<<"fri_final">>), <<"final_pol">>)
           b == Out(Run(<<"grind">>), <<"nonce">>)
           o == RunsSoFar
<1>1. Past("fri_final") /\ Past("grind")
  BY PlacesAre DEF Past
<1>2. Known(a, o, q) /\ Known(b, o, q)
  BY <1>1, PlacesPassed, RanRuns, OutKnown DEF SinglePlaces, IInv, InPlace
<1>3. LastParts = <<a, b>>
  BY DEF LastParts
<1> HIDE DEF a, b, o
<1>4. Len(LastParts) = 2 /\ \A j \in 1..2 : Known(LastParts[j], o, q)
  BY <1>2, <1>3
<1>5. IsSeq(LastParts)
  BY <1>3, TupleIsSeq
<1>6. QED
  BY <1>4, <1>5 DEF PartsKnown, o
-----------------------------------------------------------------------------
(* The transcript and the wire only grow in a prove.                       *)

LEMMA PutExtends ==
    ASSUME NEW s, NEW x, NEW names, IsSeq(s), IsSeq(names)
    PROVE  Extends(s, s \o <<x>> \o Squeeze(names))
<1> DEFINE t == <<x>>
           z == Squeeze(names)
           p == s \o t
<1>1. IsSeq(t) /\ IsSeq(z)
  BY TupleIsSeq, SqueezeIs
<1> HIDE DEF t, z
<1>2. IsSeq(p) /\ Extends(s, p)
  BY <1>1, ConcatIs, ConcatExtends
<1> HIDE DEF p
<1>3. Extends(p, p \o z)
  BY <1>1, <1>2, ConcatExtends
<1> DEFINE u == p \o z
<1> HIDE DEF u
<1>4. Extends(s, u)
  BY <1>2, <1>3, ExtendsOn DEF u
<1>5. QED
  BY <1>4 DEF u, p, t, z

LEMMA LogGrows == ASSUME IInv, Traced, TalkingSteps PROVE Extends(log, log')
<1>1. IsAir(air) /\ ~air.recursive /\ InPlace /\ pc # "idle" /\ air' = air
  BY AirsAssumption, DriverAssumption
     DEF IInv, TalkingSteps, Commit2, QuotientCommit, EvalsSum, DeepConcat, FriCommit, FriFold, FriFinal, Kept
<1>2. log = LogSoFar /\ IsSeq(log)
  BY <1>1, LogKnows DEF Traced, Extends
<1>3. CASE Commit2
  <2>1. pc = "commit2" /\ pc' = "quotient"
    BY <1>3 DEF Commit2, At
  <2>2. log = Log2 /\ LogSoFar' = Log3
    BY <1>1, <1>2, <2>1, PlacesAre, TableKept DEF LogSoFar, Past
  <2>3. log' = Log3
    BY <1>2, <1>3, <2>2, LogOfCommit2
  <2>4. QED
    BY <1>1, <2>2, <2>3, LogsExtend
<1>4. CASE QuotientCommit
  <2> DEFINE x == Put(Value(<<"rootq">>))
             n == StageIds(NStages + 2)
  <2>1. log' = log \o <<x>> \o Squeeze(n) /\ IsSeq(n)
    BY <1>4, NamesAreSeq DEF QuotientCommit
  <2> HIDE DEF x, n
  <2>2. QED
    BY <1>2, <2>1, PutExtends
<1>5. CASE EvalsSum
  <2> DEFINE x == Absorb(air, Value(<<"evals">>))
             n == StageIds(NStages + 3)
  <2>1. log' = log \o <<x>> \o Squeeze(n) /\ IsSeq(n)
    BY <1>5, NamesAreSeq DEF EvalsSum
  <2> HIDE DEF x, n
  <2>2. QED
    BY <1>2, <2>1, PutExtends
<1>6. CASE FriCommit
  <2> DEFINE x == Put(Value(<<"fri_root", k>>))
             n == << <<"beta", k>> >>
  <2>1. log' = log \o <<x>> \o Squeeze(n) /\ IsSeq(n)
    BY <1>6, NamesAreSeq DEF FriCommit
  <2> HIDE DEF x, n
  <2>2. QED
    BY <1>2, <2>1, PutExtends
<1>7. CASE FriFinal
  <2> DEFINE x == Absorb(air, Value(<<"final_pol">>))
             n == << <<"challenge">> >>
  <2>1. log' = log \o <<x>> \o Squeeze(n) /\ IsSeq(n)
    BY <1>7, NamesAreSeq DEF FriFinal
  <2> HIDE DEF x, n
  <2>2. QED
    BY <1>2, <2>1, PutExtends
<1>8. CASE DeepConcat \/ FriFold
  <2>1. log' = log
    BY <1>8 DEF DeepConcat, FriFold
  <2>2. QED
    BY <1>2, <2>1, ExtendsItself
<1>9. QED
  BY <1>3, <1>4, <1>5, <1>6, <1>7, <1>8 DEF TalkingSteps

LEMMA AppendExtends == ASSUME NEW s, NEW x, IsSeq(s) PROVE Extends(s, Append(s, x))
<1> DEFINE t == <<x>>
<1>1. Append(s, x) = s \o t /\ IsSeq(t)
  BY AppendIs, TupleIsSeq
<1> HIDE DEF t
<1>2. QED
  BY <1>1, ConcatExtends

LEMMA WireLengthens == ASSUME IInv, Traced, OpeningSteps PROVE Extends(wire, wire')
<1>1. IsAir(air) /\ ~air.recursive /\ InPlace /\ pc # "idle" /\ air' = air
  BY AirsAssumption, DriverAssumption
     DEF IInv, OpeningSteps, OpenConst, OpenCustom, OpenCm1, OpenCm2, OpenStage, OpenQsec, OpenLayer, Kept
<1>2. wire = WireSoFar /\ IsSeq(wire)
  BY <1>1, WireBegins DEF Traced, Extends
<1>3. CASE OpenConst
  <2>1. pc = "open_const" /\ wire' = WireSoFar'
    BY <1>3, OpeningTraced DEF OpeningSteps, OpenConst
  <2>2. wire = <<>>
    BY <1>2, <2>1, NoWireYet DEF BeforeWire
  <2> DEFINE a == env[<<"airgroupvalues">>]
             b == env[<<"airvalues">>]
             c == env[<<"root1">>]
             d == env[<<"root2">>]
             e == env[<<"rootq">>]
             f == env[<<"evals">>]
             v == Value(<<"opening">>)
             h == <<a, b, c, d, e, f>>
             t == <<v>>
             u == h \o t
  <2>3. wire' = u
    BY <1>3 DEF OpenConst, WireHead
  <2> HIDE DEF a, b, c, d, e, f, v
  <2>4. IsSeq(h) /\ IsSeq(t)
    BY TupleIsSeq DEF IsSeq
  <2> HIDE DEF h, t
  <2>5. IsSeq(u)
    BY <2>4, ConcatIs
  <2> HIDE DEF u
  <2>6. IsSeq(<<>>) /\ IsPrefix(<<>>, u)
    BY <2>5, TupleIsSeq, PrefixIs, SeqIs
  <2>7. QED
    BY <2>2, <2>3, <2>5, <2>6 DEF Extends
<1>4. CASE OpenCustom \/ OpenCm1 \/ OpenCm2 \/ OpenLayer
  <2> DEFINE v == Value(<<"opening">>)
  <2>1. wire' = Append(wire, v)
    BY <1>4 DEF OpenCustom, OpenCm1, OpenCm2, OpenStage, OpenLayer
  <2> HIDE DEF v
  <2>2. QED
    BY <1>2, <2>1, AppendExtends
<1>5. CASE OpenQsec
  <2>1. pc = "open_qsec" /\ wire' = WireSoFar'
    BY <1>5, OpeningTraced DEF OpeningSteps, OpenQsec
  <2>2. wire = WireCm2
    BY <1>2, <2>1, PlacesAre DEF WireSoFar, Past
  <2>3. wire' = WireQsec
    <3>1. pc' \in { "layers", "end" } /\ (pc' = "layers" => k' = 0) /\ (pc' = "end" => ~(air.rounds > 0))
      BY <1>5 DEF OpenQsec, At
    <3>2. air.rounds \in Nat
      BY <1>1, AirIs
    <3>3. LayersOpened' = 0
      <4>1. CASE pc' = "layers"
        BY <3>1, <4>1, PlacesAre DEF LayersOpened, Past
      <4>2. CASE pc' = "end"
        <5>1. air.rounds = 0
          BY <3>1, <3>2, <4>2
        <5>2. LayersOpened' = air'.rounds
          BY <4>2, PlacesAre DEF LayersOpened, Past
        <5>3. QED
          BY <1>1, <5>1, <5>2
      <4>3. QED
        BY <3>1, <4>1, <4>2
    <3>4. WireSoFar' = WireLayers(LayersOpened)'
      BY <3>1, PlacesAre DEF WireSoFar, Past
    <3>5. WireQsec' = WireQsec
      BY <1>1, TableKept
    <3>6. WireLayers(LayersOpened)' = WireLayers(0)
      BY <1>1, <3>3, <3>5 DEF WireLayers, LayerOpenings
    <3>7. WireLayers(0) = WireQsec
      <4>1. 0 \in Nat /\ 0 <= 0
        OBVIOUS
      <4>2. QED
        BY <1>1, <4>1, WireGrows
    <3>8. QED
      BY <2>1, <3>4, <3>6, <3>7
  <2> DEFINE x == << Opening(Run(<<"open_qsec">>)) >>
             w == WireCm2
             s == w \o x
             q == Roots
  <2>4. IsSeq(x) /\ IsSeq(w) /\ IsSeq(q) /\ WireQsec = s \o q
    BY <1>1, WireParts, TupleIsSeq DEF WireQsec
  <2> HIDE DEF x, w, q
  <2>5. IsSeq(s) /\ Extends(w, s)
    BY <2>4, ConcatIs, ConcatExtends
  <2> HIDE DEF s
  <2>6. Extends(s, s \o q)
    BY <2>4, <2>5, ConcatExtends
  <2>7. Extends(w, WireQsec)
    BY <2>4, <2>5, <2>6, ExtendsOn
  <2>8. QED
    BY <2>2, <2>3, <2>7 DEF w
<1>6. QED
  BY <1>3, <1>4, <1>5 DEF OpeningSteps
-----------------------------------------------------------------------------
(* Nothing is used before it exists, in any step.                          *)

Keeping ==
    /\ Extends(log, Protocol(air))
    /\ Extends(wire, Wire(air))
    /\ CausalIn(ran, log, wire)

AllKnown ==
    /\ ItemsKnown(log, Over(ran), SqueezedOf(log))
    /\ PartsKnown(wire, Over(ran), SqueezedOf(log))
    /\ Extends(log, Protocol(air))
    /\ Extends(wire, Wire(air))

LEMMA OverIs == ASSUME IInv, pc # "idle" PROVE Over(ran) = RunsSoFar
BY DEF IInv, RanAsScheduled, Over

LEMMA KnownInPlace == IInv /\ Traced /\ pc # "idle" => AllKnown
<1>1. SUFFICES ASSUME IInv, Traced, pc # "idle" PROVE AllKnown
  OBVIOUS
<1>2. IsAir(air) /\ ~air.recursive /\ InPlace
  BY <1>1, AirsAssumption, DriverAssumption DEF IInv
<1>3. log = LogSoFar /\ wire = WireSoFar /\ Over(ran) = RunsSoFar
  BY <1>1, OverIs DEF Traced
<1>4. Extends(log, Protocol(air)) /\ Extends(wire, Wire(air))
  BY <1>1, <1>2, <1>3, LogKnows, WireBegins, LogQueriesIs
<1>5. ItemsKnown(log, Over(ran), SqueezedOf(log)) /\ PartsKnown(wire, Over(ran), SqueezedOf(log))
  <2> DEFINE q == SqueezedOf(log)
  <2> HIDE DEF q
  <2>1. ItemsKnown(LogSoFar, RunsSoFar, q) /\ PartsKnown(WireSoFar, RunsSoFar, q)
    BY <1>1, LogIsKnown, WireIsKnown
  <2>2. QED
    BY <1>3, <2>1 DEF q
<1>6. QED
  BY <1>4, <1>5 DEF AllKnown

LEMMA KnownThen == (IInv /\ Traced /\ pc # "idle")' => AllKnown'
<1>1. IInv /\ Traced /\ pc # "idle" => AllKnown
  BY KnownInPlace
<1>2. QED
  BY <1>1, PTL

LEMMA ScheduledThen == ASSUME IInv' PROVE AsScheduled(ran)'
BY DEF IInv, RanAsScheduled, AsScheduled

\* From what is known before a step to what it keeps.
LEMMA KeepsOn ==
    ASSUME IInv', Traced', pc' # "idle", air' = air, NEW R, NEW l, NEW w,
           R \subseteq ran', CausalIn(R, l, w), Extends(l, log'), Extends(w, wire'), NewRunsKnown(R, ran', l)
    PROVE  Keeping'
<1> DEFINE S == ran'
           m == log'
           x == wire'
           o == Over(S)
           q == SqueezedOf(m)
<1>1. ItemsKnown(m, o, q) /\ PartsKnown(x, o, q) /\ Extends(m, Protocol(air')) /\ Extends(x, Wire(air'))
  BY KnownThen DEF AllKnown
<1>2. AsScheduled(S)
  BY ScheduledThen DEF AsScheduled
<1>3. NewItemsKnown(l, m, Over(S)) /\ NewPartsKnown(w, x, Over(S), SqueezedOf(m))
  <2>1. \A j \in 1..Len(m) : m[j].op # "squeeze" => Known(m[j].value, o, q)
    BY <1>1 DEF ItemsKnown
  <2>2. \A j \in 1..Len(x) : Known(x[j], o, q)
    BY <1>1 DEF PartsKnown
  <2> HIDE DEF m, x, S
  <2>3. QED
    BY <2>1, <2>2 DEF NewItemsKnown, NewPartsKnown
<1>4. R \subseteq S /\ Extends(l, m) /\ Extends(w, x) /\ NewRunsKnown(R, S, l)
  OBVIOUS
<1> HIDE DEF S, m, x
<1>5. CausalIn(S, m, x)
  BY <1>2, <1>3, <1>4, CausalStep
<1>6. QED
  BY <1>1, <1>5 DEF Keeping, S, m, x

\* A step that runs a program.
LEMMA ProgramKeeps ==
    ASSUME IInv, Traced, Keeping, IInv', Traced', pc' # "idle", air' = air, pc \notin { "idle", "end" },
           RunOnce, Extends(log, log'), Extends(wire, wire')
    PROVE  Keeping' /\ ran \subseteq ran'
<1> DEFINE c == Called(air, NextRun, BindsFrom)
<1>1. ran' = ran \cup {c}
  BY DEF RunOnce
<1>2. ArgsKnown(c, Over(ran), SqueezedOf(log))
  BY CallsKnown, OverIs DEF Traced
<1> HIDE DEF c
<1>3. NewRunsKnown(ran, ran', log)
  BY <1>1, <1>2 DEF NewRunsKnown
<1>4. CausalIn(ran, log, wire) /\ ran \subseteq ran'
  BY <1>1 DEF Keeping
<1>5. QED
  BY <1>3, <1>4, KeepsOn

LEMMA ProgramSteps ==
    ASSUME QuietSteps \/ TalkingSteps \/ OpeningSteps
    PROVE  RunOnce /\ pc \notin { "idle", "end" } /\ pc' # "idle" /\ air' = air
<1>1. CASE QuietSteps
  BY <1>1 DEF QuietSteps, WitnessCalc, Commit1, LogUp, Quotient, Lev, Evals, Deep, Grind, At, Kept
<1>2. CASE TalkingSteps
  BY <1>2 DEF TalkingSteps, Commit2, QuotientCommit, EvalsSum, DeepConcat, FriCommit, FriFold, FriFinal, At, ToRound, Kept
<1>3. CASE OpeningSteps
  BY <1>3 DEF OpeningSteps, OpenConst, OpenCustom, OpenCm1, OpenCm2, OpenStage, OpenQsec, OpenLayer, At, Kept
<1>4. QED
  BY <1>1, <1>2, <1>3

LEMMA LogsAreSeq == ASSUME Keeping PROVE IsSeq(log) /\ IsSeq(wire)
BY DEF Keeping, Extends

LEMMA ProgramsGrow ==
    ASSUME IInv, Traced, Keeping, QuietSteps \/ TalkingSteps \/ OpeningSteps
    PROVE  Extends(log, log') /\ Extends(wire, wire')
<1>1. Extends(log, log) /\ Extends(wire, wire)
  BY LogsAreSeq, ExtendsItself
<1>2. CASE QuietSteps
  BY <1>1, <1>2, QuietTraced
<1>3. CASE TalkingSteps
  BY <1>1, <1>3, TalkingTraced, LogGrows
<1>4. CASE OpeningSteps
  BY <1>1, <1>4, OpeningTraced, WireLengthens
<1>5. QED
  BY <1>2, <1>3, <1>4

\* What the setup programs ran on comes from the host.
LEMMA SetupKnown == ASSUME NEW r \in SetupRan, NEW o, NEW s PROVE ArgsKnown(r, o, s)
<1> DEFINE uploaded == [n \in BaseNames(air) |-> Host(n)]
<1>1. PICK p \in SetupNames(air) : r = Called(air, Run(p), uploaded)
  BY DEF SetupRan
<1>2. \A n \in DOMAIN uploaded : Known(uploaded[n], o, s)
  BY HostKnown
<1> HIDE DEF uploaded
<1>3. r.args = Args(air, Run(p), uploaded)
  BY <1>1 DEF Called
<1> DEFINE args == Args(air, Run(p), uploaded)
<1>4. \A n \in DOMAIN args : n \in DOMAIN uploaded /\ args[n] = uploaded[n]
  BY DEF Args
<1> HIDE DEF args
<1>5. QED
  BY <1>2, <1>3, <1>4 DEF ArgsKnown, args
-----------------------------------------------------------------------------
(* Every step is one of GenProof's, or none.                               *)

LEMMA NothingNew ==
    ASSUME NEW l, NEW o, NEW q, IsSeq(l)
    PROVE  Extends(l, l) /\ NewItemsKnown(l, l, o) /\ NewPartsKnown(l, l, o, q)
BY ExtendsItself DEF NewItemsKnown, NewPartsKnown

LEMMA NothingIsCausal == CausalIn({}, <<>>, <<>>)
BY DEF CausalIn, CausalRuns, CausalWire

LEMMA InitKeeping == ASSUME Init PROVE Keeping
<1>1. IsAir(air) /\ ~air.recursive /\ log = <<>> /\ wire = <<>> /\ ran = {}
  BY AirsAssumption, DriverAssumption DEF Init
<1>2. IsSeq(Protocol(air))
  BY <1>1, LogQueriesExtend, LogQueriesIs DEF Extends
<1>3. IsSeq(Wire(air))
  <2> DEFINE s == WireLayers(air.rounds)
             t == LastParts
  <2>1. air.rounds \in Nat
    BY <1>1, AirIs
  <2>2. IsSeq(s) /\ IsSeq(t) /\ Wire(air) = s \o t
    BY <1>1, <2>1, WireParts, WireIs DEF WholeWire
  <2> HIDE DEF s, t
  <2>3. QED
    BY <2>2, ConcatIs
<1>4. IsSeq(<<>>) /\ \A s : IsSeq(s) => Extends(<<>>, s)
  <2>1. IsSeq(<<>>)
    BY TupleIsSeq
  <2>2. ASSUME NEW s, IsSeq(s) PROVE IsPrefix(<<>>, s)
    BY <2>1, <2>2, PrefixIs, SeqIs
  <2>3. QED
    BY <2>1, <2>2 DEF Extends
<1>5. QED
  BY <1>1, <1>2, <1>3, <1>4, NothingIsCausal DEF Keeping

LEMMA StartKeeps ==
    ASSUME IInv, IInv', Traced', NEW keeps \in BOOLEAN, StartProve(keeps)
    PROVE  /\ Keeping' /\ air' = air /\ wire' = <<>>
           /\ IsPrefix(log', Seed(air) \o Squeeze(StageIds(2)))
           /\ \A r \in ran' : \E p \in SetupNames(air) : r.run = Run(p)
<1>1. IsAir(air) /\ ~air.recursive
  BY AirsAssumption, DriverAssumption DEF IInv
<1>2. air' = air /\ ran' = SetupRan /\ log' = Log2 /\ wire' = <<>>
  BY <1>1, StartTraced
<1>3. pc' # "idle"
  BY DEF StartProve, At
<1>4. IsSeq(Log2) /\ IsSeq(<<>>)
  BY <1>1, LogsExtend, TupleIsSeq DEF Extends
<1>5. Extends(<<>>, log') /\ Extends(<<>>, wire') /\ IsPrefix(log', Log2)
  <2>1. IsPrefix(<<>>, Log2)
    BY <1>4, PrefixIs, SeqIs
  <2>2. Extends(Log2, Log2) /\ Extends(<<>>, <<>>)
    BY <1>4, ExtendsItself
  <2>3. QED
    BY <1>2, <1>4, <2>1, <2>2 DEF Extends
<1>6. NewRunsKnown({}, ran', <<>>)
  BY <1>2, SetupKnown DEF NewRunsKnown
<1>7. Keeping'
  <2> DEFINE R == {}
             l == <<>>
  <2>1. R \subseteq ran' /\ CausalIn(R, l, l) /\ Extends(l, log') /\ Extends(l, wire') /\ NewRunsKnown(R, ran', l)
    BY <1>5, <1>6, NothingIsCausal
  <2> HIDE DEF R, l
  <2>2. QED
    BY <1>2, <1>3, <2>1, KeepsOn
<1>8. \A r \in ran' : \E p \in SetupNames(air) : r.run = Run(p)
  BY <1>2, SetupRanIs DEF RunsOf
<1>9. QED
  BY <1>2, <1>5, <1>7, <1>8 DEF Log2

\* The setup, between two proves.
LEMMA SetFixedKeeps ==
    ASSUME IInv, IInv', Keeping, SetFixed
    PROVE  /\ Keeping' /\ air' = air /\ ran \subseteq ran' /\ log' = log /\ wire' = wire
<1>1. air' = air /\ log' = log /\ wire' = wire /\ (ran' = ran \/ ran' = ran \cup SetupRan)
  BY DEF SetFixed
<1> DEFINE R == ran
           S == ran'
           o == Over(S)
           q == SqueezedOf(log)
           l == log
           w == wire
<1>2. R \subseteq S /\ NewRunsKnown(R, S, l)
  BY <1>1, SetupKnown DEF NewRunsKnown
<1>3. AsScheduled(S)
  BY <1>1, ScheduledThen DEF AsScheduled
<1>4. IsSeq(l) /\ IsSeq(w) /\ CausalIn(R, l, w)
  BY LogsAreSeq DEF Keeping
<1>5. CausalIn(S, l, w)
  <2> HIDE DEF R, S, l, w
  <2>1. Extends(l, l) /\ NewItemsKnown(l, l, Over(S))
    BY <1>4, NothingNew
  <2>2. Extends(w, w) /\ NewPartsKnown(w, w, Over(S), SqueezedOf(l))
    BY <1>4, NothingNew
  <2>3. QED
    BY <1>2, <1>3, <1>4, <2>1, <2>2, CausalStep
<1>6. QED
  BY <1>1, <1>2, <1>5 DEF Keeping

LEMMA FinishKeeps ==
    ASSUME IInv, Traced, IInv', Keeping, Finish
    PROVE  /\ Keeping' /\ air' = air /\ ran' = ran /\ log' = log /\ Extends(wire, wire')
<1>1. /\ air' = air /\ ran' = ran /\ log' = log /\ pc = "end" /\ wire' = wire \o LastParts
  BY DEF Finish, Kept, LastParts
<1>2. wire' = Wire(air)
  BY WholeAtTheEnd
<1> DEFINE R == ran
           l == log
           w == wire
           t == LastParts
           o == Over(R)
           q == SqueezedOf(l)
           x == w \o t
<1>3. IsSeq(t) /\ PartsKnown(t, o, q)
  BY <1>1, LastPartsKnown, OverIs
<1>4. IsSeq(l) /\ IsSeq(w) /\ CausalIn(R, l, w)
  BY LogsAreSeq DEF Keeping
<1>5. AsScheduled(R) /\ R \subseteq R /\ NewRunsKnown(R, R, l)
  BY DEF IInv, RanAsScheduled, AsScheduled, NewRunsKnown
<1>6. Extends(w, x) /\ NewPartsKnown(w, x, o, q) /\ IsSeq(x)
  <2> HIDE DEF w, t, o, q
  <2>1. QED
    BY <1>3, <1>4, PartsAreNew, ConcatIs
<1>7. Extends(l, l) /\ NewItemsKnown(l, l, o)
  BY <1>4, NothingNew
<1>8. CausalIn(R, l, x)
  <2> HIDE DEF R, l, w, x
  <2>1. QED
    BY <1>4, <1>5, <1>6, <1>7, CausalStep
<1>9. Extends(x, Wire(air))
  <2>1. x = Wire(air)
    BY <1>1, <1>2
  <2> HIDE DEF x
  <2>2. QED
    BY <1>6, <2>1, ExtendsItself
<1>10. QED
  BY <1>1, <1>6, <1>8, <1>9 DEF Keeping

LEMMA RestKeeps ==
    ASSUME Keeping, DropFixed \/ Fail \/ UNCHANGED vars
    PROVE  Keeping' /\ UNCHANGED <<air, ran, log, wire>>
<1>1. air' = air /\ ran' = ran /\ log' = log /\ wire' = wire
  <2>1. CASE DropFixed
    BY <2>1 DEF DropFixed
  <2>2. CASE Fail
    BY <2>2 DEF Fail, Kept
  <2>3. CASE UNCHANGED vars
    BY <2>3 DEF vars
  <2>4. QED
    BY <2>1, <2>2, <2>3
<1>2. QED
  BY <1>1 DEF Keeping

\* What is kept is what GenProof calls consistent.
LEMMA KeptIsConsistent ==
    ASSUME IInv', Keeping'
    PROVE  Schedule!Consistent'
BY ConsistentThen, ScheduledThen DEF Keeping, Extends

LEMMA Advances ==
    ASSUME IInv', Keeping', air' = air, ran \subseteq ran', Extends(log, log'), Extends(wire, wire')
    PROVE  Schedule!Advance
BY KeptIsConsistent DEF Schedule!Advance, Extends, Schedule!IsPrefix, IsPrefix

LEMMA StepFollows ==
    ASSUME IInv, Traced, Keeping, IInv', Traced', [Next]_vars
    PROVE  Keeping' /\ [Schedule!Next]_<<air, ran, log, wire>>
<1>1. Extends(log, log) /\ Extends(wire, wire)
  BY LogsAreSeq, ExtendsItself
<1>2. CASE QuietSteps \/ TalkingSteps \/ OpeningSteps
  <2>1. Extends(log, log') /\ Extends(wire, wire')
    BY <1>2, ProgramsGrow
  <2>2. RunOnce /\ pc \notin { "idle", "end" } /\ pc' # "idle" /\ air' = air
    BY <1>2, ProgramSteps
  <2>3. Keeping' /\ ran \subseteq ran'
    BY <2>1, <2>2, ProgramKeeps
  <2>4. QED
    BY <2>1, <2>2, <2>3, Advances DEF Schedule!Next
<1>3. ASSUME NEW keeps \in BOOLEAN, StartProve(keeps)
      PROVE  Keeping' /\ [Schedule!Next]_<<air, ran, log, wire>>
  <2>1. /\ Keeping' /\ air' = air /\ wire' = <<>>
        /\ IsPrefix(log', Seed(air) \o Squeeze(StageIds(2)))
        /\ \A r \in ran' : \E p \in SetupNames(air) : r.run = Run(p)
    BY <1>3, StartKeeps
  <2>2. Schedule!Start
    BY <2>1, KeptIsConsistent DEF Schedule!Start, Schedule!IsPrefix, IsPrefix
  <2>3. QED
    BY <2>1, <2>2 DEF Schedule!Next
<1>4. CASE SetFixed
  BY <1>1, <1>4, SetFixedKeeps, Advances DEF Schedule!Next
<1>5. CASE Finish
  BY <1>1, <1>5, FinishKeeps, Advances DEF Schedule!Next
<1>6. CASE DropFixed \/ Fail \/ UNCHANGED vars
  BY <1>6, RestKeeps
<1>7. QED
  BY <1>2, <1>3, <1>4, <1>5, <1>6 DEF Next, QuietSteps, TalkingSteps, OpeningSteps

\* The driver follows the schedule, for every AIR of a block, under either
\* residency and after any failure: each program gets the values its table
\* names and not before they exist, nothing enters the transcript or the proof
\* out of order, and nothing absorbed depends on a challenge squeezed after it.
THEOREM DriverKeepsToTheSchedule == Spec => ImplementsGenProof
<1>1. Init => IInv /\ Traced /\ Keeping /\ Schedule!Init
  BY InitHolds, InitKeeping DEF Init, Traced, Schedule!Init
<1>2. IInv /\ Traced /\ Keeping /\ [Next]_vars
        => /\ IInv' /\ Traced' /\ Keeping'
           /\ [Schedule!Next]_<<air, ran, log, wire>>
  BY StepKeeps, TracedStays, StepFollows
<1>3. QED
  BY <1>1, <1>2, PTL DEF Spec, ImplementsGenProof, Schedule!Spec

\* Both: a prove is on the schedule at every step, and finishes it all.
THEOREM DriverFollowsTheSchedule == Spec => ProvesFollowTheSchedule
BY ProofsAreWholeWhenFinished, DriverKeepsToTheSchedule DEF ProvesFollowTheSchedule
=============================================================================
