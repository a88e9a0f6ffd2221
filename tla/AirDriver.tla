----------------------------- MODULE AirDriver -----------------------------
(***************************************************************************)
(* AirDriver::prove of bridge/src/driver.rs: one instance after another    *)
(* through an AIR's programs, every buffer bound by its name out of an     *)
(* environment that lets go of it after what the driver believes is its    *)
(* last reader.  The fixed sections stay with the driver or go with the    *)
(* prove, as its residency says.  Any program, upload or download may      *)
(* fail, and the prove then ends.                                          *)
(***************************************************************************)
EXTENDS Replay

\* The driver has the schedule of a block's AIRs only: the recursion's circuits
\* are not proved by it, and their seed, which binds root1, is not in it.
ASSUME DriverAssumption == \A a \in Airs : ~a.recursive

VARIABLES
    air,        \* the AIR of this driver's artifact
    fixed,      \* the environment left by set_fixed: <<>> if there is none
    proves,     \* proves started so far
    pc,         \* where the prove is: "idle" outside of it
    k,          \* the window, commit or round it is at
    keep,       \* its residency is Keep
    env,        \* its environment
    parts,      \* the windows of the quotient, openings or DEEP batch so far
    codeword,   \* the codeword of the next FRI round
    layers,     \* the environments of the FRI rounds so far
    ran,        \* history: the runs of this prove and of its setup
    log,        \* history: what entered and left the transcript
    wire        \* the proof so far

vars == <<air, fixed, proves, pc, k, keep, env, parts, codeword, layers, ran, log, wire>>

Without(e, names) == [n \in DOMAIN e \ names |-> e[n]]

\* release_tree: the section and every layer above it.
ReleaseTree(e, section, above) == Without(e, { section, above })

\* run_into: the outputs join the environment, layers under their new name.
RunIntoRenamed(e, run, from, to) ==
    LET outs == Programs(air)[run[1]].out
    IN  [n \in (outs \ {from}) \cup (IF from \in outs THEN {to} ELSE {}) |->
           Out(run, IF n = to THEN from ELSE n)] ++ e

RunInto(e, run) == RunIntoRenamed(e, run, <<>>, <<>>)

-----------------------------------------------------------------------------
(* The key's sections.                                                     *)

\* What set_fixed leaves when every program went through.
SetupEnv ==
    LET uploaded == [n \in BaseNames(air) |-> Host(n)]
        consts == RunInto(uploaded, Run(<<"constants">>))
        const  == RunIntoRenamed(consts, Run(<<"const_setup">>),
                                 <<"const_setup_layers">>, <<"const_layers">>)
        custom(c) == RunIntoRenamed(<<>>, Run(<<"custom_setup", c>>),
                                    <<"custom_setup_layers", c>>, <<"custom_layers", c>>)
        trees  == [n \in UNION { DOMAIN custom(c) : c \in Ids(air) } |-> custom(n[2])[n]] ++ const
    IN  IF Len(air.q) = 1 THEN trees
        ELSE [n \in Parts("rows", air.q) |-> Window(StartOf(air.q, n[2]))] ++ trees

SetupRan ==
    LET uploaded == [n \in BaseNames(air) |-> Host(n)]
    IN  { Called(air, Run(p), uploaded) : p \in SetupNames(air) }

SetFixed ==
    /\ pc = "idle"
    /\ fixed = <<>>
    /\ \/ /\ fixed' = SetupEnv
          /\ ran' = ran \cup SetupRan
       \/ UNCHANGED <<fixed, ran>>                  \* a setup program failed
    /\ UNCHANGED <<air, proves, pc, k, keep, env, parts, codeword, layers, log, wire>>

DropFixed ==
    /\ pc = "idle"
    /\ fixed' = <<>>
    /\ UNCHANGED <<air, proves, pc, k, keep, env, parts, codeword, layers, ran, log, wire>>

\* The base sections no program after logup reads, by the manifest.
RunsByLogup == { <<"constants">>, <<"const_setup">>, <<"witness_calc">>, <<"commit1">>, <<"logup">> }
                 \cup Named("custom_setup", Ids(air))

BaseDeadAfterLogup ==
    { n \in BaseNames(air) :
        \A p \in ProgramNames(air) \ RunsByLogup : n \notin Programs(air)[p].in }

-----------------------------------------------------------------------------
(* The prove: the program it is about to run, and the environment it binds *)
(* the program's inputs from.                                              *)

FriEnv == Bind(<<"codeword">>, codeword)
    ++ (IF pc = "fold" THEN Bind(<<"beta">>, Squeezed(<<"beta", k>>)) ELSE <<>>)

OpenEnv(e, at) == Bind(<<"positions">>, Positions(at)) ++ e

NextRun ==
    CASE pc = "quotient" -> QuotientRun(air, k)
      [] pc = "evals"    -> EvalsRun(air, k)
      [] pc = "deep"     -> DeepRun(air, k)
      [] pc = "commit"   -> Run(<<"fri_commit", k>>)
      [] pc = "fold"     -> Run(<<"fri_fold", k>>)
      [] pc = "custom"   -> Run(<<"open_custom", air.customs[k]>>)
      [] pc = "layers"   -> Run(<<"open_fri", k>>)
      [] OTHER           -> Run(<<pc>>)

BindsFrom ==
    CASE pc \in { "quotient_commit", "evals_sum", "deep_concat" } -> parts
      [] pc \in { "commit", "fold", "fri_final" } -> FriEnv
      [] pc = "grind" -> Bind(<<"challenge">>, Squeezed(<<"challenge">>))
      [] pc = "quotient" /\ Len(air.q) > 1 ->
            Bind(<<"rows">>, env[<<"rows", k>>]) ++ env
      [] pc \in { "evals", "deep" } -> Bind(<<"start">>, Window(NextRun[2])) ++ env
      [] pc = "layers" -> OpenEnv(layers[k + 1], <<"round", k>>)
      [] pc \in { "open_const", "custom", "open_cm1", "open_cm2", "open_qsec" } ->
            OpenEnv(env, Extended)
      [] OTHER -> env

Value(name) == Out(NextRun, name)
RunOnce == ran' = ran \cup { Called(air, NextRun, BindsFrom) }
Bound(bindings) == bindings ++ env
At(next, j) == pc' = next /\ k' = j
Kept == UNCHANGED <<air, fixed, proves, keep>>

-----------------------------------------------------------------------------
(* Stages 1 and 2.                                                         *)

Uploaded == [n \in Scalars \cup { <<"trace">> } |-> Host(n)]
Challenges(stage) == Bind(<<"challenges">>, ChallengesUpTo(stage))

StartProve(keeps) ==
    /\ pc = "idle"
    /\ proves < MaxProves
    /\ fixed # <<>>                                  \* prove: set_fixed first
    /\ proves' = proves + 1
    /\ keep' = keeps
    /\ fixed' = IF keeps THEN fixed ELSE <<>>
    /\ env' = Challenges(2) ++ Uploaded ++ fixed
    /\ ran' = SetupRan
    /\ log' = << Put(Host(<<"global_challenge">>)) >> \o Squeeze(StageIds(2))
    /\ wire' = <<>>
    /\ At(IF air.witness THEN "witness_calc" ELSE "commit1", 0)
    /\ UNCHANGED <<air, parts, codeword, layers>>

WitnessCalc ==
    /\ pc = "witness_calc"
    /\ RunOnce
    /\ env' = Bound(Bind(<<"trace">>, Value(<<"trace">>)))
    /\ At("commit1", 0)
    /\ Kept /\ UNCHANGED <<parts, codeword, layers, log, wire>>

\* Mutant: the base trace goes with its commitment.
Commit1FreeingTrace ==
    /\ pc = "commit1"
    /\ RunOnce
    /\ env' = Without(RunInto(env, NextRun), { <<"trace">> })
    /\ At("logup", 0)
    /\ Kept /\ UNCHANGED <<parts, codeword, layers, log, wire>>

Commit1 ==
    /\ pc = "commit1"
    /\ RunOnce
    /\ env' = RunInto(env, NextRun)
    /\ At("logup", 0)
    /\ Kept /\ UNCHANGED <<parts, codeword, layers, log, wire>>

LogUp ==
    /\ pc = "logup"
    /\ RunOnce
    /\ env' = Without(RunInto(env, NextRun),
                      { <<"trace">> } \cup (IF keep THEN {} ELSE BaseDeadAfterLogup))
    /\ At("commit2", 0)
    /\ Kept /\ UNCHANGED <<parts, codeword, layers, log, wire>>

\* run commit2, absorb its root and the stage-2 air values, upload the next
\* challenges and the airgroup values.
Commit2 ==
    /\ pc = "commit2"
    /\ RunOnce
    /\ LET committed == Without(RunInto(env, NextRun), { <<"cm2">> })
           agv == IF <<"airgroupvalue">> \in DOMAIN env THEN env[<<"airgroupvalue">>]
                                                        ELSE Host(<<"zeros">>)
           airvalue(i) == Put(<<env[<<"airvalues">>][1], <<"airvalue", i>>>>)
       IN  /\ log' = log \o << Put(committed[<<"root2">>]) >>
                        \o [j \in DOMAIN StageTwo(air) |-> airvalue(StageTwo(air)[j])]
                        \o Squeeze(StageIds(NStages + 1))
           /\ env' = Challenges(NStages + 1) ++ Bind(<<"airgroupvalues">>, agv) ++ committed
    /\ At("quotient", 1)
    /\ Kept /\ UNCHANGED <<parts, codeword, layers, wire>>

-----------------------------------------------------------------------------
(* The quotient.                                                           *)

Part(name, out) == parts' = Bind(<<name, k>>, Value(out)) ++ parts

Quotient ==
    /\ pc = "quotient"
    /\ RunOnce
    /\ Part("q", <<"q">>)
    /\ IF k < Len(air.q) THEN At("quotient", k + 1) ELSE At("quotient_commit", 0)
    /\ Kept /\ UNCHANGED <<env, codeword, layers, log, wire>>

QuotientCommit ==
    /\ pc = "quotient_commit"
    /\ RunOnce
    /\ env' = Bind(<<"xi">>, Squeezed(<<"std_xi">>)) ++ RunInto(env, NextRun)
    /\ parts' = <<>>
    /\ log' = log \o << Put(Value(<<"rootq">>)) >> \o Squeeze(StageIds(NStages + 2))
    /\ At("lev", 0)
    /\ Kept /\ UNCHANGED <<codeword, layers, wire>>

-----------------------------------------------------------------------------
(* The openings and the DEEP batch.                                        *)

Lev ==
    /\ pc = "lev"
    /\ RunOnce
    /\ env' = RunInto(env, NextRun)
    /\ At("evals", 1)
    /\ Kept /\ UNCHANGED <<parts, codeword, layers, log, wire>>

Evals ==
    /\ pc = "evals"
    /\ RunOnce
    /\ Part("evals", <<"evals">>)
    /\ IF k < Len(air.e) THEN At("evals", k + 1) ELSE At("evals_sum", 0)
    /\ Kept /\ UNCHANGED <<env, codeword, layers, log, wire>>

EvalsSum ==
    /\ pc = "evals_sum"
    /\ RunOnce
    /\ env' = Bind(<<"vf1">>, Squeezed(<<"std_vf1">>)) ++ Bind(<<"vf2">>, Squeezed(<<"std_vf2">>))
                 ++ Bind(<<"evals">>, Value(<<"evals">>)) ++ Without(env, { <<"lev">> })
    /\ parts' = <<>>
    /\ log' = log \o << Absorb(air, Value(<<"evals">>)) >> \o Squeeze(StageIds(NStages + 3))
    /\ At("deep", 1)
    /\ Kept /\ UNCHANGED <<codeword, layers, wire>>

Deep ==
    /\ pc = "deep"
    /\ RunOnce
    /\ Part("fri_pol", <<"fri_pol">>)
    /\ IF k < Len(air.d) THEN At("deep", k + 1) ELSE At("deep_concat", 0)
    /\ Kept /\ UNCHANGED <<env, codeword, layers, log, wire>>

ToRound(i) == IF i < air.rounds THEN At("commit", i) ELSE At("fri_final", 0)

DeepConcat ==
    /\ pc = "deep_concat"
    /\ RunOnce
    /\ parts' = <<>>
    /\ codeword' = Value(<<"fri_pol">>)
    /\ ToRound(0)
    /\ Kept /\ UNCHANGED <<env, layers, log, wire>>

-----------------------------------------------------------------------------
(* FRI, and the query draw.                                                *)

FriCommit ==
    /\ pc = "commit"
    /\ RunOnce
    /\ layers' = Append(layers, RunInto(<<>>, NextRun))
    /\ log' = log \o << Put(Value(<<"fri_root", k>>)) >> \o Squeeze(<< <<"beta", k>> >>)
    /\ At("fold", k)
    /\ Kept /\ UNCHANGED <<env, parts, codeword, wire>>

FriFold ==
    /\ pc = "fold"
    /\ RunOnce
    /\ codeword' = Value(<<"codeword">>)
    /\ ToRound(k + 1)
    /\ Kept /\ UNCHANGED <<env, parts, layers, log, wire>>

FriFinal ==
    /\ pc = "fri_final"
    /\ RunOnce
    /\ log' = log \o << Absorb(air, Value(<<"final_pol">>)) >> \o Squeeze(<< <<"challenge">> >>)
    /\ At("grind", 0)
    /\ Kept /\ UNCHANGED <<env, parts, codeword, layers, wire>>

Grind ==
    /\ pc = "grind"
    /\ RunOnce
    /\ At("open_const", 0)
    /\ Kept /\ UNCHANGED <<env, parts, codeword, layers, log, wire>>

-----------------------------------------------------------------------------
(* The wire, tree by tree.                                                 *)

WireHead ==
    << env[<<"airgroupvalues">>], env[<<"airvalues">>], env[<<"root1">>], env[<<"root2">>],
       env[<<"rootq">>], env[<<"evals">>] >>

OpenConst ==
    /\ pc = "open_const"
    /\ RunOnce
    /\ wire' = WireHead \o << Value(<<"opening">>) >>
    /\ env' = IF keep THEN env ELSE ReleaseTree(env, <<"const_ext">>, <<"const_layers">>)
    /\ IF air.customs = <<>> THEN At("open_cm1", 0) ELSE At("custom", 1)
    /\ Kept /\ UNCHANGED <<parts, codeword, layers, log>>

OpenCustom ==
    /\ pc = "custom"
    /\ RunOnce
    /\ wire' = Append(wire, Value(<<"opening">>))
    /\ LET id == air.customs[k]
       IN  env' = IF keep THEN env
                  ELSE ReleaseTree(env, <<"custom_ext", id>>, <<"custom_layers", id>>)
    /\ IF k < Len(air.customs) THEN At("custom", k + 1) ELSE At("open_cm1", 0)
    /\ Kept /\ UNCHANGED <<parts, codeword, layers, log>>

OpenStage(section, above, next) ==
    /\ RunOnce
    /\ wire' = Append(wire, Value(<<"opening">>))
    /\ env' = ReleaseTree(env, <<section>>, <<above>>)
    /\ next
    /\ Kept /\ UNCHANGED <<parts, codeword, layers, log>>

OpenCm1 == pc = "open_cm1" /\ OpenStage("cm1_ext", "cm1_layers", At("open_cm2", 0))
OpenCm2 == pc = "open_cm2" /\ OpenStage("cm2_ext", "cm2_layers", At("open_qsec", 0))

\* The FRI roots follow the last of the stage trees.
OpenQsec ==
    /\ pc = "open_qsec"
    /\ RunOnce
    /\ wire' = wire \o << Value(<<"opening">>) >>
                  \o [i \in DOMAIN layers |-> layers[i][<<"fri_root", i - 1>>]]
    /\ env' = ReleaseTree(env, <<"qsec">>, <<"qsec_layers">>)
    /\ At(IF air.rounds > 0 THEN "layers" ELSE "end", 0)
    /\ Kept /\ UNCHANGED <<parts, codeword, layers, log>>

OpenLayer ==
    /\ pc = "layers"
    /\ RunOnce
    /\ wire' = Append(wire, Value(<<"opening">>))
    /\ layers' = [layers EXCEPT ![k + 1] = <<>>]
    /\ IF k + 1 < air.rounds THEN At("layers", k + 1) ELSE At("end", 0)
    /\ Kept /\ UNCHANGED <<env, parts, codeword, log>>

Dropped ==
    /\ At("idle", 0)
    /\ env' = <<>> /\ parts' = <<>> /\ codeword' = <<>> /\ layers' = <<>>

\* Mutant: the nonce stays off the wire.
FinishWithoutNonce ==
    /\ pc = "end"
    /\ wire' = Append(wire, Out(Run(<<"fri_final">>), <<"final_pol">>))
    /\ Dropped
    /\ Kept /\ UNCHANGED <<ran, log>>

Finish ==
    /\ pc = "end"
    /\ wire' = wire \o << Out(Run(<<"fri_final">>), <<"final_pol">>),
                           Out(Run(<<"grind">>), <<"nonce">>) >>
    /\ Dropped
    /\ Kept /\ UNCHANGED <<ran, log>>

\* Any program, upload or download may fail, and prove returns the error.
Fail ==
    /\ pc # "idle"
    /\ Dropped
    /\ Kept /\ UNCHANGED <<ran, log, wire>>

-----------------------------------------------------------------------------
Init ==
    /\ air \in Airs
    /\ fixed = <<>>
    /\ proves = 0
    /\ pc = "idle" /\ k = 0 /\ keep = FALSE
    /\ env = <<>> /\ parts = <<>> /\ codeword = <<>> /\ layers = <<>>
    /\ ran = {} /\ log = <<>> /\ wire = <<>>

Next ==
    \/ SetFixed \/ DropFixed
    \/ \E keeps \in BOOLEAN : StartProve(keeps)
    \/ WitnessCalc \/ Commit1 \/ LogUp \/ Commit2 \/ Quotient \/ QuotientCommit
    \/ Lev \/ Evals \/ EvalsSum \/ Deep \/ DeepConcat
    \/ FriCommit \/ FriFold \/ FriFinal \/ Grind
    \/ OpenConst \/ OpenCustom \/ OpenCm1 \/ OpenCm2 \/ OpenQsec \/ OpenLayer
    \/ Finish \/ Fail

Spec == Init /\ [][Next]_vars

-----------------------------------------------------------------------------
(* Properties.                                                             *)

\* Whatever the prove is at, its environments hold values by name and its
\* windows and rounds are those of the AIR.
TypeOK ==
    /\ air \in Airs
    /\ proves \in 0..MaxProves
    /\ keep \in BOOLEAN
    /\ pc # "idle" => \/ pc = "end"
                      \/ NextRun \in Runs(air)
    /\ Len(layers) <= air.rounds

\* No program is called with an input its environment lost: what the driver
\* removed at what it takes for a buffer's last reader had no later one, in
\* any AIR and under either residency, also in the next prove.
EveryCallIsBound ==
    pc \notin { "idle", "end" } =>
        Programs(air)[NextRun[1]].in \subseteq DOMAIN BindsFrom

\* The sections as large as the trace, with the trees over them.
Large ==
    { <<"trace">>, <<"cm2">>, <<"cm1_ext">>, <<"cm1_layers">>, <<"cm2_ext">>, <<"cm2_layers">>,
      <<"qsec">>, <<"qsec_layers">>, <<"lev">> }

OfTheKey ==
    { <<"const_base">>, <<"const_ext">>, <<"const_layers">> }
      \cup UNION { Named(section, Ids(air)) :
                     section \in { "custom_base", "custom_ext", "custom_layers" } }

StillToRun == { r[1] : r \in Runs(air) \ { x.run : x \in ran } }
HasReader(name) == \E p \in StillToRun : name \in Programs(air)[p].in

\* No large section, no tree and no window outlives its last reader; with
\* the key's own sections too when no later prove was promised them.  (lev
\* goes with evals_sum, which adds up the windows that read it.)
DeadSectionsAreGone ==
    /\ \A name \in (Large \cup (IF keep THEN {} ELSE OfTheKey)) \cap DOMAIN env :
          HasReader(name) \/ (name = <<"lev">> /\ pc = "evals_sum")
    /\ \A name \in DOMAIN parts : HasReader(name)
    /\ \A i \in DOMAIN layers :
          layers[i] # <<>> => Run(<<"open_fri", i - 1>>)[1] \in StillToRun

\* What stays with the driver is what the setup programs left: nothing of an
\* instance, nothing missing, wherever a prove ended.
KeptSectionsAreTheKeys == fixed = <<>> \/ fixed = SetupEnv

\* Every program finds its inputs in the environment, in any AIR, under either
\* residency and after any failure, although what the driver takes to be dead
\* is dropped; nothing dead stays, and the key's sections outlive the prove
\* whole.
BuffersAreThere ==
    TypeOK /\ EveryCallIsBound /\ DeadSectionsAreGone /\ KeptSectionsAreTheKeys

\* A finished prove ran every program of the schedule, exchanged the whole
\* transcript and wrote the whole wire.
FinishedProofsAreWhole ==
    [][Finish => /\ { r.run : r \in ran } = Runs(air)
                 /\ log = Protocol(air)
                 /\ wire' = Wire(air)]_vars

\* The driver keeps to the schedule: every input of every program, the order
\* of the transcript and of the wire, and nothing before it exists.
Schedule == INSTANCE GenProof
ImplementsGenProof == Schedule!Spec

\* A prove follows the schedule at every step, and is the whole of it when it
\* finishes.
ProvesFollowTheSchedule == FinishedProofsAreWhole /\ ImplementsGenProof
=============================================================================
