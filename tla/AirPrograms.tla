---------------------------- MODULE AirPrograms ----------------------------
(***************************************************************************)
(* The device programs of an AIR with the names of their inputs and        *)
(* outputs, as AirPrograms of zisk_zorch/export/stages.py lists them in    *)
(* the manifest.  A buffer's name is a tuple; the digest layers of a tree  *)
(* are one buffer, and a program is named with the size of its row window  *)
(* where it is exported once per size.                                     *)
(*                                                                         *)
(* An AIR is a record:                                                     *)
(*   customs    the ids of its custom commits, in order                    *)
(*   witness    it has witness_calc hints                                  *)
(*   sum        its running column is a sum, exported as an airgroup value *)
(*   airvalues  the stages of its air values, in order                     *)
(*   q, e, d    the sizes of the row windows of the quotient, of the       *)
(*              openings and of the DEEP batch                             *)
(*   rounds     committed FRI rounds                                       *)
(*   hashed     sections enter the transcript as digests (hashCommits)     *)
(*   recursive  the aggregation schedule's seed                            *)
(*   publics    it has public values                                       *)
(***************************************************************************)
EXTENDS Integers, Sequences, SequencesExt

Ids(air) == Range(air.customs)
Rounds(air) == 0..(air.rounds - 1)

\* The first row of the k-th window.
StartOf(sizes, k) == MapThenSumSet(LAMBDA j : sizes[j], 1..(k - 1))

Named(prefix, ids) == { <<prefix, i>> : i \in ids }
Parts(prefix, sizes) == { <<prefix, k>> : k \in DOMAIN sizes }

Scalars == { <<"publics">>, <<"airvalues">>, <<"proofvalues">> }
BaseNames(air) == { <<"const_base">> } \cup Named("custom_base", Ids(air))
Sections(air) ==
    { <<"cm1_ext">>, <<"cm2_ext">>, <<"qsec">>, <<"const_ext">> }
      \cup Named("custom_ext", Ids(air))

WitnessInputs(air) == { <<"trace">> } \cup BaseNames(air) \cup Scalars

QuotientInputs(air) ==
    { <<"cm1_ext">>, <<"cm2_ext">>, <<"const_ext">>, <<"challenges">>,
      <<"airgroupvalues">>, <<"zi">> }
      \cup Named("custom_ext", Ids(air)) \cup Scalars

-----------------------------------------------------------------------------
(* The programs by what they are for: their names, and each one's inputs   *)
(* and outputs.                                                            *)

Program(in, out) == [in |-> in, out |-> out]

SetupNames(air) == { <<"constants">>, <<"const_setup">> } \cup Named("custom_setup", Ids(air))

SetupProgram(p) ==
    CASE p[1] = "constants"   -> Program({}, { <<"zi">>, <<"domain">> })
      [] p[1] = "const_setup" -> Program({ <<"const_base">> },
                                         { <<"const_root">>, <<"const_ext">>, <<"const_setup_layers">> })
      [] p[1] = "custom_setup" ->
            Program({ <<"custom_base", p[2]>> },
                    { <<"custom_root", p[2]>>, <<"custom_ext", p[2]>>, <<"custom_setup_layers", p[2]>> })

QuotientNames(air) == IF Len(air.q) = 1 THEN { <<"quotient">> } ELSE Named("quotient", Range(air.q))
StageNames(air) ==
    { <<"commit1">>, <<"logup">>, <<"commit2">>, <<"quotient_commit">> }
      \cup (IF air.witness THEN { <<"witness_calc">> } ELSE {}) \cup QuotientNames(air)

StageProgram(air, p) ==
    CASE p[1] = "witness_calc" -> Program(WitnessInputs(air), { <<"trace">> })
      [] p[1] = "commit1" -> Program({ <<"trace">> }, { <<"root1">>, <<"cm1_ext">>, <<"cm1_layers">> })
      [] p[1] = "logup"   ->
            Program(WitnessInputs(air) \cup { <<"challenges">> },
                    { <<"cm2">>, <<"airvalues">> } \cup (IF air.sum THEN { <<"airgroupvalue">> } ELSE {}))
      [] p[1] = "commit2" -> Program({ <<"cm2">> }, { <<"root2">>, <<"cm2_ext">>, <<"cm2_layers">> })
      [] p[1] = "quotient" ->
            Program(QuotientInputs(air) \cup (IF Len(air.q) = 1 THEN {} ELSE { <<"rows">> }), { <<"q">> })
      [] p[1] = "quotient_commit" -> Program(Parts("q", air.q), { <<"qsec">>, <<"rootq">>, <<"qsec_layers">> })

OpeningNames(air) ==
    { <<"lev">>, <<"evals_sum">>, <<"deep_concat">> }
      \cup Named("evals", Range(air.e)) \cup Named("deep", Range(air.d))

OpeningProgram(air, p) ==
    CASE p[1] = "lev"       -> Program({ <<"xi">> }, { <<"lev">> })
      [] p[1] = "evals"     -> Program(Sections(air) \cup { <<"lev">>, <<"start">> }, { <<"evals">> })
      [] p[1] = "evals_sum" -> Program(Parts("evals", air.e), { <<"evals">> })
      [] p[1] = "deep"      ->
            Program(Sections(air) \cup { <<"evals">>, <<"domain">>, <<"xi">>, <<"vf1">>, <<"vf2">>, <<"start">> },
                    { <<"fri_pol">> })
      [] p[1] = "deep_concat" -> Program(Parts("fri_pol", air.d), { <<"fri_pol">> })

FriNames(air) ==
    { <<"fri_final">>, <<"grind">> } \cup Named("fri_commit", Rounds(air)) \cup Named("fri_fold", Rounds(air))

FriProgram(p) ==
    CASE p[1] = "fri_commit" ->
            Program({ <<"codeword">> }, { <<"fri_leaves", p[2]>>, <<"fri_root", p[2]>>, <<"fri_layers", p[2]>> })
      [] p[1] = "fri_fold"  -> Program({ <<"codeword">>, <<"beta">> }, { <<"codeword">> })
      [] p[1] = "fri_final" -> Program({ <<"codeword">> }, { <<"final_pol">> })
      [] p[1] = "grind"     -> Program({ <<"challenge">> }, { <<"nonce">> })

TreeNames(air) ==
    { <<"open_const">>, <<"open_cm1">>, <<"open_cm2">>, <<"open_qsec">> }
      \cup Named("open_custom", Ids(air)) \cup Named("open_fri", Rounds(air))

\* opening(): the tree's matrix, its layers, the positions.
Opened(matrix, layers) == Program({ matrix, layers, <<"positions">> }, { <<"opening">> })
TreeProgram(p) ==
    CASE p[1] = "open_const"  -> Opened(<<"const_ext">>, <<"const_layers">>)
      [] p[1] = "open_custom" -> Opened(<<"custom_ext", p[2]>>, <<"custom_layers", p[2]>>)
      [] p[1] = "open_cm1"    -> Opened(<<"cm1_ext">>, <<"cm1_layers">>)
      [] p[1] = "open_cm2"    -> Opened(<<"cm2_ext">>, <<"cm2_layers">>)
      [] p[1] = "open_qsec"   -> Opened(<<"qsec">>, <<"qsec_layers">>)
      [] p[1] = "open_fri"    -> Opened(<<"fri_leaves", p[2]>>, <<"fri_layers", p[2]>>)

ProgramNames(air) ==
    SetupNames(air) \cup StageNames(air) \cup OpeningNames(air) \cup FriNames(air) \cup TreeNames(air)

Programs(air) ==
    [p \in ProgramNames(air) |->
        CASE p \in SetupNames(air)   -> SetupProgram(p)
          [] p \in StageNames(air)   -> StageProgram(air, p)
          [] p \in OpeningNames(air) -> OpeningProgram(air, p)
          [] p \in FriNames(air)     -> FriProgram(p)
          [] p \in TreeNames(air)    -> TreeProgram(p)]
=============================================================================
