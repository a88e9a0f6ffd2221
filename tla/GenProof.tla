------------------------------ MODULE GenProof ------------------------------
(***************************************************************************)
(* What a prove of one instance promises, whoever runs the programs: every *)
(* program gets the values the tables of Replay give it, the transcript    *)
(* and the proof follow their order, and nothing is used before it exists. *)
(* The order of the programs is left open, and how many of these things    *)
(* happen in one step.  The tables are parameters here, so that a prover   *)
(* is shown to follow the very tables its own module was written with.     *)
(***************************************************************************)
EXTENDS Integers, Sequences, SequencesExt

CONSTANTS
    Airs,           \* the AIRs
    ChallengesMap,  \* the challenges: [name, stage]
    Run(_), Squeezed(_),            \* a run over all rows; a squeezed value
    SetupNames(_),                  \* the programs over the key alone
    Runs(_), ArgsOf(_, _),          \* the runs of an AIR, and their inputs
    Seed(_), StageIds(_), Squeeze(_),
    Protocol(_), Wire(_)            \* the whole transcript, the whole proof

VARIABLES
    air,      \* the AIR proved
    ran,      \* the runs so far, each with what its inputs were bound to
    log,      \* what entered and left the transcript
    wire      \* the proof so far

Ran == { r.run : r \in ran }
SqueezedIn(items) == { i.value : i \in { x \in Range(items) : x.op = "squeeze" } }

\* A value exists once its run is over; what the host or the transcript gives
\* depends on what was squeezed by then.
Exists(value, items) ==
    LET source == value[1][1]
    IN  CASE source = <<"host">> \/ source = <<"window">> -> TRUE
          [] source = <<"challenge">>  -> value \in SqueezedIn(items)
          [] source = <<"challenges">> ->
                \A c \in Range(ChallengesMap) :
                    c.stage <= value[2][1] => Squeezed(<<c.name>>) \in SqueezedIn(items)
          [] source = <<"positions">>  ->
                /\ Squeezed(<<"challenge">>) \in SqueezedIn(items)
                /\ Run(<<"grind">>) \in Ran
          [] OTHER -> value[1] \in Ran

Causal ==
    /\ \A r \in ran : \A n \in DOMAIN r.args : Exists(r.args[n], log)
    /\ \A j \in DOMAIN log : log[j].op # "squeeze" =>
          \* nothing absorbed depends on a challenge squeezed after it
          /\ Exists(log[j].value, log)
          /\ \A r \in ran : r.run = log[j].value[1] =>
                \A n \in DOMAIN r.args : r.args[n][1][1] \in { <<"challenge">>, <<"challenges">> } =>
                    Exists(r.args[n], SubSeq(log, 1, j - 1))
    /\ \A j \in DOMAIN wire : Exists(wire[j], log)

Consistent ==
    /\ \A r \in ran : r.run \in Runs(air) /\ r.args = ArgsOf(air, r.run)
    /\ IsPrefix(log, Protocol(air))
    /\ IsPrefix(wire, Wire(air))
    /\ Causal

Init ==
    /\ air \in Airs
    /\ ran = {}
    /\ log = <<>>
    /\ wire = <<>>

\* A new instance: what was run over the key alone may stay, and the prove
\* may be as far as the challenges of stage 2.
Start ==
    /\ UNCHANGED air
    /\ wire' = <<>>
    /\ IsPrefix(log', Seed(air) \o Squeeze(StageIds(2)))
    /\ \A r \in ran' : r.run \in { Run(p) : p \in SetupNames(air)
                                        \cup { <<"witness_calc">>, <<"commit1">> } }
    /\ Consistent'

Advance ==
    /\ UNCHANGED air
    /\ ran \subseteq ran'
    /\ IsPrefix(log, log')
    /\ IsPrefix(wire, wire')
    /\ Consistent'

Next == Start \/ Advance

Spec == Init /\ [][Next]_<<air, ran, log, wire>>
=============================================================================
