---------------------------- MODULE MCClientProve ----------------------------
(***************************************************************************)
(* Instances of ClientProve for TLC.                                       *)
(***************************************************************************)
EXTENDS ClientProve, TLC

CONSTANTS i1, i2, i3, \* instances
          Main, Rom   \* AIRs

\* Two instances of one AIR and one of another.
TwoAirs == i1 :> Main @@ i2 :> Main @@ i3 :> Rom

\* Every instance weighs the same, and two of them fit.
Light == [i \in Instances |-> 1]

NoPlan == [a \in Airs |-> 0]

\* A plan that names every AIR once, short by the second instance of Main.
ShortPlan == [a \in Airs |-> 1]
=============================================================================
