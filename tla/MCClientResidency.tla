-------------------------- MODULE MCClientResidency --------------------------
(***************************************************************************)
(* ClientProve under two policies of residency, one chosen at the start: a *)
(* plan that is there from the start and counts right (the cfg's           *)
(* constants), and everything kept (the instance Kept, over the same       *)
(* variables).  Three AIRs compete for two resident places either way, and *)
(* the first of them comes back.                                           *)
(***************************************************************************)
EXTENDS ClientProve, TLC

CONSTANTS i1, i2, i3, i4,   \* instances
          Main, Rom, Table  \* AIRs

VARIABLE policy  \* "plan" or "always"

\* One AIR twice and two more.
ThreeAirs == i1 :> Main @@ i2 :> Rom @@ i3 :> Table @@ i4 :> Main

\* Every instance weighs the same, and two or three of them fit.
Light == [i \in Instances |-> 1]

NoPlan == [a \in Airs |-> 0]
CountedPlan == [a \in Airs |-> Cardinality({i \in Instances : AirOf[i] = a})]

\* Three admitted, two read-aheads, and the failures on the way to the slot.
Kept == INSTANCE ClientProve WITH
    Cap <- 3, Budget <- 2, Depth <- 2, Mode <- "always",
    FirstPlan <- NoPlan, SentPlan <- NoPlan, Faults <- {"read", "ahead"}

MCInit == \/ policy = "plan" /\ Init
          \/ policy = "always" /\ Kept!Init

MCNext == /\ UNCHANGED policy
          /\ \/ policy = "plan" /\ Next
             \/ policy = "always" /\ Kept!Next

MCSpec == MCInit /\ [][MCNext]_<<vars, policy>>
=============================================================================
