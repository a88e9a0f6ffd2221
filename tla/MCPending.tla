------------------------------ MODULE MCPending ------------------------------
(***************************************************************************)
(* Instances of Pending for TLC: uploads that are small, medium and larger *)
(* than the budget, in every order of arrival.                             *)
(***************************************************************************)
EXTENDS Pending, TLC

CONSTANTS small1, small2, small3, small4, medium, large

\* Three of the small ones fill the cap while the budget would take a fourth;
\* the medium one has room for one of them beside it and not for two; the large
\* one fits beside nobody.
Mixed == small1 :> 1 @@ small2 :> 1 @@ small3 :> 1 @@ small4 :> 1 @@ medium :> 3 @@ large :> 5

\* The bound: of the fourth small one and the large one, the second to come
\* comes when the other four have left.  Nothing makes an instance come, so no
\* fairness is cut short.
FiveCome ==
    \/ pc[small4] = "new" \/ pc[large] = "new"
    \/ \A i \in Instances \ {small4, large} : pc[i] = "gone"
=============================================================================
