-------------------------- MODULE MCExecutableCache --------------------------
(***************************************************************************)
(* Instances of ExecutableCache for TLC.                                   *)
(***************************************************************************)
EXTENDS ExecutableCache, TLC

CONSTANTS p1, p2, p3, h100, h200

\* Three processes, the last on another kind of device.
MixedKinds == p1 :> h100 @@ p2 :> h100 @@ p3 :> h200
=============================================================================
