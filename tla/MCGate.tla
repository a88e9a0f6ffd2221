------------------------------- MODULE MCGate -------------------------------
(***************************************************************************)
(* Instances of Gate for TLC.  Threads come back to the gate without       *)
(* bound and nothing counts their visits, so the state space is finite     *)
(* with no bound but the number of threads.                                *)
(***************************************************************************)
EXTENDS Gate
=============================================================================
