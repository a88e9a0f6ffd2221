----------------------------- MODULE MCSchedule -----------------------------
(***************************************************************************)
(* The two provers of one instance for TLC, one chosen at the start: the   *)
(* driver over the compiled programs (AirDriver, the module's variables),  *)
(* and the roles of the byte-match harness (Pil2InnerProver, the instance  *)
(* Roles on variables of its own).  The AIRs are the shapes whose          *)
(* schedules differ: custom commits, witness hints, sum and product        *)
(* columns, row windows with a short tail, FRI rounds, sections absorbed   *)
(* as digests, and for the roles two circuits of the recursion, with and   *)
(* without public values.  The challenges are out of squeeze order in the  *)
(* map.                                                                    *)
(***************************************************************************)
EXTENDS AirDriver

VARIABLES setting, rAir, rEmit, rProves, rStage, rClaim, rRan, rLog, rWire

Plain ==
    [customs |-> <<>>, witness |-> FALSE, sum |-> TRUE, airvalues |-> <<>>,
     q |-> <<4>>, e |-> <<4>>, d |-> <<4>>, rounds |-> 0,
     hashed |-> FALSE, recursive |-> FALSE, publics |-> TRUE]

Wide == [Plain EXCEPT !.customs = <<0, 1>>, !.witness = TRUE, !.airvalues = <<1, 2, 2>>,
                      !.q = <<2, 2, 1>>, !.e = <<2, 1>>, !.d = <<2, 2>>, !.rounds = 2,
                      !.hashed = TRUE]

Product == [Plain EXCEPT !.customs = <<1>>, !.witness = TRUE, !.sum = FALSE,
                         !.airvalues = <<2, 1>>, !.e = <<2, 2>>, !.rounds = 1]

Vadcop == [Plain EXCEPT !.sum = FALSE, !.rounds = 1, !.hashed = TRUE, !.recursive = TRUE,
                        !.q = <<2, 2>>]
Compressor == [Vadcop EXCEPT !.publics = FALSE, !.witness = TRUE, !.customs = <<1>>]

MCAirs == { Plain, Wide, Product }
RoleAirs == { Plain, Wide, Vadcop, Compressor,
              [Wide EXCEPT !.hashed = FALSE], [Vadcop EXCEPT !.hashed = FALSE] }

Challenge(name, at) == [name |-> name, stage |-> at]
MCChallengesMap ==
    << Challenge("std_vf2", 5), Challenge("std_alpha", 2), Challenge("std_xi", 4),
       Challenge("std_vc", 3), Challenge("std_gamma", 2), Challenge("std_vf1", 5) >>

Roles == INSTANCE Pil2InnerProver WITH
    Airs <- RoleAirs, MaxProves <- MaxProves + 1,
    air <- rAir, emit_wire <- rEmit, proves <- rProves, stage <- rStage, claim <- rClaim,
    ran <- rRan, log <- rLog, wire <- rWire

rVars == <<rAir, rEmit, rProves, rStage, rClaim, rRan, rLog, rWire>>

MCInit ==
    /\ setting \in { "driver", "roles" }
    /\ Init /\ Roles!Init
    /\ setting = "driver" => rAir = Plain /\ rEmit = FALSE
    /\ setting = "roles" => air = Plain

MCNext ==
    /\ UNCHANGED setting
    /\ \/ setting = "driver" /\ Next /\ UNCHANGED rVars
       \/ setting = "roles" /\ Roles!Next /\ UNCHANGED vars

MCSpec == MCInit /\ [][MCNext]_<<setting, vars, rVars>>

-----------------------------------------------------------------------------
\* At every yield of prove_stages the claim handed on says of the challenges,
\* the commitments and the values what the transcript saw.
ClaimsAreTheTranscripts == Roles!TypeOK /\ Roles!ClaimsAreTheTranscripts

\* The roles keep to the schedule of GenProof, wherever the caller stops, and a
\* wire they write holds every part in pil2's order, after the whole transcript
\* and every program.  (Of the driver ProvesFollowTheSchedule says it.)
RolesFollowTheSchedule == Roles!ProvesFollowTheSchedule
=============================================================================
