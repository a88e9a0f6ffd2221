\* AirDriver over three AIRs, two proves after one another, every failure; and
\* Pil2InnerProver over six, three proves.  A prover of the harness stops after
\* its last prove.
CONSTANTS
    Airs <- MCAirs
    ChallengesMap <- MCChallengesMap
    MaxProves = 2
SPECIFICATION MCSpec
INVARIANTS
    BuffersAreThere
    ClaimsAreTheTranscripts
PROPERTIES
    ProvesFollowTheSchedule
    RolesFollowTheSchedule
CHECK_DEADLOCK FALSE
