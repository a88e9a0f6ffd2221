\* Four instances of three AIRs on two resident places, under both policies.
\* The constants are those of the plan: two admitted, one read-ahead, and the
\* failures that do not return between the install and the prove.
CONSTANTS
    i1 = i1  i2 = i2  i3 = i3  i4 = i4
    Main = Main  Rom = Rom  Table = Table
    Nobody = Nobody
    Instances = {i1, i2, i3, i4}
    Airs = {Main, Rom, Table}
    AirOf <- ThreeAirs
    Uploads <- Light
    Cap = 2
    Budget = 1
    Depth = 1
    ResidentAirs = 2
    Mode = "plan"
    FirstPlan <- CountedPlan
    SentPlan <- CountedPlan
    Faults = {"ahead", "setup"}
SPECIFICATION MCSpec
INVARIANTS
    AirsProvedOnceLeave
    ResidentAreTheLatest
    MirrorAgreesWithDrivers
