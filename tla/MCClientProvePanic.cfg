\* The run of MCClientProve.cfg with a plugin panic as the only failure: the
\* mirror keeps an AIR whose sections went with the prove that panicked.
CONSTANTS
    i1 = i1  i2 = i2  i3 = i3
    Main = Main  Rom = Rom
    Nobody = Nobody
    Instances = {i1, i2, i3}
    Airs = {Main, Rom}
    AirOf <- TwoAirs
    Uploads <- Light
    Cap = 2
    Budget = 1
    Depth = 1
    ResidentAirs = 1
    Mode = "plan"
    FirstPlan <- NoPlan
    SentPlan <- ShortPlan
    Faults = {"panic"}
SPECIFICATION Spec
INVARIANT
    MirrorAgreesWithDrivers
