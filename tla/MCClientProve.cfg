\* The bridge's defaults (two admitted, one read-ahead, one resident AIR), a
\* plan that arrives at any time and undercounts Main, and every failure,
\* the plugin's panic inside a prove among them.
CONSTANTS
    i1 = i1  i2 = i2  i3 = i3
    Main = Main  Rom = Rom
    Nobody = Nobody
    Instances = {i1, i2, i3}
    Airs = {Main, Rom}
    AirOf <- TwoAirs
    Uploads <- Light
    Cap = 2
    Budget = 1
    Depth = 1
    ResidentAirs = 1
    Mode = "plan"
    FirstPlan <- NoPlan
    SentPlan <- ShortPlan
    Faults = {"inputs", "read", "ahead", "setup", "prepare", "panic"}
SPECIFICATION FairSpec
INVARIANTS
    IInv
    SectionsBounded
PROPERTY
    EveryInstanceCompletes
