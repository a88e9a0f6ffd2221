\* Two clients and one AIR of one program, with every failure: two preload
\* workers and two prove threads meet over each artifact and over the shared
\* cache entry.  The other setting is in the module.
CONSTANTS
    w1 = w1  w2 = w2  i1 = i1  i2 = i2  Main = Main  Rom = Rom  NoJob = NoJob
    NumClients = 2
    Keys = {Main}
    Programs = 1
    Workers = {w1, w2}
    Instances = {i1, i2}
    KeyOf <- SameAir
    HomeOf <- Homes
    Streamed = {i1}
    StartKeys <- JustMain
    StartFirst = TRUE
    PlanKeys <- JustMain
    Faults = {"manifest", "program", "compile", "write"}
SPECIFICATION MCSpec
INVARIANTS
    IInv
    ProgramsAreThereOnce
PROPERTIES
    EveryProveCompletes
    OnlyProgramsInFlightPrecede
    ThePlanGetsReady
