\* Two processes on one kind of device and one on another over one entry,
\* every failure, and a kill after which an id may be used again.
CONSTANTS
    p1 = p1  p2 = p2  p3 = p3  h100 = h100  h200 = h200
    Absent = Absent  Torn = Torn
    Procs = {p1, p2, p3}
    Pids = {1, 2, 3}
    Kinds = {h100, h200}
    KindOf <- MixedKinds
    Failures = {"remove", "compile", "write", "rename"}
    MaxKills = 1
SPECIFICATION FairCacheSpec
INVARIANTS
    CacheIInv
PROPERTIES
    EntryIsNeverTorn
    CacheWarmsUp
