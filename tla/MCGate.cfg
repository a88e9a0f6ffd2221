\* Two loads and two proves that come back without end: every pair of kinds
\* contends, and so do two of each kind.
CONSTANTS
    Loads = {l1, l2}
    Proves = {p1, p2}
SPECIFICATION FairSpec
INVARIANT
    IInv
PROPERTIES
    NoLoadOvertakesAProve
    ImplementsExclusion
    SomeProveGetsIn
    LoadsGetInOnceProvesStop
