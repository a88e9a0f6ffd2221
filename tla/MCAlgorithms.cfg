\* The pure algorithms over small inputs of every kind, in a field of 97
\* elements and with bytes of 8 values; and calculators over words up to
\* twice a modulus, of widths that their placements fill and of others.
SPECIFICATION Spec
CONSTANTS
    Prime = 97
    TwoAdicity = 5
    TwoAdicRoot = 28
    CosetShift = 5
    LookupBuses = {30}
    TileRows = 2
    TileCols = 2
    Digest = 2
    WordMod = 13
    ByteBase = 8
    Modulus = 13
    Circuits <- MCCircuits
    CellWords = {9, 18}
    Heights = {1, 2, 3}
    Widths = {2, 3}
INVARIANTS
    QuotientsAreTheKeys
    StageTwoBindsTheTrace
    WitnessesSettleInOrder
    WhatIsPackedReadsBack
\* An input is drawn once, and a circuit that is refused is asked nothing.
CHECK_DEADLOCK FALSE
