\* A field of 17 elements, eight points extended: FRI alone over three
\* polynomials, and the whole inner proof over five traces, two of them false,
\* each under every draw and with every kind of value changed.
SPECIFICATION InnerSpec
CONSTANTS
    Prime = 17
    TwoAdicity = 4
    TwoAdicRoot = 3
    CosetShift = 3
    Schedules <- MCSchedules
    Polynomials <- MCPolynomials
    Betas = {0, 4, 11}
    Draws <- MCDraws
    WordBits = 4
    Counters = 5
    Image <- MCImage
    Traces <- MCTraces
    EvalFn <- MCEvalFn
    BlockBytes = 128
    InnerSchedules <- MCInnerSchedules
    InnerOracles <- MCOracles
INVARIANTS
    StagesHandOnPolynomials
    ProofsAreAcceptedWhenTrue
    GrindsToTheSmallestNonce
\* A proof is verified once.
CHECK_DEADLOCK FALSE
