\* One or two Main segments and the Binary instance, true or tampered with,
\* with the caller's prover cache and without.
SPECIFICATION Spec
CONSTANTS
    Regs = 2
    NRows = 2
    RangeEnd = 16
    BootAddr = 10
    EndPcAddr = 14
    Blocks <- MCBlocks
    Verkey <- MCVerkey
    Updates <- MCUpdates
    Publics = "publics"
    ProofValues = "proofvalues"
    NoInstance = NoInstance
INVARIANTS
    IInv
    BlockBalancesIffWhole
