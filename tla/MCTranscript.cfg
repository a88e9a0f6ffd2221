\* A rate of two and three lanes: puts end inside a block, on its end and past
\* it, and squeezes run out of lanes.
CONSTANTS
    Width = 3
    Digest = 1
    Limbs = 2
    QueryBits = 3
    Values = {0, 1}
    Queries <- MCQueries
    MaxPuts = 3
    MaxReads = 6
SPECIFICATION Spec
INVARIANTS
    LanesAreTheStream
    ScanMatchesEagerHash
    QueriesReadTheStreamInOrder
