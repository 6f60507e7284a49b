\* The score cache and the directory index beside the store.
CONSTANTS
    g1 = g1
    g2 = g2
    Requests = {p1, p2}
    Guests = {g1, g2}
    MaxReviews <- MCMaxReviews
    BatchSize = 1
    None = None

SPECIFICATION Spec

SYMMETRY Symmetry

INVARIANTS
    TypeOK
    CacheInStep
    IndexInStep
    ReviewIsCounted
