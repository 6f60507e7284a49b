\* What a record without incidents is shown.
CONSTANTS
    g1 = g1
    g2 = g2
    g3 = g3
    c1 = c1
    Halving <- MCHalving
    Span = 800
    Callers = {c1}
    Guests = {g1, g2, g3}
    Listing <- MCListing
    Samples <- MCSamples
    Lags <- MCLags
    Calendar = {0, 126}
    MaxStays <- MCMaxStays
    LocalModel = v2
    Models = {v1, v2}
    MaxAttempts = 2
    MaxBatch = 2
    None = None

SPECIFICATION Spec

INVARIANT LiftIsShown
