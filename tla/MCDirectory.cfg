\* A member pages, searches and counts while files are opened and grow.
CONSTANTS
    g1 = g1
    g2 = g2
    g3 = g3
    Halving <- MCHalving
    Span = 800
    Guests = {g1, g2, g3}
    Id <- MCId
    Name <- MCName
    ByName <- MCByName
    ByGlobalID <- MCByGlobalID
    Queries <- MCQueries
    PageSize = 2
    Samples <- MCSamples
    Lags <- MCLags
    Calendar <- MCCalendar
    MaxStays <- MCMaxStays
    None = None

SPECIFICATION Spec

INVARIANTS
    TypeOK
    RowsAreTrue
    PagesTile
    StatsAreRight
