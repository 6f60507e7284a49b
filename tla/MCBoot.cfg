\* Two replicas of any build start, migrate, seed, serve and die.
CONSTANTS
    s1 = s1
    s2 = s2
    d1 = d1
    d2 = d2
    Replicas = {r1, r2}
    Contents <- MCContents
    Builds <- MCBuilds
    Seeds <- MCSeeds
    Desk = {d1, d2}
    Id <- MCId
    UniqueKey <- MCUniqueKey
    Nobody = Nobody
    Orphan = Orphan
    None = None

SPECIFICATION FairSpec

INVARIANTS
    TypeOK
    LedgerIsSchema
    NoRaceIsLost
    ServesItsSchema
    SeedIsWhole

PROPERTY BootsEnd
