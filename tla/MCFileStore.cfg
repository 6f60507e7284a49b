\* Durability and consistency of the JSON store: crashes, failed writes, Close.
CONSTANTS
    e1 = e1
    e2 = e2
    d1 = d1
    r1 = r1
    r2 = r2
    s1 = s1
    s2 = s2
    MaxGuestId = 2
    GuestIds <- MCGuestIds
    Emails = {e1, e2}
    Docs = {d1}
    ReviewIds = {r1, r2}
    Stays = {s1, s2}
    MaxInquiries = 1
    Seed <- MCSeed
    Absent = Absent
    NoSnapshot = NoSnapshot
    Torn = Torn

SPECIFICATION FairSpec

INVARIANTS
    TypeOK
    OneReviewPerStay
    DiskIsRestorable
    BehindIsFlagged
    IndexFindsHolder

PROPERTIES
    DiskOnlyGrows
    StoredReviewReachesDisk
