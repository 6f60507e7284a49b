\* Delivery, deduplication and acks through faults of every kind.
CONSTANTS
    report = report
    other = other
    g1 = g1
    s1 = s1
    Events = {report, other}
    Guests = {g1}
    Stays = {s1}
    KindsOf <- MCKindsOf
    GuestOf <- MCGuestOf
    StayOf <- MCStayOf
    ByGlobalId = {report}
    Other = Other
    None = None
    MaxSends <- MCMaxSends
    MaxFaults = 1

SPECIFICATION FairSpec

INVARIANTS
    TypeOK
    QueuedUntilHandled
    AppliedAtMostOnce
    AcksAreTrue

PROPERTY EventsAreHandled

\* All messages sent and handled, all faults spent: nothing is left to do.
CHECK_DEADLOCK FALSE
