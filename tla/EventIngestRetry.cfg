\* Is a message whose handling failed delivered again?
CONSTANTS
    report = report
    other = other
    g1 = g1
    s1 = s1
    Events = {report, other}
    Guests = {g1}
    Stays = {s1}
    KindsOf <- MCKindsOf
    GuestOf <- MCGuestOf
    StayOf <- MCStayOf
    ByGlobalId = {report}
    Other = Other
    None = None
    MaxSends <- MCMaxSends
    MaxFaults = 1

SPECIFICATION Spec

INVARIANT FailureIsRedelivered

\* All messages sent and handled, all faults spent: nothing is left to do.
CHECK_DEADLOCK FALSE
