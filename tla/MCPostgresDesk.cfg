\* Two replicas open, attach and register over the same documents.
CONSTANTS
    Desks = {p1, p2}
    GuestIds = {g1, g2}
    Docs = {d1, d2}
    Emails = {e1}
    None = None

SPECIFICATION Spec

SYMMETRY Symmetry

INVARIANTS
    TypeOK
    OneFilePerDocument
    FilesAreWhole
    RepliesAreTrue
    LookupsAreRecorded

PROPERTY RegistrySpec
