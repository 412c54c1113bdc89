SPECIFICATION LeaseSpec
SYMMETRY TabSymmetry
\* The deal ends: approved, and reviewed by both parties.
CHECK_DEADLOCK FALSE
CONSTANTS
    NULL = NULL
    LandlordSessions = {l1}
    TenantSessions = {t1}
    MaxRevision = 3
INVARIANTS
    DownloadWasReviewed
