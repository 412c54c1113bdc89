SPECIFICATION UpkeepSpec
\* Bounded histories: a deleted account, jobs that are done.
CHECK_DEADLOCK FALSE
CONSTANTS
    NULL = NULL
    LandlordSessions = {l1}
    TenantSessions = {t1}
    MaxRevision = 4
    Callers = {u}
    Codes = {k1, k2, k3}
    MaxAttempts = 2
    MaxUncounted = 1
    ResetTokens = {k1, k2, k3}
    Members = {m1, m2}
    Submissions = {d1, d2, d3, d4}
    Files = 2
    Tickets = {s1, s2}
    Runs = {r1}
    MaxTries = 1
    QueueTickets = {s1, s2}
    Severities = {1, 2}
    MaxDay = 11
    Users = {u, v}
    Notes = {n1, n2}
    Devices = {d1, d2}
    MaxDeletions = 2
    Images = {i1, i2, i3}
    MaxImages = 2
    Asks = {a1}
    MaxLife = 2
    Jobs = {j1, j2}
    MatchAttempts = 2
    MailAttempts = 3
    MaxStalls = 1
    Listings = {h1, h2}
    Limits = {1, 2}
    MaxRevived = 1
    Enforcer = Enforcer
    MaxTime = 3
    MaxCampaigns = 2
    MaxCredits = 2
    SearchListings = {h1, h2}
    Providers = {cohere}
    SearchQueries <- SearchedQueries
    SearchFacts <- SearchedFacts
    MaxTasks = 1
    Amounts = {1, 2}
PROPERTIES
    DeletedIsForgotten
    JobsSettle
    ExcessIsArchived
    BoostsEnd
