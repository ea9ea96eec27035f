SPECIFICATION MCSpec
CONSTANTS
    Tablets = {d1}
    Registrations = {r1, r2, r3}
    CardRows = {c1, c2}
    ReviewRows = {v1}
    PageSize = 1
    MaxTime = 2
    t1 = t1
    t2 = t2
    Targets = {t1, t2}
    Loads = {p1, p2}
    LastEntry = 3
    ValidEntries = {1, 3}
    SampledEntries = {1, 2}
    BatchSize = 1
    PilotBound = 2
    Artifacts = {graph, decomposition}
    Restoring = {graph}
    Files = {"state", "records"}
    MaxDerivations = 3
    k1 = k1
    k2 = k2
    e1 = e1
    e2 = e2
    x1 = x1
    x2 = x2
    s2 = s2
    Mindtree = {k1, e1, x1}
    Corpus = {k2, e2, x2}
    Upstream = {u1, u2}
    Strangers = {s2}
    InPlaceOf <- MCInPlaceOf
    KanjiRows = {k1, k2, u1, u2, s2}
    EdgeRows = {x1, x2}
    Needs <- MCNeeds
    Writers = {w1, w2}
    Words = {"mizu", "hi"}
    Filters = {"all"}
    MaxRequests = 4
    MaxSteps = 3
    TopBox = 4
    TopRung = 4
    QueueSize = 2
    Tags = {g1, g2}
    MaxGradings = 3
    Identities = {i1, i2}
    Requests = {q1, q2}
    SeedRows = 3
    GuardRows = 1
    MaxAccounts = 3
SYMMETRY MCSymmetry
INVARIANTS
    ServicesTypeOK
    LastWordCounts
    OnlyPassedIsMissed
    CheckpointCovered
    PublicationSurvives
    FoundationHolds
    SearchIsAnswered
    PassesGraduate
    PageFollowsSession
    FirstUseHolds
PROPERTIES
    IngestionLoads
CHECK_DEADLOCK FALSE
