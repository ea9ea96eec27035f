SPECIFICATION MCSpec
CONSTANTS
    s1 = s1
    s2 = s2
    q1 = q1
    q2 = q2
    p1 = p1
    p2 = p2
    None = None
    Questions = {q1, q2}
    Sessions = {s1, s2}
    Selections <- MCSelections
    Requests = {p1, p2}
    Environments <- MCEnvironments
    MaxMail = 2
    MaxGraded = 2
    Users = {u1, u2}
    Keys = {g1, g2}
    Keyless = {g2}
    RawPoints = {2}
    DailyCap = 3
    AwardSlots = {p1, p2}
    Dated = FALSE
    LastDay = 1
    MaxEvents = 3
    n1 = n1
    n2 = n2
    n3 = n3
    DeckCards = {n1, n2, n3}
    DayLength = 2
    Cutoff = 1
    NewTarget = 1
    ReviewCeiling = 2
    MaxCards = 2
    ForecastDays = 3
    Failures = {"step"}
    LastInstant = 2
    MaxSessions = 2
    MaxAnswers = 2
SYMMETRY MCSymmetry
INVARIANTS
    LearnerTypeOK
    ServedAsSubmitted
    AnalyticsMatchSessions
    XpFollowsGrading
    PaidOnce
    CapNearlyHolds
PROPERTIES
    DailyPlanHolds
\* Exams end, and the time explored.
CHECK_DEADLOCK FALSE
