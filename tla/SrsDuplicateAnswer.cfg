\* Two requests on one session: two copies of an answer.
SPECIFICATION Spec
CONSTANTS
    c1 = c1
    c2 = c2
    p1 = p1
    p2 = p2
    s1 = s1
    None = None
    Cards = {c1, c2}
    Sessions = {s1}
    Plans <- MCPlans
    Requests = {p1, p2}
    Environments <- MCOverlap
    MaxGradings = 3
INVARIANTS
    DuplicatesAreRefused
CHECK_DEADLOCK FALSE
