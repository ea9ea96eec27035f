\* One client, undisturbed or with crashes and gradings elsewhere, or two clients.
SPECIFICATION Spec
CONSTANTS
    c1 = c1
    c2 = c2
    p1 = p1
    p2 = p2
    s1 = s1
    None = None
    Cards = {c1, c2}
    Sessions = {s1}
    Plans <- MCPlans
    Requests = {p1, p2}
    Environments <- MCEnvironments
    MaxGradings = 3
SYMMETRY MCSymmetry
INVARIANTS
    TypeOK
    AnswersFollowQueue
    UndoneXpIsRevoked
    CardsFollowLog
    ActiveHasWork
    OvershootBounded
CHECK_DEADLOCK FALSE
