\* A push stops between the inserted review and the card.
SPECIFICATION Spec
CONSTANTS
    p1 = p1
    p2 = p2
    None = None
    Devices = {d1, d2}
    Cards = {c1, c2}
    Events = {e1, e2}
    Requests = {p1, p2}
    MaxFailures = 1
    Environments <- MCFailingOnly
INVARIANTS
    RetryLosesNothing
CHECK_DEADLOCK FALSE
