\* Pushes of two devices, in order or overlapping, with lost answers or failures anywhere.
SPECIFICATION FairSpec
CONSTANTS
    p1 = p1
    p2 = p2
    None = None
    Devices = {d1, d2}
    Cards = {c1, c2}
    Events = {e1, e2}
    Requests = {p1, p2}
    MaxFailures = 1
    Environments <- MCEnvironments
INVARIANTS
    TypeOK
    AppliedAtMostOnce
    AckedIsApplied
PROPERTIES
    NothingClobbered
    OutboxDrains
CHECK_DEADLOCK FALSE
