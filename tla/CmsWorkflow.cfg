\* One item of each kind the HTTP routes serve, versions up to 8.
SPECIFICATION Spec
CONSTANTS
    alice = alice
    rev = rev
    e1 = e1
    e2 = e2
    empty = empty
    text1 = text1
    text2 = text2
    None = None
    Actors <- MCActors
    Role <- MCRole
    Entities <- MCEntities
    Canonical <- MCCanonical
    Payloads <- MCPayloads
    Proposals <- MCProposals
    ProposalType <- MCProposalType
    EmptyPayload = empty
    Items = {i1}
    ContentTypes = {"dictionary", "translation"}
    ServiceSurface = FALSE
    MaxVersion = 8
SYMMETRY MCSymmetry
INVARIANTS
    TypeOK
    HistoryComplete
    ApprovalLineage
    PublishedOverlayExists
    TranslationsVerified
CHECK_DEADLOCK FALSE
