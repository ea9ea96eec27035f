\* Two overlapping requests on one dictionary item.
SPECIFICATION TxSpec
CONSTANTS
    alice = alice
    rev = rev
    e1 = e1
    empty = empty
    prop1 = prop1
    q1 = q1
    q2 = q2
    None = None
    Actors <- MCActors
    Role <- MCRole
    Entities <- MCEntities
    Canonical <- MCCanonical
    Payloads <- MCPayloads
    Proposals <- MCProposals
    ProposalType <- MCProposalType
    EmptyPayload = empty
    Items = {i1}
    ContentTypes = {"dictionary", "translation"}
    ServiceSurface = FALSE
    MaxVersion = 5
    Requests = {q1, q2}
SYMMETRY MCSymmetry
INVARIANTS
    TxTypeOK
    OneWriterPastIndex
PROPERTIES
    ImplementsWorkflow
    NoLostUpdate
    HistoryImmutable
CHECK_DEADLOCK FALSE
