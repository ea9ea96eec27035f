\* Two translation proposals with the same text for the same entity, two requests.
SPECIFICATION FairTxSpec
CONSTANTS
    alice = alice
    rev = rev
    e1 = e1
    empty = empty
    prop1 = prop1
    q1 = q1
    q2 = q2
    None = None
    Actors <- MCAlone
    Role <- MCRole
    Entities <- MCEntities
    Canonical <- MCCanonical
    Payloads <- MCPayloads
    Proposals <- MCProposals
    ProposalType <- MCProposalType
    EmptyPayload = empty
    Items = {i1, i2}
    ContentTypes = {"translation"}
    ServiceSurface = FALSE
    MaxVersion = 4
    Requests = {q1, q2}
PROPERTIES
    RequestsEnd
CHECK_DEADLOCK FALSE
