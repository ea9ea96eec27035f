\* A dictionary item behind the HTTP routes: an old snapshot is republished.
SPECIFICATION Spec
CONSTANTS
    alice = alice
    rev = rev
    e1 = e1
    e2 = e2
    empty = empty
    text1 = text1
    text2 = text2
    None = None
    Actors <- MCActors
    Role <- MCRole
    Entities <- MCEntities
    Canonical <- MCCanonical
    Payloads <- MCPayloads
    Proposals <- MCProposals
    ProposalType <- MCProposalType
    EmptyPayload = empty
    Items = {i1}
    ContentTypes = {"dictionary"}
    ServiceSurface = FALSE
    MaxVersion = 7
INVARIANTS
    PublishedPayloadIsValid
CHECK_DEADLOCK FALSE
