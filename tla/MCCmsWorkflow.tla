----------------------------- MODULE MCCmsWorkflow -----------------------------
\* CmsWorkflow on small instances: an administrator (whose permissions include an
\* editor's) and a reviewer; the empty payload and two that are valid for either
\* content type.
EXTENDS CmsWorkflow, TLC

CONSTANTS alice, rev, e1, e2, empty, text1, text2

MCActors == {alice, rev}
MCRole == alice :> "admin" @@ rev :> "reviewer"
MCEntities == {e1, e2}
MCCanonical == {<<"dictionary", e1>>}
MCPayloads == {empty, text1, text2}
MCProposals == {text1, text2}
MCProposalType == [p \in Proposals |-> "dictionary"]
\* The two texts are interchangeable.
MCSymmetry == Permutations({text1, text2})
================================================================================
