--------------------------- MODULE MCCmsTransactions ---------------------------
\* CmsTransactions on small instances: an administrator and a reviewer whose
\* requests overlap on one item or on two items with the same translation.
EXTENDS CmsTransactions, TLC

CONSTANTS alice, rev, e1, empty, prop1, q1, q2

MCAlone == {alice}
MCActors == {alice, rev}
MCRole == [a \in Actors |-> IF a = alice THEN "admin" ELSE "reviewer"]
MCEntities == {e1}
MCCanonical == {<<"dictionary", e1>>}
MCPayloads == {empty, prop1}
MCProposals == {prop1}
MCProposalType == [p \in MCProposals |-> "dictionary"]
MCSymmetry == Permutations({q1, q2})
================================================================================
