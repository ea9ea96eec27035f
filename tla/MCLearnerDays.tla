----------------------------- MODULE MCLearnerDays -----------------------------
\* The scenes of LearnerDays, with three cards: two new ones and one that is due.
EXTENDS MCExamSession, LearnerDays

CONSTANTS n1, n2, n3

MCPile == [c \in {n1, n2} |-> NewCard] @@ n3 :> KnownCard(0, FALSE, FALSE)

\* The components that rest do so in one initial state.
MCInit ==
    /\ LearnerInit
    /\ scene # "exams" => env = MCOrderly(Sessions, Requests)
    /\ pile = MCPile

MCSpec == MCInit /\ [][LearnerNext]_learnerVars
================================================================================
