---------------------------- MODULE MCReviewSession ----------------------------
\* ReviewSession with one session over at most two cards.
EXTENDS ReviewSession, TLC

CONSTANTS c1, c2, p1, p2

MCPlans == {<<>>, <<c1>>, <<c1, c2>>}

\* The client p undisturbed, the client p with everything else going wrong, and
\* two clients.
MCAlone(p) == [slots |-> {p}, direct |-> FALSE, crashes |-> FALSE]
MCDisturbed(p) == [slots |-> {p}, direct |-> TRUE, crashes |-> TRUE]
MCTwo == [slots |-> Requests, direct |-> FALSE, crashes |-> FALSE]

MCEnvironments ==
    {MCTwo} \cup {MCAlone(p) : p \in Requests} \cup {MCDisturbed(p) : p \in Requests}

MCOverlap == {MCTwo}

MCSymmetry == Permutations(Requests)
================================================================================
