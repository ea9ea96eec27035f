------------------------------ MODULE MCServices -------------------------------
\* The scenes of Services on small instances.
EXTENDS Services, TLC

CONSTANTS t1, t2, k1, k2, e1, e2, x1, x2, s2

MCInPlaceOf == s2 :> k2

\* Edges refer to their kanji and an element, kanji to their radical.
MCNeeds == [r \in AllRows |->
               CASE r \in {k1, k2} -> {e1}
                 [] r = x1 -> {k1, e1}
                 [] r = x2 -> {k2, e2}
                 [] OTHER -> {}]

\* The targets differ in what they hold before: one has a row of another source.
MCFewOthers ==
    /\ sources = {t2}
    /\ Foreign(t1) \subseteq {3}
    /\ Foreign(t2) = {}

\* The parameters of a new deck.
MCDeck == [key |-> "sm2", steps |-> MaxSteps, useSteps |-> TRUE, minimumBox |-> 1]

\* The components that rest do so in one initial state.
MCInit ==
    /\ ServicesInit
    /\ IF scene = "ingestion" THEN MCFewOthers
       ELSE sources = Targets /\ \A t \in Targets : Foreign(t) = {}
    /\ scene # "foundation" => rows = {}
    /\ url.query = Blank
    /\ scene # "scheduling" => deck = MCDeck

MCSpec == MCInit /\ [][ServicesNext]_servicesVars

MCSymmetry ==
    Permutations(Loads) \cup Permutations(Tags)
================================================================================
