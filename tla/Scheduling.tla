------------------------------- MODULE Scheduling -------------------------------
(***************************************************************************)
(* The schedulers of src/services/srs and the decks that choose among      *)
(* them: SM-2, FSRS-lite, Leitner boxes and the fixed ladder.              *)
(*                                                                         *)
(* All of them keep their state in the same columns of a card, and each    *)
(* leaves the columns it does not manage as they are.  stepIndex is a      *)
(* learning step to one, a box to another and a rung to a third; a deck    *)
(* that changes its scheduler or its parameters hands the new one whatever *)
(* the old one left.                                                       *)
(*                                                                         *)
(* Of the intervals a model needs to know only whether they are of the     *)
(* learning steps or of days; easiness and difficulty decide nothing else. *)
(* Decks keep the default numbers of boxes to promote and rungs to climb.  *)
(***************************************************************************)
EXTENDS Integers

CONSTANTS
    MaxSteps,  \* most learning steps of a deck
    TopBox,    \* the last box
    TopRung    \* the last rung of the ladder

VARIABLES
    deck,      \* the deck's scheduler and the parameters it resolves to
    card,      \* a card of the deck
    streak     \* passing answers since a failure or a change of the deck (history)

schedulingVars == <<deck, card, streak>>

ASSUME SchedulingAssumption ==
    /\ MaxSteps \in Nat \ {0}
    /\ TopBox \in Nat \ {0}
    /\ TopRung \in Nat

Ratings == {"again", "hard", "good", "easy"}
IsPass(rating) == rating \in {"good", "easy"}

Schedulers == {"sm2", "fsrs-lite", "leitner-box", "fixed-ladder"}

Decks == [key : Schedulers, steps : 1 .. MaxSteps, useSteps : BOOLEAN, minimumBox : 0 .. 3]

\* repetitions: whether there are any; stable: whether stabilityDays is positive.
Fresh == [repetitions |-> FALSE, stable |-> FALSE, box |-> 0, stepIndex |-> 0,
          isLearning |-> TRUE, phase |-> "learning", due |-> "days"]

Clamp(n, low, high) == IF n < low THEN low ELSE IF n > high THEN high ELSE n
Least(m, n) == IF m <= n THEN m ELSE n

--------------------------------------------------------------------------------
(***************************************************************************)
(* The outcomes the schedulers have in common.                             *)
(***************************************************************************)
ToStep(c, i) ==
    [c EXCEPT !.stepIndex = i, !.isLearning = TRUE, !.phase = "learning",
              !.repetitions = FALSE, !.due = "minutes"]

ToReview(c, i) ==
    [c EXCEPT !.stepIndex = i, !.isLearning = FALSE, !.phase = "review",
              !.repetitions = TRUE, !.due = "days"]

\* Mutant: the index may run past the last step.
HasNextStepInclusive(c, p) == p.useSteps /\ c.stepIndex < p.steps

HasNextStep(c, p) == p.useSteps /\ c.stepIndex + 1 < p.steps

\* A failed card in a deck with learning steps, and in one without.
Lapse(c, p) ==
    [c EXCEPT !.stepIndex = 0, !.repetitions = FALSE, !.isLearning = p.useSteps,
              !.phase = IF p.useSteps THEN "relearning" ELSE "review"]

--------------------------------------------------------------------------------
(***************************************************************************)
(* SM-2.  Hard counts as a failure before the branches for Hard are        *)
(* reached.  A lapse is due in minutes in a deck without steps as well.    *)
(***************************************************************************)
Sm2(c, p, rating) ==
    IF p.useSteps /\ c.isLearning /\ ~c.repetitions
    THEN IF ~IsPass(rating) THEN ToStep(c, 0)
         ELSE IF rating = "good" /\ HasNextStep(c, p) THEN ToStep(c, c.stepIndex + 1)
         ELSE ToReview(c, 0)
    ELSE IF IsPass(rating) THEN ToReview(c, c.stepIndex)
         ELSE [Lapse(c, p) EXCEPT !.due = "minutes"]

(***************************************************************************)
(* FSRS-lite.  A card without stability or repetitions is new to it, and   *)
(* on first contact Hard is an interval like any other.                    *)
(***************************************************************************)
FirstContact(c, p, rating) ==
    IF IsPass(rating) /\ HasNextStep(c, p)
    THEN [ToStep(c, c.stepIndex + 1) EXCEPT !.stable = TRUE]
    ELSE LET relearns == rating = "again" /\ p.useSteps
         IN  [ToReview(c, 0) EXCEPT !.stable = TRUE,
                                    !.isLearning = relearns,
                                    !.phase = IF relearns THEN "relearning" ELSE "review",
                                    !.due = IF relearns THEN "minutes" ELSE "days"]

FsrsLite(c, p, rating) ==
    IF ~c.stable \/ ~c.repetitions THEN FirstContact(c, p, rating)
    ELSE IF IsPass(rating) THEN ToReview(c, c.stepIndex)
    ELSE [Lapse(c, p) EXCEPT !.due = IF p.useSteps THEN "minutes" ELSE "days"]

(***************************************************************************)
(* Leitner boxes.  Box 0, of minutes, is below the minimum of most decks.  *)
(***************************************************************************)
Leitner(c, p, rating) ==
    LET delta == CASE rating = "good" -> 1
                   [] rating = "easy" -> 2
                   [] rating = "hard" -> 0
                   [] rating = "again" -> -3
        box == Clamp(c.box + delta, Least(p.minimumBox, TopBox), TopBox)
    IN  [c EXCEPT !.box = box,
                  !.stepIndex = box,
                  !.isLearning = box = 0,
                  !.phase = IF box = 0 THEN "learning" ELSE "review",
                  !.repetitions = IsPass(rating),
                  !.due = IF box = 0 THEN "minutes" ELSE "days"]

(***************************************************************************)
(* The fixed ladder.  Past the learning steps there is no relearning.      *)
(***************************************************************************)
FixedLadder(c, p, rating) ==
    IF p.useSteps /\ c.isLearning /\ ~c.repetitions
    THEN CASE rating = "again" -> ToStep(c, 0)
           [] rating = "hard" -> ToStep(c, c.stepIndex)
           [] rating = "easy" -> ToReview(c, Least(2, TopRung))
           [] rating = "good" -> IF HasNextStep(c, p) THEN ToStep(c, c.stepIndex + 1)
                                 ELSE ToReview(c, 0)
    ELSE LET climb == CASE rating = "good" -> 1
                        [] rating = "easy" -> 2
                        [] rating = "hard" -> 0
                        [] rating = "again" -> -3
             rung == Clamp(Clamp(c.stepIndex, 0, TopRung) + climb, 0, TopRung)
         IN  [ToReview(c, rung) EXCEPT !.repetitions = IsPass(rating)]

Review(c, p, rating) ==
    CASE p.key = "sm2" -> Sm2(c, p, rating)
      [] p.key = "fsrs-lite" -> FsrsLite(c, p, rating)
      [] p.key = "leitner-box" -> Leitner(c, p, rating)
      [] p.key = "fixed-ladder" -> FixedLadder(c, p, rating)

--------------------------------------------------------------------------------
\* Answers a learner gives in a row count up to the most steps there can be.
GradeCard(rating) ==
    /\ card' = Review(card, deck, rating)
    /\ streak' = IF IsPass(rating) THEN Least(streak + 1, MaxSteps) ELSE 0
    /\ UNCHANGED deck

\* Another scheduler, other parameters, or both; the cards stay as they are.
UpdateDeck(p) ==
    /\ p # deck
    /\ deck' = p
    /\ streak' = 0
    /\ UNCHANGED card

SchedulingInit ==
    /\ deck \in Decks
    /\ card = Fresh
    /\ streak = 0

SchedulingNext ==
    \/ \E rating \in Ratings : GradeCard(rating)
    \/ \E p \in Decks : UpdateDeck(p)

SchedulingSpec == SchedulingInit /\ [][SchedulingNext]_schedulingVars

--------------------------------------------------------------------------------
(***************************************************************************)
(* Properties                                                              *)
(***************************************************************************)

Card == [repetitions : BOOLEAN, stable : BOOLEAN, box : 0 .. TopBox,
         stepIndex : Nat, isLearning : BOOLEAN, due : {"minutes", "days"},
         phase : {"learning", "relearning", "review"}]

\* The deck and the card have their types.
SchedulingTypeOK ==
    /\ deck \in Decks
    /\ card \in Card
    /\ streak \in 0 .. MaxSteps

\* The passing answers in a row that every card needs to be past its steps.
Enough(p) == IF p.useSteps /\ p.key # "leitner-box" THEN p.steps ELSE 1

\* No card is caught in its learning steps: as many passing answers in a row as
\* there are steps put it into review, for days, and further ones keep it there,
\* whichever schedulers with whatever parameters it has been through.  The phase
\* and the flag that count it among the learning cards always agree.
PassesGraduate ==
    /\ streak >= Enough(deck)
          => ~card.isLearning /\ card.phase = "review" /\ card.due = "days"
    /\ card.isLearning <=> card.phase \in {"learning", "relearning"}
================================================================================
