------------------------------- MODULE DailyQueue -------------------------------
(***************************************************************************)
(* The daily queue and the sessions that are planned from it: what the     *)
(* page of today counts and suggests, what planSession makes of it later,  *)
(* and the budget of new cards.                                            *)
(*                                                                         *)
(* Two clocks divide the time.  The study day begins at a cutoff hour, and *)
(* the daily queue counts in it; the budget of planSession begins at the   *)
(* server's midnight.  The learner is in the zone of the server, and both  *)
(* pages send the same budget.                                             *)
(*                                                                         *)
(* Cards are not suspended, and a deck is smaller than the sample of a     *)
(* bucket (300), at which its count stops.  The order of a queue matters   *)
(* here only for what the cap cuts off; ReviewSession has the order of     *)
(* answers.                                                                *)
(***************************************************************************)
EXTENDS Integers, FiniteSetsExt, SequencesExt

CONSTANTS
    DeckCards,
    DayLength,      \* instants of a day, which begins with midnight
    Cutoff,         \* instants from midnight to the start of the study day
    NewTarget,      \* new cards a day
    ReviewCeiling,  \* most reviews suggested for a day
    MaxCards,       \* most cards of a session
    ForecastDays,
    Failures,       \* where a failed card goes: "step", "days"
    LastInstant,    \* bound on the time explored
    MaxSessions,    \* bound on the sessions explored
    MaxAnswers      \* bound on the answers explored

VARIABLES
    clock,
    pile,       \* pile[c]: the columns of card c
    studyLog,   \* the review log
    queues,     \* the queues of the sessions, in the order they were planned
    loose       \* an answer or an undo that no budget counted (history)

dailyVars == <<clock, pile, studyLog, queues, loose>>

ASSUME DailyAssumption ==
    /\ IsFiniteSet(DeckCards)
    /\ DayLength \in Nat \ {0}
    /\ Cutoff \in 0 .. DayLength - 1
    /\ {NewTarget, ReviewCeiling, LastInstant, MaxSessions, MaxAnswers} \subseteq Nat
    /\ {MaxCards, ForecastDays} \subseteq Nat \ {0}
    /\ Failures \subseteq {"step", "days"}

\* seen: whether it was ever reviewed; unproven: whether its repetitions are 0.
NewCard == [due |-> 0, learning |-> TRUE, seen |-> FALSE, unproven |-> TRUE]

KnownCard(due, learning, unproven) ==
    [due |-> due, learning |-> learning, seen |-> TRUE, unproven |-> unproven]

\* A review that is posted or pushed on its own belongs to no session.
NoSession == 0

--------------------------------------------------------------------------------
(***************************************************************************)
(* Days.                                                                   *)
(***************************************************************************)
Midnight == clock - (clock % DayLength)
DayStart == clock - ((clock - Cutoff) % DayLength)
DayEnd == DayStart + DayLength
DateOf(n) == n \div DayLength

\* Answers to cards without repetitions: the new ones, and those that failed or
\* are on their learning steps.
NewSince(start) ==
    Cardinality({i \in DOMAIN studyLog : studyLog[i].at >= start /\ studyLog[i].before.unproven})

--------------------------------------------------------------------------------
(***************************************************************************)
(* The daily queue.                                                        *)
(***************************************************************************)
Overdue == {c \in DeckCards : ~pile[c].learning /\ pile[c].due < DayStart}
DueToday == {c \in DeckCards : ~pile[c].learning /\ pile[c].due \in DayStart .. DayEnd}
LaterToday == {c \in DeckCards : pile[c].learning /\ pile[c].due \in clock .. DayEnd}
NewAvailable == {c \in DeckCards : ~pile[c].seen}

Suggestion ==
    [overdue |-> Cardinality(Overdue),
     dueToday |-> Cardinality(DueToday),
     new |-> Min({Cardinality(NewAvailable), Max({0, NewTarget - NewSince(DayStart)})}),
     review |-> Min({Cardinality(Overdue) + Cardinality(DueToday), ReviewCeiling})]

\* The forecast of a date, counted from today.
ForecastOn(i) ==
    Cardinality({c \in DeckCards : /\ pile[c].due >= DayStart
                                   /\ pile[c].due < DayStart + ForecastDays * DayLength
                                   /\ DateOf(pile[c].due) = DateOf(DayStart) + i - 1})

Forecast == [i \in 1 .. ForecastDays |-> ForecastOn(i)]

SumTo(f, k) == MapThenSumSet(LAMBDA i : f[i], 1 .. k)

\* Mutant: the day that is relieved keeps its surplus.
BalancedDay(n, before, after) == n + before

\* The n cards of a day and what it takes over, less what it passes on.
RelievedDay(n, before, after) == n + before - after

\* Balanced towards the mean, unless no day is a spike.  The surplus of a day fills
\* the room of the days after it, nearest first, which is to say that every day
\* passes on what is above the ceiling; what the last day passes on is dropped.
Balanced(f) ==
    LET days == Len(f)
        total == SumTo(f, days)
        ceiling == Max({1, (total + days - 1) \div days})
        spike == Max({2, (3 * total + 2 * days - 1) \div (2 * days)})
        surplus[k \in 0 .. days] == IF k = 0 THEN 0 ELSE Max({0, surplus[k - 1] + f[k] - ceiling})
    IN  IF days < 3 \/ \A i \in 1 .. days : f[i] < spike THEN f
        ELSE [i \in 1 .. days |-> RelievedDay(f[i], surplus[i - 1], surplus[i])]

--------------------------------------------------------------------------------
(***************************************************************************)
(* planSession, as one step: what two of its statements could read         *)
(* differently are the answers of sessions that overlap.                   *)
(***************************************************************************)
\* Mutant: the answers of today are not counted.
AllowanceWhole(used) == NewTarget

Allowance(used) == Max({0, NewTarget - used})

\* The place of the k-th of n new cards among r reviews.
PlaceOfNew(k, n, r) == Min({k * Max({1, r \div n}), r}) + k

\* How many of n new and r known cards are new in the first size of them.
NewWithin(size, newFirst, n, r) ==
    IF newFirst THEN Min({n, size}) ELSE Cardinality({k \in 1 .. n : PlaceOfNew(k, n, r) <= size})

\* A session for what is asked, among the cards that are due by the horizon.
PlanSession(ask, horizon) ==
    LET due == {c \in DeckCards : pile[c].due <= horizon}
        fresh == due \cap NewAvailable
        known == due \ fresh
        n == Min({ask.new, Allowance(NewSince(Midnight)), Cardinality(fresh)})
        r == Min({ask.review, Cardinality(known)})
        size == Min({MaxCards, n + r})
        newKept == NewWithin(size, ask.newFirst, n, r)
    IN  /\ Len(queues) < MaxSessions
        /\ \E new \in SUBSET fresh, review \in SUBSET known :
              /\ Cardinality(new) = newKept
              /\ Cardinality(review) = size - newKept
              /\ queues' = Append(queues, new \cup review)
        /\ UNCHANGED <<clock, pile, studyLog, loose>>

\* The buttons of today's page.
Buttons ==
    LET shown == Suggestion
    IN  {ask \in {[new |-> shown.new, review |-> shown.review, newFirst |-> FALSE],
                  [new |-> 0, review |-> shown.overdue, newFirst |-> FALSE],
                  [new |-> 0, review |-> shown.dueToday, newFirst |-> FALSE],
                  [new |-> shown.new, review |-> 0, newFirst |-> TRUE]} :
            ask.review > 0 \/ (ask.newFirst /\ ask.new > 0)}

\* Mutant: the session takes what is due now.
StartTodayNow(ask) == PlanSession(ask, clock)

\* Everything due within the study day.
StartToday(ask) == PlanSession(ask, DayEnd)

\* The other page has limits of its own and takes what is due now; a page of
\* today that is out of date has the limits of another moment.
StartOther(newFirst, horizon) ==
    PlanSession([new |-> NewTarget, review |-> ReviewCeiling, newFirst |-> newFirst], horizon)

--------------------------------------------------------------------------------
(***************************************************************************)
(* Answers.  Ending a session early takes nothing from the others, so a    *)
(* session here is just not continued.                                     *)
(***************************************************************************)
\* What a scheduler leaves: an interval of days, a learning step, which is an
\* instant, or the interval of a failed card that has no step to go back to.
GradeOutcomes ==
    {KnownCard(clock + DayLength, FALSE, FALSE)} \cup
    {IF f = "step" THEN KnownCard(clock + 1, TRUE, TRUE)
                   ELSE KnownCard(clock + DayLength, FALSE, TRUE) : f \in Failures}

GradeIn(s, c) ==
    /\ Len(studyLog) < MaxAnswers
    /\ studyLog' = Append(studyLog, [card |-> c, at |-> clock, before |-> pile[c], session |-> s])
    /\ \E o \in GradeOutcomes : pile' = [pile EXCEPT ![c] = o]
    /\ loose' = (loose \/ (~pile[c].seen /\ s \notin {Len(queues)} \ {NoSession}))
    /\ UNCHANGED <<clock, queues>>

AnsweredIn(s) == {studyLog[i].card : i \in {j \in DOMAIN studyLog : studyLog[j].session = s}}

AnswerInSession(s) == \E c \in queues[s] \ AnsweredIn(s) : GradeIn(s, c)

AnswerOutside == \E c \in DeckCards : GradeIn(NoSession, c)

\* Undoing gives the budget back, to the day of the answer.
UndoInSession(s) ==
    LET mine == {i \in DOMAIN studyLog : studyLog[i].session = s}
        last == Max(mine)
    IN  /\ mine # {}
        /\ pile' = [pile EXCEPT ![studyLog[last].card] = studyLog[last].before]
        /\ studyLog' = RemoveAt(studyLog, last)
        /\ loose' = (loose \/ s # Len(queues))
        /\ UNCHANGED <<clock, queues>>

PassTime ==
    /\ clock < LastInstant
    /\ clock' = clock + 1
    /\ UNCHANGED <<pile, studyLog, queues, loose>>

--------------------------------------------------------------------------------
DailyInit ==
    /\ clock = 0
    /\ pile \in [DeckCards -> {NewCard} \cup {KnownCard(d, FALSE, FALSE) : d \in 0 .. DayLength}]
    /\ studyLog = <<>>
    /\ queues = <<>>
    /\ loose = FALSE

DailyNext ==
    \/ \E ask \in Buttons : StartToday(ask)
    \/ \E newFirst \in BOOLEAN, horizon \in {clock, DayEnd} : StartOther(newFirst, horizon)
    \/ \E s \in DOMAIN queues : AnswerInSession(s) \/ UndoInSession(s)
    \/ AnswerOutside
    \/ PassTime

DailySpec == DailyInit /\ [][DailyNext]_dailyVars

--------------------------------------------------------------------------------
(***************************************************************************)
(* Properties                                                              *)
(***************************************************************************)

CardState == [due : Nat, learning : BOOLEAN, seen : BOOLEAN, unproven : BOOLEAN]

\* The cards, the log, the page and the sessions have their types.
DailyTypeOK ==
    /\ clock \in 0 .. LastInstant
    /\ pile \in [DeckCards -> CardState]
    /\ studyLog \in Seq([card : DeckCards, at : Nat, before : CardState,
                        session : 0 .. MaxSessions])
    /\ queues \in Seq(SUBSET DeckCards)
    /\ loose \in BOOLEAN

\* Cards answered for the first time on a date.
FirstAnswersOn(date) ==
    {i \in DOMAIN studyLog : DateOf(studyLog[i].at) = date /\ ~studyLog[i].before.seen}

\* Sessions keep the budget while new cards are answered in the latest of them
\* only: a day sees no more first answers than new cards are meant for it,
\* whatever was undone, left unfinished or carried over midnight.
BudgetIsKept ==
    ~loose => \A date \in 0 .. DateOf(LastInstant) :
                  Cardinality(FirstAnswersOn(date)) <= NewTarget

\* A session launched from an up-to-date page has as many cards as the button
\* said, up to the most a session may have, unless more new cards were answered
\* since midnight than since the start of the study day.  It never has more.
LaunchMatchesCount ==
    \A ask \in Buttons :
        StartToday(ask) =>
            LET size == Cardinality(queues'[Len(queues')])
            IN  /\ size <= ask.new + ask.review
                /\ \/ size = Min({MaxCards, ask.new + ask.review})
                   \/ NewSince(Midnight) > NewSince(DayStart)

\* Balancing the forecast only defers: up to every day it plans no more cards
\* than are due by then, and no day gets more than it had or the mean.
BalancingOnlyDefers ==
    LET f == Forecast
        b == Balanced(f)
    IN  \A k \in 1 .. ForecastDays :
            /\ SumTo(b, k) <= SumTo(f, k)
            /\ b[k] > f[k] => b[k] * ForecastDays < SumTo(f, ForecastDays) + ForecastDays

\* The plan of a day holds: its budget always, and the page whenever a session
\* is planned.
DailyPlanHolds ==
    /\ []BudgetIsKept
    /\ [][Len(queues') > Len(queues) => LaunchMatchesCount /\ BalancingOnlyDefers]_dailyVars

\* A card that was studied before and was due before the study day is overdue or,
\* when it is on its learning steps, in laterToday.
LearningCardsAreCounted ==
    \A c \in DeckCards :
        (pile[c].seen /\ pile[c].due < DayStart) => c \in Overdue \cup LaterToday
================================================================================
