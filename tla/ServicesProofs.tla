---------------------------- MODULE ServicesProofs -----------------------------
(***************************************************************************)
(* Proofs about Scheduling, FirstUse, StudyPage and DictionarySearch: any  *)
(* number of learning steps, boxes and rungs; any identities, requests and *)
(* seeds; a queue of any length; any words, filters and requests.  The     *)
(* last part is about all components of Services together.                 *)
(***************************************************************************)
EXTENDS Services, DeltaPullProofs, ScriptsProofs

--------------------------------------------------------------------------------
(***************************************************************************)
(* The schedulers                                                          *)
(***************************************************************************)
\* Which half of PassesGraduate holds whatever the answers were.
PhaseAgrees(c) == c.isLearning <=> c.phase \in {"learning", "relearning"}

\* After n passing answers in a row, n > 0, a card is in review and stays there
\* as long as they go on, or is at the n-th step of the deck or a later one.
Graduated(c, p) ==
    /\ ~c.isLearning
    /\ c.phase = "review"
    /\ c.due = "days"
    /\ p.key # "leitner-box" => c.repetitions
    /\ p.key = "fsrs-lite" => c.stable

AtStep(c, p, n) ==
    /\ p.useSteps
    /\ p.key # "leitner-box"
    /\ c.isLearning
    /\ ~c.repetitions
    /\ n <= c.stepIndex
    /\ c.stepIndex < p.steps

GoesOn(c, p, n) == n > 0 => Graduated(c, p) \/ AtStep(c, p, n)

\* What one answer does, to a card that has had n passing ones in a row.
Regraded(c, p, n, rating, d) ==
    /\ d \in Card
    /\ PhaseAgrees(d)
    /\ IsPass(rating) => \A m \in Nat : m <= n + 1 => GoesOn(d, p, m)

LEMMA StepType ==
    ASSUME NEW c \in Card, NEW i \in Nat
    PROVE  /\ ToStep(c, i) \in Card /\ PhaseAgrees(ToStep(c, i))
           /\ ToStep(c, i).stepIndex = i
           /\ ToStep(c, i).isLearning = TRUE
           /\ ToStep(c, i).repetitions = FALSE
           /\ ToStep(c, i).stable = c.stable
           /\ ToReview(c, i) \in Card /\ PhaseAgrees(ToReview(c, i))
           /\ ToReview(c, i).isLearning = FALSE
           /\ ToReview(c, i).repetitions = TRUE
           /\ ToReview(c, i).phase = "review"
           /\ ToReview(c, i).due = "days"
           /\ ToReview(c, i).stable = c.stable
BY DEF ToStep, ToReview, Card, PhaseAgrees

LEMMA LapseType ==
    ASSUME NEW c \in Card, NEW p \in Decks, NEW due \in {"minutes", "days"}
    PROVE  LET d == [Lapse(c, p) EXCEPT !.due = due] IN d \in Card /\ PhaseAgrees(d)
<1>1. p.useSteps \in BOOLEAN
  BY DEF Decks
<1>2. CASE p.useSteps
  BY <1>2 DEF Lapse, Card, PhaseAgrees
<1>3. CASE ~p.useSteps
  BY <1>1, <1>3 DEF Lapse, Card, PhaseAgrees
<1> QED BY <1>2, <1>3

LEMMA StepGoesOn ==
    ASSUME NEW c \in Card, NEW p \in Decks, NEW n \in Nat, p.key # "leitner-box",
           HasNextStep(c, p), n <= c.stepIndex,
           NEW d, d.stepIndex = c.stepIndex + 1, d.isLearning = TRUE, d.repetitions = FALSE
    PROVE  \A m \in Nat : m <= n + 1 => GoesOn(d, p, m)
<1>1. c.stepIndex \in Nat /\ p.steps \in Nat
  BY SchedulingAssumption DEF Card, Decks
<1> QED BY <1>1 DEF HasNextStep, GoesOn, AtStep

LEMMA NextStepAnswers ==
    ASSUME NEW c \in Card, NEW p \in Decks, NEW n \in Nat, p.key # "leitner-box",
           HasNextStep(c, p), n <= c.stepIndex, NEW rating
    PROVE  Regraded(c, p, n, rating, ToStep(c, c.stepIndex + 1))
<1> DEFINE i == c.stepIndex + 1
           d == ToStep(c, i)
<1>1. i \in Nat
  BY DEF Card
<1> HIDE DEF i
<1>2. /\ d \in Card /\ PhaseAgrees(d)
      /\ d.stepIndex = i /\ d.isLearning = TRUE /\ d.repetitions = FALSE
  BY <1>1, StepType
<1> HIDE DEF d
<1>3. \A m \in Nat : m <= n + 1 => GoesOn(d, p, m)
  BY <1>2, StepGoesOn DEF i
<1> QED BY <1>2, <1>3 DEF Regraded, d, i

LEMMA SameStepAnswers ==
    ASSUME NEW c \in Card, NEW p, NEW n, NEW i \in Nat, NEW rating, ~IsPass(rating)
    PROVE  Regraded(c, p, n, rating, ToStep(c, i))
BY StepType DEF Regraded

LEMMA ReviewAnswers ==
    ASSUME NEW c \in Card, NEW p, p.key = "fsrs-lite" => c.stable,
           NEW n, NEW i \in Nat, NEW rating
    PROVE  Regraded(c, p, n, rating, ToReview(c, i))
<1> DEFINE d == ToReview(c, i)
<1>1. /\ d \in Card /\ PhaseAgrees(d)
      /\ d.isLearning = FALSE /\ d.repetitions = TRUE /\ d.phase = "review" /\ d.due = "days"
      /\ d.stable = c.stable
  BY StepType
<1> HIDE DEF d
<1>2. Graduated(d, p)
  BY <1>1 DEF Graduated
<1> QED BY <1>1, <1>2 DEF Regraded, GoesOn, d

LEMMA Sm2Answers ==
    ASSUME NEW c \in Card, NEW p \in Decks, NEW n \in Nat, GoesOn(c, p, n), PhaseAgrees(c),
           NEW rating \in Ratings, p.key = "sm2"
    PROVE  Regraded(c, p, n, rating, Sm2(c, p, rating))
<1>1. c.stepIndex \in Nat /\ p.steps \in Nat /\ p.useSteps \in BOOLEAN
  BY SchedulingAssumption DEF Card, Decks
<1>2. CASE p.useSteps /\ c.isLearning /\ ~c.repetitions
  <2>1. n <= c.stepIndex
    BY <1>1, <1>2 DEF GoesOn, Graduated, AtStep
  <2>2. CASE ~IsPass(rating)
    BY <1>2, <2>2, SameStepAnswers DEF Sm2
  <2>3. CASE rating = "good" /\ HasNextStep(c, p)
    <3>1. Sm2(c, p, rating) = ToStep(c, c.stepIndex + 1)
      BY <1>2, <2>3 DEF Sm2, IsPass
    <3> QED BY <2>1, <2>3, <3>1, NextStepAnswers
  <2>4. CASE IsPass(rating) /\ ~(rating = "good" /\ HasNextStep(c, p))
    BY <1>2, <2>4, ReviewAnswers DEF Sm2
  <2> QED BY <2>2, <2>3, <2>4
<1>3. CASE ~(p.useSteps /\ c.isLearning /\ ~c.repetitions)
  <2>1. CASE IsPass(rating)
    BY <1>1, <1>3, <2>1, ReviewAnswers DEF Sm2
  <2>2. CASE ~IsPass(rating)
    BY <1>3, <2>2, LapseType DEF Sm2, Regraded
  <2> QED BY <2>1, <2>2
<1> QED BY <1>2, <1>3

LEMMA FsrsAnswers ==
    ASSUME NEW c \in Card, NEW p \in Decks, NEW n \in Nat, GoesOn(c, p, n), PhaseAgrees(c),
           NEW rating \in Ratings, p.key = "fsrs-lite"
    PROVE  Regraded(c, p, n, rating, FsrsLite(c, p, rating))
<1>1. /\ c.stepIndex \in Nat /\ p.steps \in Nat /\ p.useSteps \in BOOLEAN
      /\ c.stable \in BOOLEAN
  BY SchedulingAssumption DEF Card, Decks
<1> DEFINE s == [c EXCEPT !.stable = TRUE]
<1>2. CASE ~c.stable \/ ~c.repetitions
  <2>1. FsrsLite(c, p, rating) = FirstContact(c, p, rating)
    BY <1>2 DEF FsrsLite
  <2>2. n <= c.stepIndex
    BY <1>1, <1>2 DEF GoesOn, Graduated, AtStep
  <2>3. s \in Card /\ s.stepIndex = c.stepIndex /\ s.stable = TRUE
    BY DEF Card
  <2>4. CASE IsPass(rating) /\ HasNextStep(c, p)
    <3>1. FirstContact(c, p, rating) = ToStep(s, s.stepIndex + 1)
      BY <2>3, <2>4 DEF FirstContact, ToStep, Card
    <3>2. HasNextStep(s, p)
      BY <2>3, <2>4 DEF HasNextStep
    <3> HIDE DEF s
    <3>3. Regraded(s, p, n, rating, ToStep(s, s.stepIndex + 1))
      BY <2>2, <2>3, <3>2, NextStepAnswers
    <3> QED BY <2>1, <3>1, <3>3 DEF Regraded
  <2>5. CASE ~(IsPass(rating) /\ HasNextStep(c, p))
    <3>1. CASE rating = "again" /\ p.useSteps
      <4>1. FirstContact(c, p, rating)
              = [ToReview(s, 0) EXCEPT !.isLearning = TRUE, !.phase = "relearning", !.due = "minutes"]
        BY <2>5, <3>1 DEF FirstContact, ToReview, Card
      <4>2. ~IsPass(rating)
        BY <3>1 DEF IsPass
      <4> DEFINE e == ToReview(s, 0)
                 d == [e EXCEPT !.isLearning = TRUE, !.phase = "relearning", !.due = "minutes"]
      <4>3. e \in Card
        BY <2>3, StepType
      <4> HIDE DEF e
      <4>4. d \in Card /\ PhaseAgrees(d)
        BY <4>3 DEF Card, PhaseAgrees
      <4> QED BY <2>1, <4>1, <4>2, <4>4 DEF Regraded, e
    <3>2. CASE ~(rating = "again" /\ p.useSteps)
      <4>1. FirstContact(c, p, rating) = ToReview(s, 0)
        BY <2>5, <3>2 DEF FirstContact, ToReview, Card
      <4> HIDE DEF s
      <4>2. Regraded(s, p, n, rating, ToReview(s, 0))
        BY <2>3, ReviewAnswers
      <4> QED BY <2>1, <4>1, <4>2 DEF Regraded
    <3> QED BY <3>1, <3>2
  <2> QED BY <2>4, <2>5
<1>3. CASE c.stable /\ c.repetitions
  <2>1. CASE IsPass(rating)
    BY <1>1, <1>3, <2>1, ReviewAnswers DEF FsrsLite
  <2>2. CASE ~IsPass(rating)
    BY <1>3, <2>2, LapseType DEF FsrsLite, Regraded
  <2> QED BY <2>1, <2>2
<1> QED BY <1>1, <1>2, <1>3

LEMMA LeitnerAnswers ==
    ASSUME NEW c \in Card, NEW p \in Decks, NEW n \in Nat, NEW rating \in Ratings,
           p.key = "leitner-box"
    PROVE  Regraded(c, p, n, rating, Leitner(c, p, rating))
<1> DEFINE delta == CASE rating = "good" -> 1
                      [] rating = "easy" -> 2
                      [] rating = "hard" -> 0
                      [] rating = "again" -> -3
           box == Clamp(c.box + delta, Least(p.minimumBox, TopBox), TopBox)
           d == [c EXCEPT !.box = box, !.stepIndex = box, !.isLearning = box = 0,
                          !.phase = IF box = 0 THEN "learning" ELSE "review",
                          !.repetitions = IsPass(rating),
                          !.due = IF box = 0 THEN "minutes" ELSE "days"]
<1>1. Leitner(c, p, rating) = d
  BY DEF Leitner
<1>2. box \in 0 .. TopBox /\ (IsPass(rating) => box # 0)
  <2>1. c.box \in 0 .. TopBox /\ p.minimumBox \in 0 .. 3 /\ TopBox \in Nat \ {0}
    BY SchedulingAssumption DEF Card, Decks
  <2>2. delta \in -3 .. 2 /\ (IsPass(rating) => delta > 0)
    BY DEF Ratings, IsPass
  <2> HIDE DEF delta
  <2> QED BY <2>1, <2>2 DEF Clamp, Least
<1> HIDE DEF box
<1>3. IsPass(rating) \in BOOLEAN
  BY DEF IsPass
<1>4. d \in Card /\ PhaseAgrees(d)
  <2>1. CASE box = 0
    BY <1>2, <1>3, <2>1 DEF Card, PhaseAgrees
  <2>2. CASE box # 0
    <3>1. d = [c EXCEPT !.box = box, !.stepIndex = box, !.isLearning = FALSE, !.phase = "review",
                        !.repetitions = IsPass(rating), !.due = "days"]
      <4>1. (box = 0) = FALSE
        BY <2>2
      <4> QED BY <4>1, Zenon
    <3>2. box \in Nat
      BY <1>2
    <3> HIDE DEF d
    <3>3. d \in Card
      <4> DEFINE pass == IsPass(rating)
      <4>1. d = [c EXCEPT !.box = box, !.stepIndex = box, !.isLearning = FALSE, !.phase = "review",
                          !.repetitions = pass, !.due = "days"]
        BY <3>1
      <4>2. pass \in BOOLEAN
        BY <1>3
      <4> HIDE DEF pass
      <4> QED BY <1>2, <3>2, <4>1, <4>2 DEF Card
    <3>4. PhaseAgrees(d)
      BY <3>1 DEF PhaseAgrees, Card
    <3> QED BY <3>3, <3>4
  <2> QED BY <2>1, <2>2
<1>5. IsPass(rating) => Graduated(d, p)
  BY <1>2 DEF Graduated, Card
<1> HIDE DEF d
<1> QED BY <1>1, <1>4, <1>5 DEF Regraded, GoesOn

LEMMA LadderAnswers ==
    ASSUME NEW c \in Card, NEW p \in Decks, NEW n \in Nat, GoesOn(c, p, n), PhaseAgrees(c),
           NEW rating \in Ratings, p.key = "fixed-ladder"
    PROVE  Regraded(c, p, n, rating, FixedLadder(c, p, rating))
<1>1. /\ c.stepIndex \in Nat /\ p.steps \in Nat /\ p.useSteps \in BOOLEAN
      /\ TopRung \in Nat
  BY SchedulingAssumption DEF Card, Decks
<1>2. CASE p.useSteps /\ c.isLearning /\ ~c.repetitions
  <2>1. n <= c.stepIndex
    BY <1>1, <1>2 DEF GoesOn, Graduated, AtStep
  <2>2. CASE rating \in {"again", "hard"}
    <3>1. FixedLadder(c, p, rating) = ToStep(c, IF rating = "again" THEN 0 ELSE c.stepIndex)
      BY <1>2, <2>2 DEF FixedLadder
    <3>2. ~IsPass(rating)
      BY <2>2 DEF IsPass
    <3> QED BY <1>1, <3>1, <3>2, SameStepAnswers
  <2>3. CASE rating = "easy"
    <3>1. FixedLadder(c, p, rating) = ToReview(c, Least(2, TopRung))
      BY <1>2, <2>3 DEF FixedLadder
    <3>2. Least(2, TopRung) \in Nat
      BY <1>1 DEF Least
    <3> QED BY <3>1, <3>2, ReviewAnswers
  <2>4. CASE rating = "good"
    <3>1. FixedLadder(c, p, rating) = IF HasNextStep(c, p) THEN ToStep(c, c.stepIndex + 1)
                                      ELSE ToReview(c, 0)
      BY <1>2, <2>4 DEF FixedLadder
    <3> QED BY <2>1, <3>1, NextStepAnswers, ReviewAnswers
  <2> QED BY <2>2, <2>3, <2>4 DEF Ratings
<1>3. CASE ~(p.useSteps /\ c.isLearning /\ ~c.repetitions)
  <2> DEFINE climb == CASE rating = "good" -> 1
                        [] rating = "easy" -> 2
                        [] rating = "hard" -> 0
                        [] rating = "again" -> -3
             rung == Clamp(Clamp(c.stepIndex, 0, TopRung) + climb, 0, TopRung)
             d == [ToReview(c, rung) EXCEPT !.repetitions = IsPass(rating)]
  <2>1. FixedLadder(c, p, rating) = d
    BY <1>3 DEF FixedLadder
  <2>2. rung \in Nat
    <3>1. climb \in -3 .. 2
      BY DEF Ratings
    <3> HIDE DEF climb
    <3> QED BY <1>1, <3>1 DEF Clamp
  <2> HIDE DEF rung
  <2>3. IsPass(rating) \in BOOLEAN
    BY DEF IsPass
  <2>4. d \in Card /\ PhaseAgrees(d) /\ (IsPass(rating) => Graduated(d, p))
    BY <2>2, <2>3 DEF ToReview, Card, PhaseAgrees, Graduated
  <2> HIDE DEF d
  <2> QED BY <2>1, <2>4 DEF Regraded, GoesOn
<1> QED BY <1>2, <1>3

SchedulingInv == SchedulingTypeOK /\ PhaseAgrees(card) /\ GoesOn(card, deck, streak)

LEMMA SchedulingStarts == SchedulingInit => SchedulingInv
BY SchedulingAssumption
   DEF SchedulingInit, SchedulingInv, SchedulingTypeOK, Card, Fresh, PhaseAgrees, GoesOn

LEMMA SchedulingStep == SchedulingInv /\ [SchedulingNext]_schedulingVars => SchedulingInv'
<1> SUFFICES ASSUME SchedulingInv, [SchedulingNext]_schedulingVars PROVE SchedulingInv'
  OBVIOUS
<1>1. ASSUME NEW rating \in Ratings, GradeCard(rating) PROVE SchedulingInv'
  <2>1. /\ card \in Card /\ deck \in Decks /\ streak \in 0 .. MaxSteps
        /\ PhaseAgrees(card) /\ GoesOn(card, deck, streak)
    BY DEF SchedulingInv, SchedulingTypeOK
  <2>2. PICK c \in Card, p \in Decks, n \in Nat : c = card /\ p = deck /\ n = streak
    BY <2>1, SchedulingAssumption
  <2>3. Regraded(c, p, n, rating, Review(c, p, rating))
    <3>1. GoesOn(c, p, n) /\ PhaseAgrees(c) /\ p.key \in Schedulers
      BY <2>1, <2>2 DEF Decks
    <3>2. CASE p.key = "sm2"
      BY <3>1, <3>2, Sm2Answers DEF Review
    <3>3. CASE p.key = "fsrs-lite"
      BY <3>1, <3>3, FsrsAnswers DEF Review
    <3>4. CASE p.key = "leitner-box"
      BY <3>1, <3>4, LeitnerAnswers DEF Review
    <3>5. CASE p.key = "fixed-ladder"
      BY <3>1, <3>5, LadderAnswers DEF Review
    <3> QED BY <3>1, <3>2, <3>3, <3>4, <3>5 DEF Schedulers
  <2>4. /\ card' = Review(c, p, rating) /\ deck' = p
        /\ streak' = IF IsPass(rating) THEN Least(n + 1, MaxSteps) ELSE 0
    BY <1>1, <2>2 DEF GradeCard
  <2>5. /\ streak' \in 0 .. MaxSteps /\ streak' \in Nat /\ streak' <= n + 1
        /\ ~IsPass(rating) => streak' = 0
    BY <2>4, SchedulingAssumption DEF Least
  <2>6. card' \in Card /\ PhaseAgrees(card') /\ GoesOn(card', deck', streak')
    <3>1. CASE IsPass(rating)
      BY <2>3, <2>4, <2>5, <3>1 DEF Regraded
    <3>2. CASE ~IsPass(rating)
      BY <2>3, <2>4, <2>5, <3>2 DEF Regraded, GoesOn
    <3> QED BY <3>1, <3>2
  <2> QED BY <2>4, <2>5, <2>6 DEF SchedulingInv, SchedulingTypeOK
<1>2. ASSUME NEW p \in Decks, UpdateDeck(p) PROVE SchedulingInv'
  BY <1>2, SchedulingAssumption
     DEF UpdateDeck, SchedulingInv, SchedulingTypeOK, PhaseAgrees, GoesOn
<1>3. CASE UNCHANGED schedulingVars
  BY <1>3 DEF schedulingVars, SchedulingInv, SchedulingTypeOK, PhaseAgrees, GoesOn, Graduated, AtStep
<1> QED BY <1>1, <1>2, <1>3 DEF SchedulingNext

\* Scheduling: as many passing answers in a row as a deck has steps put a card
\* into review and further ones keep it there, whatever schedulers it has been
\* through, and phase and flag agree.
THEOREM StreaksGraduate == SchedulingSpec => []PassesGraduate
<1>1. ASSUME SchedulingInv PROVE PassesGraduate
  <2>1. streak \in Nat /\ Enough(deck) \in Nat /\ Enough(deck) > 0
    BY <1>1, SchedulingAssumption DEF SchedulingInv, SchedulingTypeOK, Enough, Decks
  <2>2. ASSUME streak >= Enough(deck)
        PROVE  ~card.isLearning /\ card.phase = "review" /\ card.due = "days"
    <3>1. ~AtStep(card, deck, streak)
      <4>1. deck.steps \in Nat /\ card.stepIndex \in Nat
        BY <1>1, SchedulingAssumption DEF SchedulingInv, SchedulingTypeOK, Decks, Card
      <4> QED BY <2>1, <2>2, <4>1 DEF AtStep, Enough
    <3> QED BY <1>1, <2>1, <2>2, <3>1 DEF SchedulingInv, GoesOn, Graduated
  <2> QED BY <1>1, <2>2 DEF SchedulingInv, PhaseAgrees, PassesGraduate
<1> QED BY <1>1, SchedulingStarts, SchedulingStep, PTL DEF SchedulingSpec

--------------------------------------------------------------------------------
(***************************************************************************)
(* First uses                                                              *)
(***************************************************************************)
FirstUseRequest == [at : {"idle", "insert", "reread", "seed"}, who : Identities, row : 0 .. SeedRows]

AccountRow == [id : 0 .. MaxAccounts, role : {"none", "learner", "editor"}]

\* An account that is there has an id and a role, and only then is it reread or
\* handed out.
AccountsAgree ==
    /\ \A i \in Identities :
          /\ account[i].id = 0 <=> account[i].role = "none"
          /\ resolved[i] \subseteq {account[i].id}
          /\ i \in touched => account[i].role = "editor"
    /\ \A q \in Requests : request[q].at = "reread" => account[request[q].who].id # 0

\* A seeding has inserted all rows before the one it is at; and where there are
\* rows, they are all there, or a seeding is under way or was stopped.
SeedsAgree ==
    /\ \A n \in 1 .. SeedRows : n \in touched => seeds[n] = "studied"
    /\ \A q \in Requests : request[q].at = "seed" =>
          /\ request[q].row \in 1 .. SeedRows
          /\ \A n \in 1 .. SeedRows : n < request[q].row => seeds[n] # "absent"
    /\ \/ interrupted
       \/ \E q \in Requests : request[q].at = "seed"
       \/ \A n \in 1 .. SeedRows : seeds[n] = "absent"
       \/ \A n \in 1 .. SeedRows : seeds[n] # "absent"

FirstUseInv == FirstUseTypeOK /\ AccountsAgree /\ SeedsAgree

LEMMA FirstUseTypes ==
    ASSUME FirstUseTypeOK
    PROVE  /\ account \in [Identities -> AccountRow]
           /\ request \in [Requests -> FirstUseRequest]
           /\ seeds \in [1 .. SeedRows -> {"absent", "seeded", "studied"}]
           /\ resolved \in [Identities -> SUBSET (1 .. MaxAccounts)]
           /\ drawn \in Nat /\ MaxAccounts \in Nat /\ SeedRows \in Nat /\ 1 \in 1 .. SeedRows
BY FirstUseAssumption DEF FirstUseTypeOK, AccountRow, FirstUseRequest

LEMMA IdleRequest ==
    ASSUME NEW at \in {"insert", "seed"}, NEW i \in Identities
    PROVE  /\ Idle \in FirstUseRequest /\ Idle.at = "idle"
           /\ [Idle EXCEPT !.at = at, !.who = i] = [at |-> at, who |-> i, row |-> 0]
           /\ [Idle EXCEPT !.at = at, !.row = 1] \in FirstUseRequest
           /\ [Idle EXCEPT !.at = at, !.row = 1].at = at
           /\ [Idle EXCEPT !.at = at, !.row = 1].row = 1
<1>1. SeedRows \in Nat /\ 1 \in 0 .. SeedRows /\ 0 \in 0 .. SeedRows
  BY FirstUseAssumption
<1> DEFINE who == CHOOSE j \in Identities : TRUE
<1>2. who \in Identities
  BY FirstUseAssumption
<1>3. Idle = [at |-> "idle", who |-> who, row |-> 0]
  BY DEF Idle
<1> HIDE DEF who
<1>4. Idle \in FirstUseRequest /\ Idle.at = "idle"
  BY <1>1, <1>2, <1>3 DEF FirstUseRequest
<1> DEFINE idle == [at |-> "idle", who |-> who, row |-> 0]
<1>5. [Idle EXCEPT !.at = at, !.who = i] = [at |-> at, who |-> i, row |-> 0]
  <2>1. PICK r : r = [idle EXCEPT !.at = at, !.who = i]
    OBVIOUS
  <2>2. r.at = at /\ r.who = i /\ r.row = 0
    BY <2>1
  <2>3. r = [at |-> r.at, who |-> r.who, row |-> r.row]
    BY <2>1
  <2> QED BY <1>3, <2>1, <2>2, <2>3
<1>6. [Idle EXCEPT !.at = at, !.row = 1] = [at |-> at, who |-> who, row |-> 1]
  <2>1. PICK r : r = [idle EXCEPT !.at = at, !.row = 1]
    OBVIOUS
  <2>2. r.at = at /\ r.who = who /\ r.row = 1
    BY <2>1
  <2>3. r = [at |-> r.at, who |-> r.who, row |-> r.row]
    BY <2>1
  <2> QED BY <1>3, <2>1, <2>2, <2>3
<1>7. [Idle EXCEPT !.at = at, !.row = 1] \in FirstUseRequest
  <2>1. [at |-> at, who |-> who, row |-> 1] \in FirstUseRequest
    BY <1>1, <1>2 DEF FirstUseRequest
  <2> QED BY <1>6, <2>1
<1>8. [Idle EXCEPT !.at = at, !.row = 1].at = at /\ [Idle EXCEPT !.at = at, !.row = 1].row = 1
  BY <1>6
<1> QED BY <1>4, <1>5, <1>7, <1>8

LEMMA FirstUseStarts == FirstUseInit => FirstUseInv
<1> SUFFICES ASSUME FirstUseInit PROVE FirstUseInv
  OBVIOUS
<1>1. Idle \in FirstUseRequest /\ Idle.at = "idle"
  BY FirstUseAssumption DEF Idle, FirstUseRequest
<1> HIDE DEF Idle
<1>2. NoAccount \in AccountRow /\ NoAccount.id = 0 /\ NoAccount.role = "none"
  BY FirstUseAssumption DEF NoAccount, AccountRow
<1>3. account \in [Identities -> AccountRow] /\ request \in [Requests -> FirstUseRequest]
  BY <1>1, <1>2 DEF FirstUseInit
<1>4. FirstUseTypeOK
  <2>1. drawn \in 0 .. MaxAccounts
    BY FirstUseAssumption DEF FirstUseInit
  <2>2. /\ seeds \in [1 .. SeedRows -> {"absent", "seeded", "studied"}]
        /\ interrupted \in BOOLEAN /\ touched = {}
    BY DEF FirstUseInit
  <2>3. resolved \in [Identities -> SUBSET (1 .. MaxAccounts)]
    BY DEF FirstUseInit
  <2> QED BY <1>3, <2>1, <2>2, <2>3 DEF FirstUseTypeOK, FirstUseRequest, AccountRow
<1>5. AccountsAgree /\ SeedsAgree
  BY <1>1, <1>2 DEF FirstUseInit, AccountsAgree, SeedsAgree
<1> QED BY <1>4, <1>5 DEF FirstUseInv

\* An identity is given the id of its account.
LEMMA ResolveKeeps ==
    ASSUME FirstUseTypeOK, NEW i \in Identities, NEW id \in 1 .. MaxAccounts, Resolve(i, id)
    PROVE  /\ resolved' \in [Identities -> SUBSET (1 .. MaxAccounts)]
           /\ resolved'[i] = resolved[i] \cup {id}
           /\ \A j \in Identities \ {i} : resolved'[j] = resolved[j]
BY FirstUseTypes DEF Resolve

LEMMA FindUserKeeps ==
    ASSUME FirstUseInv, NEW q \in Requests, NEW i \in Identities, FindUser(q, i)
    PROVE  FirstUseInv'
<1>1. FirstUseTypeOK /\ AccountsAgree /\ SeedsAgree
  BY DEF FirstUseInv
<1>2. UNCHANGED <<account, drawn, seeds, touched, interrupted>> /\ request[q].at = "idle"
  BY DEF FindUser
<1>3. CASE account[i].id # 0
  <2>1. request' = request /\ Resolve(i, account[i].id)
    BY <1>3 DEF FindUser
  <2>2. PICK id \in 1 .. MaxAccounts : id = account[i].id
    BY <1>1, <1>3, FirstUseTypes DEF AccountRow
  <2>3. /\ resolved' \in [Identities -> SUBSET (1 .. MaxAccounts)]
        /\ resolved'[i] = resolved[i] \cup {id}
        /\ \A j \in Identities \ {i} : resolved'[j] = resolved[j]
    BY <1>1, <2>1, <2>2, ResolveKeeps
  <2> QED BY <1>1, <1>2, <2>1, <2>2, <2>3 DEF FirstUseInv, FirstUseTypeOK, AccountsAgree, SeedsAgree
<1>4. CASE ~(account[i].id # 0)
  <2> DEFINE r == [at |-> "insert", who |-> i, row |-> 0]
  <2>1. request' = [request EXCEPT ![q] = r] /\ resolved' = resolved
    BY <1>4, IdleRequest DEF FindUser
  <2>2. r \in FirstUseRequest
    BY <1>1, FirstUseTypes DEF FirstUseRequest
  <2>3. /\ request' \in [Requests -> FirstUseRequest] /\ request'[q] = r
        /\ \A o \in Requests \ {q} : request'[o] = request[o]
    BY <1>1, <2>1, <2>2, FirstUseTypes
  <2>4. FirstUseTypeOK'
    BY <1>1, <1>2, <2>1, <2>3 DEF FirstUseTypeOK, FirstUseRequest
  <2>5. AccountsAgree' /\ SeedsAgree'
    BY <1>1, <1>2, <2>1, <2>3 DEF AccountsAgree, SeedsAgree
  <2> QED BY <2>4, <2>5 DEF FirstUseInv
<1> QED BY <1>3, <1>4

\* Steps that move the request q and leave the tables as they are.
LEMMA RequestMoves ==
    ASSUME FirstUseInv, NEW q \in Requests, NEW r \in FirstUseRequest,
           request' = [request EXCEPT ![q] = r], r.at # "seed",
           r.at = "reread" => account[r.who].id # 0,
           UNCHANGED <<account, drawn, seeds, resolved, touched>>,
           interrupted' \in BOOLEAN, interrupted => interrupted',
           request[q].at = "seed" => interrupted'
    PROVE  FirstUseInv'
<1>1. FirstUseTypeOK /\ AccountsAgree /\ SeedsAgree
  BY DEF FirstUseInv
<1>2. /\ request' \in [Requests -> FirstUseRequest] /\ request'[q] = r
      /\ \A o \in Requests \ {q} : request'[o] = request[o]
  BY <1>1, FirstUseTypes
<1>3. FirstUseTypeOK'
  BY <1>1, <1>2 DEF FirstUseTypeOK, FirstUseRequest
<1>4. AccountsAgree'
  BY <1>1, <1>2 DEF AccountsAgree
<1>5. SeedsAgree'
  BY <1>1, <1>2 DEF SeedsAgree
<1> QED BY <1>3, <1>4, <1>5 DEF FirstUseInv

\* The first insert gives the identity its id, a later one nothing.
LEMMA InsertUserKeeps ==
    ASSUME FirstUseInv, NEW q \in Requests, InsertUser(q)
    PROVE  FirstUseInv'
<1>1. FirstUseTypeOK /\ AccountsAgree /\ SeedsAgree
  BY DEF FirstUseInv
<1>2. request[q] \in FirstUseRequest /\ request[q].at = "insert" /\ drawn \in Nat /\ MaxAccounts \in Nat
  BY <1>1, FirstUseTypes DEF InsertUser
<1>3. PICK i \in Identities : i = request[q].who
  BY <1>2 DEF FirstUseRequest
<1>4. /\ drawn < MaxAccounts /\ drawn' = drawn + 1
      /\ UNCHANGED <<seeds, touched, interrupted>>
  BY DEF InsertUser
<1>5. PICK id \in 1 .. MaxAccounts : id = drawn + 1
  BY <1>2, <1>4
<1>6. drawn' \in 0 .. MaxAccounts
  BY <1>2, <1>4
<1>7. CASE account[i].id = 0
  <2> DEFINE row == [id |-> id, role |-> "learner"]
  <2>1. /\ account' = [account EXCEPT ![i] = row]
        /\ Resolve(i, id)
        /\ request' = [request EXCEPT ![q] = Idle]
    BY <1>3, <1>5, <1>7 DEF InsertUser
  <2>2. /\ account' \in [Identities -> AccountRow]
        /\ account'[i].id = id /\ account'[i].role = "learner"
        /\ \A j \in Identities \ {i} : account'[j] = account[j]
    <3>1. row \in AccountRow
      BY DEF AccountRow
    <3> QED BY <1>1, <2>1, <3>1, FirstUseTypes
  <2>3. /\ resolved' \in [Identities -> SUBSET (1 .. MaxAccounts)]
        /\ resolved'[i] = resolved[i] \cup {id}
        /\ \A j \in Identities \ {i} : resolved'[j] = resolved[j]
    BY <1>1, <2>1, ResolveKeeps
  <2>4. resolved[i] = {} /\ i \notin touched
    <3>1. account[i].role = "none" /\ resolved[i] \subseteq {0}
      BY <1>1, <1>7 DEF AccountsAgree
    <3>2. resolved[i] \subseteq 1 .. MaxAccounts
      BY <1>1, FirstUseTypes
    <3> QED BY <1>1, <3>1, <3>2 DEF AccountsAgree
  <2>5. /\ request' \in [Requests -> FirstUseRequest] /\ request'[q].at = "idle"
        /\ \A o \in Requests \ {q} : request'[o] = request[o]
    <3>1. Idle \in FirstUseRequest /\ Idle.at = "idle"
      BY IdleRequest
    <3> HIDE DEF Idle
    <3> QED BY <1>1, <2>1, <3>1, FirstUseTypes
  <2>6. FirstUseTypeOK'
    BY <1>1, <1>4, <1>6, <2>2, <2>3, <2>5 DEF FirstUseTypeOK, FirstUseRequest, AccountRow
  <2>7. AccountsAgree'
    <3>1. \A j \in Identities : /\ account'[j].id = 0 <=> account'[j].role = "none"
                                /\ resolved'[j] \subseteq {account'[j].id}
                                /\ j \in touched' => account'[j].role = "editor"
      BY <1>1, <1>4, <2>2, <2>3, <2>4 DEF AccountsAgree
    <3>2. \A o \in Requests : request'[o].at = "reread" => account'[request'[o].who].id # 0
      <4>1. \A o \in Requests : request'[o].who \in Identities
        BY <2>5 DEF FirstUseRequest
      <4> QED BY <1>1, <2>2, <2>5, <4>1 DEF AccountsAgree
    <3> QED BY <3>1, <3>2 DEF AccountsAgree
  <2>8. SeedsAgree'
    BY <1>1, <1>2, <1>4, <2>5 DEF SeedsAgree
  <2> QED BY <2>6, <2>7, <2>8 DEF FirstUseInv
<1>8. CASE account[i].id # 0
  <2> DEFINE r == [request[q] EXCEPT !.at = "reread"]
  <2>1. /\ request' = [request EXCEPT ![q] = r]
        /\ UNCHANGED <<account, resolved>>
    BY <1>3, <1>8 DEF InsertUser
  <2>2. r \in FirstUseRequest /\ r.at = "reread" /\ r.who = i
    BY <1>2, <1>3 DEF FirstUseRequest
  <2>3. /\ request' \in [Requests -> FirstUseRequest] /\ request'[q] = r
        /\ \A o \in Requests \ {q} : request'[o] = request[o]
    <3> HIDE DEF r
    <3> QED BY <1>1, <2>1, <2>2, FirstUseTypes
  <2> HIDE DEF r
  <2>4. FirstUseTypeOK'
    BY <1>1, <1>4, <1>6, <2>1, <2>3 DEF FirstUseTypeOK, FirstUseRequest
  <2>5. AccountsAgree' /\ SeedsAgree'
    BY <1>1, <1>2, <1>4, <1>8, <2>1, <2>2, <2>3 DEF AccountsAgree, SeedsAgree
  <2> QED BY <2>4, <2>5 DEF FirstUseInv
<1> QED BY <1>7, <1>8

LEMMA RereadKeeps ==
    ASSUME FirstUseInv, NEW q \in Requests, Reread(q)
    PROVE  FirstUseInv'
<1>1. FirstUseTypeOK /\ AccountsAgree /\ SeedsAgree
  BY DEF FirstUseInv
<1>2. request[q] \in FirstUseRequest /\ request[q].at = "reread"
  BY <1>1, FirstUseTypes DEF Reread
<1>3. PICK i \in Identities : i = request[q].who
  BY <1>2 DEF FirstUseRequest
<1>4. PICK id \in 1 .. MaxAccounts : id = account[i].id
  BY <1>1, <1>2, <1>3, FirstUseTypes DEF AccountsAgree, AccountRow
<1>5. /\ UNCHANGED <<account, drawn, seeds, touched, interrupted>>
      /\ Resolve(i, id) /\ request' = [request EXCEPT ![q] = Idle]
  BY <1>3, <1>4 DEF Reread
<1>6. /\ resolved' \in [Identities -> SUBSET (1 .. MaxAccounts)]
      /\ resolved'[i] = resolved[i] \cup {id}
      /\ \A j \in Identities \ {i} : resolved'[j] = resolved[j]
  BY <1>1, <1>5, ResolveKeeps
<1>7. /\ request' \in [Requests -> FirstUseRequest] /\ request'[q].at = "idle"
      /\ \A o \in Requests \ {q} : request'[o] = request[o]
  <2>1. Idle \in FirstUseRequest /\ Idle.at = "idle"
    BY IdleRequest
  <2> HIDE DEF Idle
  <2> QED BY <1>1, <1>5, <2>1, FirstUseTypes
<1>8. FirstUseTypeOK'
  BY <1>1, <1>5, <1>6, <1>7 DEF FirstUseTypeOK, FirstUseRequest
<1>9. AccountsAgree' /\ SeedsAgree'
  BY <1>1, <1>2, <1>4, <1>5, <1>6, <1>7 DEF AccountsAgree, SeedsAgree
<1> QED BY <1>8, <1>9 DEF FirstUseInv

\* Identities are no seeds: promoting one touches no row.
LEMMA PromoteKeeps ==
    ASSUME FirstUseInv, NEW i \in Identities, Promote(i)
    PROVE  FirstUseInv'
<1>1. FirstUseTypeOK /\ AccountsAgree /\ SeedsAgree
  BY DEF FirstUseInv
<1>2. /\ UNCHANGED <<drawn, seeds, request, resolved, interrupted>>
      /\ touched' = touched \cup {i} /\ account[i].role = "learner"
      /\ i \notin 1 .. SeedRows
  BY FirstUseAssumption DEF Promote
<1>3. /\ account' \in [Identities -> AccountRow]
      /\ account'[i].id = account[i].id /\ account'[i].role = "editor"
      /\ \A j \in Identities \ {i} : account'[j] = account[j]
  <2> DEFINE row == [account[i] EXCEPT !.role = "editor"]
  <2>1. account' = [account EXCEPT ![i] = row]
    BY DEF Promote
  <2>2. row \in AccountRow /\ row.id = account[i].id /\ row.role = "editor"
    BY <1>1, FirstUseTypes DEF AccountRow
  <2> HIDE DEF row
  <2> QED BY <1>1, <2>1, <2>2, FirstUseTypes
<1>4. FirstUseTypeOK'
  BY <1>1, <1>2, <1>3 DEF FirstUseTypeOK, AccountRow
<1>5. AccountsAgree'
  <2>1. \A o \in Requests : request[o].who \in Identities
    BY <1>1, FirstUseTypes DEF FirstUseRequest
  <2> QED BY <1>1, <1>2, <1>3, <2>1 DEF AccountsAgree
<1>6. SeedsAgree'
  BY <1>1, <1>2 DEF SeedsAgree
<1> QED BY <1>4, <1>5, <1>6 DEF FirstUseInv

LEMMA CountRowsKeeps ==
    ASSUME FirstUseInv, NEW q \in Requests, CountRows(q)
    PROVE  FirstUseInv'
<1>1. FirstUseTypeOK /\ AccountsAgree /\ SeedsAgree
  BY DEF FirstUseInv
<1> DEFINE r == [Idle EXCEPT !.at = "seed", !.row = 1]
<1>2. r \in FirstUseRequest /\ r.at = "seed" /\ r.row = 1 /\ 1 \in 1 .. SeedRows
  BY <1>1, FirstUseTypes, FirstUseAssumption, IdleRequest
<1>3. /\ request' = [request EXCEPT ![q] = r]
      /\ UNCHANGED <<account, drawn, seeds, resolved, touched, interrupted>>
  BY DEF CountRows
<1> HIDE DEF r
<1>4. /\ request' \in [Requests -> FirstUseRequest] /\ request'[q] = r
      /\ \A o \in Requests \ {q} : request'[o] = request[o]
  BY <1>1, <1>2, <1>3, FirstUseTypes
<1>5. FirstUseTypeOK' /\ AccountsAgree'
  BY <1>1, <1>2, <1>3, <1>4 DEF FirstUseTypeOK, FirstUseRequest, AccountsAgree
<1>6. SeedsAgree'
  BY <1>1, <1>2, <1>3, <1>4 DEF SeedsAgree
<1> QED BY <1>5, <1>6 DEF FirstUseInv

LEMMA InsertSeedKeeps ==
    ASSUME FirstUseInv, NEW q \in Requests, InsertSeed(q)
    PROVE  FirstUseInv'
<1>1. FirstUseTypeOK /\ AccountsAgree /\ SeedsAgree
  BY DEF FirstUseInv
<1>2. /\ request[q] \in FirstUseRequest /\ request[q].at = "seed"
      /\ request[q].row \in 1 .. SeedRows /\ SeedRows \in Nat
      /\ UNCHANGED <<account, drawn, resolved, touched, interrupted>>
  BY <1>1, FirstUseTypes DEF InsertSeed, SeedsAgree
<1>3. PICK n \in 1 .. SeedRows : n = request[q].row
  BY <1>2
<1> DEFINE value == IF seeds[n] = "absent" THEN "seeded" ELSE seeds[n]
           r == IF n = SeedRows THEN Idle ELSE [request[q] EXCEPT !.row = n + 1]
<1>4. seeds' = [seeds EXCEPT ![n] = value] /\ request' = [request EXCEPT ![q] = r]
  BY <1>3 DEF InsertSeed
<1>5. value \in {"absent", "seeded", "studied"} /\ value # "absent"
      /\ (seeds[n] # "absent" => value = seeds[n])
  BY <1>1, FirstUseTypes
<1>6. /\ r \in FirstUseRequest
      /\ n = SeedRows => r.at = "idle"
      /\ n # SeedRows => r.at = "seed" /\ r.row = n + 1 /\ n + 1 \in 1 .. SeedRows
  <2>1. CASE n = SeedRows
    <3>1. Idle \in FirstUseRequest /\ Idle.at = "idle"
      BY FirstUseAssumption, IdleRequest
    <3> HIDE DEF Idle
    <3> QED BY <2>1, <3>1
  <2>2. CASE n # SeedRows
    BY <1>2, <2>2 DEF FirstUseRequest
  <2> QED BY <2>1, <2>2
<1> HIDE DEF value, r
<1>7. /\ seeds' \in [1 .. SeedRows -> {"absent", "seeded", "studied"}]
      /\ seeds'[n] = value /\ \A m \in (1 .. SeedRows) \ {n} : seeds'[m] = seeds[m]
      /\ request' \in [Requests -> FirstUseRequest] /\ request'[q] = r
      /\ \A o \in Requests \ {q} : request'[o] = request[o]
  BY <1>1, <1>4, <1>5, <1>6, FirstUseTypes
<1>8. FirstUseTypeOK' /\ AccountsAgree'
  BY <1>1, <1>2, <1>6, <1>7 DEF FirstUseTypeOK, FirstUseRequest, AccountsAgree
<1>9. \A m \in 1 .. SeedRows : m <= n => seeds'[m] # "absent"
  BY <1>1, <1>2, <1>3, <1>5, <1>7 DEF SeedsAgree
<1>10. \A m \in 1 .. SeedRows : seeds[m] # "absent" => seeds'[m] = seeds[m]
  BY <1>5, <1>7
<1>11. \A m \in 1 .. SeedRows : m \in touched' => seeds'[m] = "studied"
  BY <1>1, <1>2, <1>10 DEF SeedsAgree
<1>12. \A o \in Requests : request'[o].at = "seed" =>
          /\ request'[o].row \in 1 .. SeedRows
          /\ \A m \in 1 .. SeedRows : m < request'[o].row => seeds'[m] # "absent"
  <2>1. ASSUME NEW o \in Requests \ {q}, request[o].at = "seed"
        PROVE  /\ request[o].row \in 1 .. SeedRows
               /\ \A m \in 1 .. SeedRows : m < request[o].row => seeds'[m] # "absent"
    BY <1>1, <1>10, <2>1 DEF SeedsAgree
  <2>2. ASSUME r.at = "seed"
        PROVE  r.row \in 1 .. SeedRows /\ \A m \in 1 .. SeedRows : m < r.row => seeds'[m] # "absent"
    BY <1>2, <1>6, <1>9, <2>2
  <2> QED BY <1>7, <2>1, <2>2
<1>13. request'[q].at = "seed" \/ \A m \in 1 .. SeedRows : seeds'[m] # "absent"
  BY <1>2, <1>6, <1>7, <1>9
<1> QED BY <1>8, <1>11, <1>12, <1>13 DEF SeedsAgree, FirstUseInv

LEMMA StudySeedKeeps ==
    ASSUME FirstUseInv, NEW n \in 1 .. SeedRows, StudySeed(n)
    PROVE  FirstUseInv'
<1>1. FirstUseTypeOK /\ AccountsAgree /\ SeedsAgree
  BY DEF FirstUseInv
<1>2. /\ UNCHANGED <<account, drawn, request, resolved, interrupted>>
      /\ touched' = touched \cup {n} /\ seeds[n] = "seeded"
      /\ seeds' = [seeds EXCEPT ![n] = "studied"]
      /\ n \notin Identities
  BY FirstUseAssumption DEF StudySeed
<1>3. /\ seeds' \in [1 .. SeedRows -> {"absent", "seeded", "studied"}]
      /\ seeds'[n] = "studied" /\ \A m \in (1 .. SeedRows) \ {n} : seeds'[m] = seeds[m]
  BY <1>1, <1>2, FirstUseTypes
<1>4. FirstUseTypeOK' /\ AccountsAgree'
  BY <1>1, <1>2, <1>3 DEF FirstUseTypeOK, AccountsAgree
<1>5. \A m \in 1 .. SeedRows : seeds'[m] = "absent" <=> seeds[m] = "absent"
  BY <1>2, <1>3
<1>6. SeedsAgree'
  BY <1>1, <1>2, <1>3, <1>5 DEF SeedsAgree
<1> QED BY <1>4, <1>6 DEF FirstUseInv

LEMMA FirstUseStep == FirstUseInv /\ [FirstUseNext]_firstUseVars => FirstUseInv'
<1> SUFFICES ASSUME FirstUseInv, [FirstUseNext]_firstUseVars PROVE FirstUseInv'
  OBVIOUS
<1>1. ASSUME NEW q \in Requests, StopRequest(q) PROVE FirstUseInv'
  <2>1. Idle \in FirstUseRequest /\ Idle.at = "idle"
    BY FirstUseAssumption, IdleRequest
  <2>2. interrupted \in BOOLEAN
    BY DEF FirstUseInv, FirstUseTypeOK
  <2> HIDE DEF Idle
  <2> QED BY <1>1, <2>1, <2>2, RequestMoves DEF StopRequest
<1>2. CASE UNCHANGED firstUseVars
  BY <1>2 DEF firstUseVars, FirstUseInv, FirstUseTypeOK, AccountsAgree, SeedsAgree
<1> QED BY <1>1, <1>2, FindUserKeeps, InsertUserKeeps, RereadKeeps, PromoteKeeps, CountRowsKeeps,
           InsertSeedKeeps, StudySeedKeeps DEF FirstUseNext

\* FirstUse: requests of an identity that overlap are given one user, no later
\* sign-in or seeding takes back what was changed since, and a seeding that was
\* not stopped leaves all rows or none.
THEOREM FirstUsesAgree == FirstUseSpec => []FirstUseHolds
<1>1. ASSUME FirstUseInv PROVE FirstUseHolds
  BY <1>1 DEF FirstUseInv, AccountsAgree, SeedsAgree, FirstUseHolds
<1> QED BY <1>1, FirstUseStarts, FirstUseStep, PTL DEF FirstUseSpec

--------------------------------------------------------------------------------
(***************************************************************************)
(* The page of a session                                                   *)
(***************************************************************************)
StudySession ==
    [log : Seq(StudyReview), status : SessionStatuses, clock : 0 .. MaxGradings]

StudyScreen ==
    [card : 0 .. QueueSize, revealed : BOOLEAN, summary : BOOLEAN, busy : BOOLEAN]

\* What the stage of a call says by itself.
Staged(c) ==
    /\ c.asks = "answer" => c.purpose = "answer" /\ c.card # 0
    /\ c.asks = "undo" => c.purpose = "undo"
    /\ c.stage \in {"found", "stamped", "written"} => c.asks \in {"answer", "undo"}
    /\ c.stage = "stamped" => c.asks = "answer" /\ c.review # 0

Deciding == {c \in calls : c.mine /\ c.purpose \in {"answer", "undo"}}

\* One answer or undo at a time, and busy says that there is one.
OneDecides ==
    /\ screen.busy <=> Deciding # {}
    /\ \A c, d \in Deciding : c = d

\* The reviews of s are those of the first cards, by instants that are past.
Sorted(s) ==
    /\ \A i \in DOMAIN s.log : s.log[i].card = i /\ s.log[i].id <= s.clock
    /\ \A i, j \in DOMAIN s.log : i < j => s.log[i].id < s.log[j].id

\* What an answer or an undo has read of s still holds.
Agrees(c, s) ==
    /\ c.asks = "answer" /\ c.stage \in {"found", "stamped"} => c.card = Len(s.log) + 1
    /\ c.stage = "stamped" =>
          c.review <= s.clock /\ \A i \in DOMAIN s.log : s.log[i].id < c.review
    /\ c.asks = "undo" /\ c.stage = "found" =>
          s.log # <<>> /\ c.review = s.log[Len(s.log)].id

\* As long as none is left behind, answers and undos are the page's, one at a
\* time, and the log is in order.
InOrder ==
    "orphan" \notin doubt =>
        /\ \A c \in calls : c.asks \in {"answer", "undo"} => c.mine
        /\ Sorted(session)
        /\ \A c \in calls : Agrees(c, session)

\* The screen v shows no summary it should not, but for a kept one.
Plain(v, causes) == "kept" \notin causes => ~v.summary

Shows(s, v, causes) ==
    /\ v.card = CurrentCard(s)
    /\ "kept" \notin causes => (v.summary <=> CurrentCard(s) = 0)

\* What the page shows while it waits for c, and what c can bring.
Fits(c, s, v, causes) ==
    /\ c.asks = "load" =>
          /\ Plain(v, causes)
          /\ c.stage = "opened" => c.row = s.status
          /\ c.stage = "replied" => c.reply = CurrentCard(s)
    /\ c.asks = "answer" =>
          /\ c.stage \in {"sent", "opened"} => Shows(s, v, causes) /\ c.card = v.card
          /\ c.stage \notin {"sent", "opened"} => Plain(v, causes)
          /\ c.stage \in {"found", "stamped"} => s.status = "active" /\ c.card = Len(s.log) + 1
          /\ c.stage = "written" => Len(s.log) = QueueSize
          /\ c.stage = "replied" => c.reply = CurrentCard(s)
    /\ c.asks = "summary" =>
          /\ CurrentCard(s) = 0
          /\ c.purpose # "answer" => v.card = 0
          /\ c.stage = "replied" => c.reply = 0
    /\ c.asks = "undo" /\ c.stage = "replied" => c.reply = 0

\* As long as requests neither overlap nor get lost there is at most one, of
\* the page, and the page follows the session.
Calm(causes) == "overlap" \notin causes /\ "loss" \notin causes

Follows ==
    Calm(doubt) =>
        /\ \A c, d \in calls : c = d
        /\ \A c \in calls : c.mine /\ open /\ Fits(c, session, screen, doubt)
        /\ (open /\ calls = {}) => Shows(session, screen, doubt)

Refills(c) == c.mine /\ c.asks \in {"load", "summary", "undo"}

\* A page that is blank waits for something to show.
NeverBlank ==
    "loss" \notin doubt =>
        /\ \A c \in calls : Refills(c) /\ c.stage = "replied" => c.reply # Refused
        /\ (open /\ screen.card = 0 /\ ~screen.summary) => \E c \in calls : Refills(c)

StudyInv ==
    /\ StudyTypeOK
    /\ \A c \in calls : Staged(c) /\ (c.mine => open)
    /\ OneDecides
    /\ InOrder
    /\ Follows
    /\ NeverBlank

--------------------------------------------------------------------------------
(* The types, and what the operators on the log and on the calls yield. *)

LEMMA StudyTypes ==
    ASSUME StudyTypeOK
    PROVE  /\ session \in StudySession /\ session.log \in Seq(StudyReview)
           /\ session.status \in SessionStatuses /\ session.clock \in 0 .. MaxGradings
           /\ screen \in StudyScreen /\ screen.card \in 0 .. QueueSize /\ screen.busy \in BOOLEAN
           /\ screen.summary \in BOOLEAN
           /\ calls \subseteq StudyCall /\ open \in BOOLEAN /\ doubt \subseteq Doubts
           /\ QueueSize \in Nat /\ QueueSize > 0 /\ MaxGradings \in Nat
           /\ BlankScreen \in StudyScreen
<1>1. QueueSize \in Nat /\ QueueSize > 0 /\ MaxGradings \in Nat
  BY StudyAssumption
<1>2. BlankScreen \in StudyScreen
  BY <1>1 DEF BlankScreen, StudyScreen
<1> QED BY <1>1, <1>2 DEF StudyTypeOK, StudyScreen, StudySession

LEMMA CardOfSession ==
    ASSUME NEW s \in StudySession
    PROVE  /\ CurrentCard(s) \in 0 .. QueueSize
           /\ CurrentCard(s) # 0 => s.status = "active" /\ CurrentCard(s) = Len(s.log) + 1
           /\ s.status # "active" => CurrentCard(s) = 0
<1>1. Len(s.log) \in Nat /\ QueueSize \in Nat
  BY StudyAssumption DEF StudySession
<1> QED BY <1>1 DEF CurrentCard, CardAt

\* A function on 1 to n is a sequence.
LEMMA AsSequence ==
    ASSUME NEW S, NEW n \in Nat, NEW f \in [1 .. n -> S]
    PROVE  f \in Seq(S) /\ Len(f) = n /\ DOMAIN f = 1 .. n
OBVIOUS

LEMMA FiledFacts ==
    ASSUME NEW log \in Seq(StudyReview), NEW r \in StudyReview
    PROVE  /\ Filed(log, r) \in Seq(StudyReview)
           /\ Len(Filed(log, r)) = Len(log) + 1
           /\ (\A i \in DOMAIN log : log[i].id < r.id) =>
                 /\ \A i \in DOMAIN log : Filed(log, r)[i] = log[i]
                 /\ Filed(log, r)[Len(log) + 1] = r
<1> DEFINE n == Len(log) + 1
           f == Filed(log, r)
<1>1. n \in Nat /\ Len(log) \in Nat /\ DOMAIN log = 1 .. Len(log)
      /\ \A i \in 1 .. Len(log) : log[i] \in StudyReview
  OBVIOUS
<1>2. \A i \in 1 .. n : f[i] = IF i <= Len(log) /\ log[i].id < r.id THEN log[i]
                               ELSE IF i > 1 /\ log[i - 1].id > r.id THEN log[i - 1]
                               ELSE r
  BY DEF Filed
<1>3. \A i \in 1 .. n : f[i] \in StudyReview
  BY <1>1, <1>2
<1>4. f \in [1 .. n -> StudyReview]
  BY <1>3 DEF Filed
<1>5. f \in Seq(StudyReview) /\ Len(f) = n
  BY <1>1, <1>4, AsSequence
<1>6. ASSUME \A i \in DOMAIN log : log[i].id < r.id
      PROVE  (\A i \in DOMAIN log : f[i] = log[i]) /\ f[n] = r
  <2>1. \A i \in 1 .. Len(log) : f[i] = log[i]
    BY <1>1, <1>2, <1>6
  <2>2. f[n] = r
    <3>1. n \in 1 .. n /\ ~(n <= Len(log)) /\ (n > 1 => n - 1 \in 1 .. Len(log) /\ n - 1 = Len(log))
      BY <1>1
    <3>2. n > 1 => ~(log[n - 1].id > r.id)
      <4>1. r.id \in Nat /\ \A i \in 1 .. Len(log) : log[i].id \in Nat
        BY <1>1 DEF StudyReview
      <4> QED BY <1>1, <1>6, <3>1, <4>1
    <3> QED BY <1>2, <3>1, <3>2
  <2> QED BY <1>1, <2>1, <2>2
<1> QED BY <1>5, <1>6

LEMMA WithoutFacts ==
    ASSUME NEW log \in Seq(StudyReview), NEW id \in Int
    PROVE  /\ Without(log, id) \in Seq(StudyReview)
           /\ (log # <<>> /\ id = log[Len(log)].id
               /\ \A i, j \in DOMAIN log : i < j => log[i].id < log[j].id) =>
                 /\ Len(Without(log, id)) = Len(log) - 1
                 /\ \A i \in 1 .. Len(log) - 1 : Without(log, id)[i] = log[i]
<1> DEFINE n == Len(log) - 1
           f == [i \in 1 .. n |-> IF log[i].id < id THEN log[i] ELSE log[i + 1]]
<1>1. Len(log) \in Nat /\ DOMAIN log = 1 .. Len(log)
      /\ \A i \in 1 .. Len(log) : log[i] \in StudyReview
  OBVIOUS
<1>2. CASE \A i \in DOMAIN log : log[i].id # id
  <2>1. Without(log, id) = log
    BY <1>2 DEF Without
  <2>2. log # <<>> => Len(log) \in DOMAIN log
    BY <1>1
  <2> QED BY <1>2, <2>1, <2>2
<1>3. CASE ~ \A i \in DOMAIN log : log[i].id # id
  <2>1. Without(log, id) = f
    BY <1>3 DEF Without
  <2>2. n \in Nat
    BY <1>1, <1>3
  <2>3. \A i \in 1 .. n : i \in 1 .. Len(log) /\ i + 1 \in 1 .. Len(log)
    BY <1>1, <2>2
  <2>4. f \in [1 .. n -> StudyReview]
    BY <1>1, <2>3
  <2>5. f \in Seq(StudyReview) /\ Len(f) = n
    BY <2>2, <2>4, AsSequence
  <2>6. ASSUME id = log[Len(log)].id, \A i, j \in DOMAIN log : i < j => log[i].id < log[j].id
        PROVE  \A i \in 1 .. n : f[i] = log[i]
    <3>1. \A i \in 1 .. n : i < Len(log) /\ Len(log) \in DOMAIN log /\ i \in DOMAIN log
      BY <1>1, <2>2, <2>3
    <3> QED BY <2>6, <3>1
  <2> QED BY <2>1, <2>5, <2>6
<1> QED BY <1>2, <1>3

\* d is c at another point of its way.
Same(c, d) ==
    /\ d.mine = c.mine /\ d.purpose = c.purpose /\ d.asks = c.asks
    /\ d.card = c.card /\ d.knew = c.knew

LEMMA RepliesFacts ==
    ASSUME NEW c \in StudyCall, NEW reply \in Refused .. QueueSize, Replies(c, reply)
    PROVE  \E d \in StudyCall :
              /\ Same(c, d) /\ d.stage = "replied" /\ d.reply = reply
              /\ calls' = (calls \ {c}) \cup (IF c.mine THEN {d} ELSE {})
<1> DEFINE d == [c EXCEPT !.stage = "replied", !.reply = reply]
<1>1. d \in StudyCall /\ Same(c, d) /\ d.stage = "replied" /\ d.reply = reply
  BY DEF StudyCall, Progress, Same
<1>2. calls' = (calls \ {c}) \cup (IF c.mine THEN {d} ELSE {})
  BY DEF Replies, Others
<1> QED BY <1>1, <1>2

LEMMA MovesOnFacts ==
    ASSUME NEW c \in StudyCall, NEW d, MovesOn(c, d)
    PROVE  calls' = (calls \ {c}) \cup (IF TRUE THEN {d} ELSE {})
BY DEF MovesOn, Others

\* A request that is sent is under way beside the others.
LEMMA Sent ==
    ASSUME NEW purpose \in Purposes, NEW ask \in Questions, NEW card1 \in 0 .. QueueSize,
           NEW knew1 \in BOOLEAN, NEW others, Send(purpose, ask, card1, knew1, others)
    PROVE  \E n \in StudyCall :
              /\ n.mine /\ n.purpose = purpose /\ n.asks = ask /\ n.card = card1
              /\ n.stage = "sent" /\ calls' = others \cup {n}
<1>1. PICK t \in Tags :
         calls' = others \cup
            {[tag |-> t, mine |-> TRUE, purpose |-> purpose, asks |-> ask, card |-> card1,
              knew |-> knew1, stage |-> "sent", row |-> "active", review |-> 0, reply |-> 0]}
  BY DEF Send
<1> DEFINE n == [tag |-> t, mine |-> TRUE, purpose |-> purpose, asks |-> ask, card |-> card1,
                 knew |-> knew1, stage |-> "sent", row |-> "active", review |-> 0, reply |-> 0]
<1>2. n \in StudyCall
  BY StudyAssumption DEF StudyCall, Progress, SessionStatuses, Refused
<1>3. n.mine /\ n.purpose = purpose /\ n.asks = ask /\ n.card = card1 /\ n.stage = "sent"
  OBVIOUS
<1> HIDE DEF n
<1> QED BY <1>1, <1>2, <1>3 DEF n

LEMMA AskNextFacts ==
    ASSUME NEW c \in StudyCall, NEW ask \in Questions, AskNext(c, ask)
    PROVE  \E n \in StudyCall :
              /\ n.mine = c.mine /\ n.purpose = c.purpose /\ n.asks = ask /\ n.stage = "sent"
              /\ calls' = (calls \ {c}) \cup {n}
<1> DEFINE n == [c EXCEPT !.asks = ask, !.card = 0, !.knew = FALSE, !.stage = "sent",
                          !.row = "active", !.review = 0, !.reply = 0]
<1>0. /\ 0 \in 0 .. QueueSize /\ 0 \in 0 .. MaxGradings /\ 0 \in Refused .. QueueSize
      /\ "active" \in SessionStatuses /\ "sent" \in Progress
  BY StudyAssumption DEF Progress, SessionStatuses, Refused
<1>1. /\ n \in StudyCall
      /\ n.mine = c.mine /\ n.purpose = c.purpose /\ n.asks = ask /\ n.stage = "sent"
  BY <1>0 DEF StudyCall
<1>2. calls' = (calls \ {c}) \cup {n}
  BY DEF AskNext, Others
<1> QED BY <1>1, <1>2

\* What is left behind is not of the page, and without an orphan it neither
\* answers nor undoes.
LEMMA LeftBehindAre ==
    ASSUME NEW some, some \subseteq StudyCall, \A c \in some : Staged(c)
    PROVE  /\ LeftBehind(some) \subseteq StudyCall
           /\ \A d \in LeftBehind(some) : ~d.mine /\ Staged(d) /\ d.stage # "replied"
           /\ (\A c \in some : c.stage = "replied") => LeftBehind(some) = {}
           /\ Orphaned(some) \subseteq {"orphan"}
           /\ "orphan" \notin Orphaned(some) =>
                 \A d \in LeftBehind(some) : d.asks \notin {"answer", "undo"}
<1>1. ASSUME NEW d \in LeftBehind(some)
      PROVE  /\ d \in StudyCall /\ ~d.mine /\ Staged(d) /\ d.stage # "replied"
             /\ \E c \in some : c.stage # "replied"
  <2>1. PICK c \in some : c.stage # "replied" /\ d = [c EXCEPT !.mine = FALSE]
    BY DEF LeftBehind
  <2>2. c \in StudyCall /\ Staged(c)
    OBVIOUS
  <2>3. /\ d \in StudyCall /\ ~d.mine /\ d.asks = c.asks /\ d.purpose = c.purpose
        /\ d.card = c.card /\ d.stage = c.stage /\ d.review = c.review
    BY <2>1, <2>2 DEF StudyCall
  <2> QED BY <2>1, <2>2, <2>3 DEF Staged
<1>2. Orphaned(some) \subseteq {"orphan"}
  BY DEF Orphaned
<1>3. ASSUME "orphan" \notin Orphaned(some)
      PROVE  \A d \in LeftBehind(some) : d.asks = "abandon"
  BY <1>3 DEF Orphaned
<1>4. (\A c \in some : c.stage = "replied") => LeftBehind(some) = {}
  BY <1>1
<1> QED BY <1>1, <1>2, <1>3, <1>4

LEMMA EndedScreen ==
    ASSUME NEW s \in StudyScreen, NEW c \in StudyCall
    PROVE  /\ Ended(s, c) \in StudyScreen
           /\ Ended(s, c).card = s.card /\ Ended(s, c).summary = s.summary
           /\ c.purpose \in {"answer", "undo"} => ~Ended(s, c).busy
           /\ c.purpose \notin {"answer", "undo"} => Ended(s, c).busy = s.busy
<1>1. CASE c.purpose \in {"answer", "undo"}
  <2>1. Ended(s, c) = [s EXCEPT !.busy = FALSE]
    BY <1>1 DEF Ended
  <2> QED BY <1>1, <2>1 DEF StudyScreen
<1>2. CASE c.purpose \notin {"answer", "undo"}
  <2>1. Ended(s, c) = [s EXCEPT !.busy = s.busy]
    BY <1>2 DEF Ended
  <2> QED BY <1>2, <2>1 DEF StudyScreen
<1> QED BY <1>1, <1>2

--------------------------------------------------------------------------------
(* What a step outside of the server leaves as it was.                    *)

\* The log stays in order when it does not change: calls that are new have read
\* nothing, and are of the page if they answer or undo.
LEMMA OrderStays ==
    ASSUME InOrder, session' = session, "orphan" \in doubt => "orphan" \in doubt',
           "orphan" \notin doubt' => \A e \in calls' : \/ e \in calls
                                                  \/ /\ e.asks \in {"answer", "undo"} => e.mine
                                                     /\ e.stage \notin {"found", "stamped"}
    PROVE  InOrder'
<1> SUFFICES ASSUME "orphan" \notin doubt' PROVE InOrder'
  BY DEF InOrder
<1>1. /\ \A e \in calls : e.asks \in {"answer", "undo"} => e.mine
      /\ Sorted(session) /\ \A e \in calls : Agrees(e, session)
  BY DEF InOrder
<1>2. ASSUME NEW e \in calls'
      PROVE  (e.asks \in {"answer", "undo"} => e.mine) /\ Agrees(e, session')
  <2>1. CASE e \in calls
    BY <1>1, <2>1
  <2>2. CASE e \notin calls
    BY <2>2 DEF Agrees
  <2> QED BY <2>1, <2>2
<1> QED BY <1>1, <1>2 DEF InOrder

\* The call c of the page ends; what it leaves behind is not of the page.
LEMMA EndKeepsOne ==
    ASSUME OneDecides, NEW c \in calls, c.mine,
           NEW some, \A d \in some : ~d.mine, calls' = (calls \ {c}) \cup some,
           screen' \in StudyScreen,
           c.purpose \in {"answer", "undo"} => ~screen'.busy,
           c.purpose \notin {"answer", "undo"} => screen'.busy = screen.busy
    PROVE  OneDecides'
<1>1. Deciding' = Deciding \ {c}
  BY DEF Deciding
<1>2. CASE c.purpose \in {"answer", "undo"}
  <2>1. Deciding' = {}
    BY <1>1, <1>2 DEF OneDecides, Deciding
  <2> QED BY <1>2, <2>1 DEF OneDecides
<1>3. CASE c.purpose \notin {"answer", "undo"}
  <2>1. Deciding' = Deciding
    BY <1>1, <1>3 DEF Deciding
  <2> QED BY <1>3, <2>1 DEF OneDecides
<1> QED BY <1>2, <1>3

\* The call c becomes n, for the same purpose.
LEMMA NextAskKeepsOne ==
    ASSUME OneDecides, NEW c \in calls, NEW n, n.mine = c.mine, n.purpose = c.purpose,
           calls' = (calls \ {c}) \cup {n}, screen'.busy = screen.busy
    PROVE  OneDecides'
<1>1. CASE c \in Deciding
  <2>1. Deciding = {c}
    BY <1>1 DEF OneDecides
  <2>2. Deciding' = {n}
    BY <1>1, <2>1 DEF Deciding
  <2> QED BY <2>1, <2>2 DEF OneDecides
<1>2. CASE c \notin Deciding
  <2>1. Deciding' = Deciding
    BY <1>2 DEF Deciding
  <2> QED BY <2>1 DEF OneDecides
<1> QED BY <1>1, <1>2

LEMMA StudyStarts == StudyInit => StudyInv
<1> SUFFICES ASSUME StudyInit PROVE StudyInv
  OBVIOUS
<1>1. session.log = <<>> /\ session.status = "active" /\ session.clock = 0 /\ calls = {}
      /\ open = FALSE /\ doubt = {} /\ screen = BlankScreen
  BY DEF StudyInit
<1>2. StudyTypeOK
  <2>1. <<>> \in Seq(StudyReview) /\ "active" \in SessionStatuses /\ 0 \in 0 .. MaxGradings
    BY StudyAssumption DEF SessionStatuses
  <2>2. session \in [log : Seq(StudyReview), status : SessionStatuses, clock : 0 .. MaxGradings]
    BY <2>1 DEF StudyInit
  <2>3. screen \in [card : 0 .. QueueSize, revealed : BOOLEAN, summary : BOOLEAN, busy : BOOLEAN]
    BY <1>1, StudyAssumption DEF BlankScreen
  <2> QED BY <1>1, <2>2, <2>3 DEF StudyTypeOK
<1>3. OneDecides
  BY <1>1 DEF OneDecides, Deciding, BlankScreen
<1>4. InOrder
  <2>1. DOMAIN session.log = {}
    BY <1>1
  <2> QED BY <1>1, <2>1 DEF InOrder, Sorted
<1>5. Follows /\ NeverBlank
  BY <1>1 DEF Follows, NeverBlank
<1> QED BY <1>1, <1>2, <1>3, <1>4, <1>5 DEF StudyInv

--------------------------------------------------------------------------------
(* The server.                                                            *)

\* What a statement has to show for its call c, that goes on as d, or is gone:
\* the log stays in order and c fits the page.
LEMMA ServedKeeps ==
    ASSUME StudyInv, NEW c \in calls, NEW d \in StudyCall, Same(c, d), NEW stays \in BOOLEAN,
           c.mine => stays,
           calls' = (calls \ {c}) \cup (IF stays THEN {d} ELSE {}),
           UNCHANGED <<screen, open, doubt>>,
           session' \in StudySession, Staged(d),
           d.stage = "replied" /\ d.reply = Refused => c.asks = "answer",
           c.asks \notin {"answer", "undo"} =>
              session'.log = session.log /\ session'.clock = session.clock,
           c.asks \in {"answer", "undo"} /\ Sorted(session) /\ Agrees(c, session) =>
              Sorted(session') /\ Agrees(d, session'),
           Calm(doubt) /\ Fits(c, session, screen, doubt) => Fits(d, session', screen, doubt)
    PROVE  StudyInv'
<1>1. /\ StudyTypeOK /\ OneDecides /\ InOrder /\ Follows /\ NeverBlank
      /\ \A e \in calls : Staged(e) /\ (e.mine => open)
  BY DEF StudyInv
<1>2. calls \subseteq StudyCall /\ \A e \in calls' : e \in calls \/ e = d
  BY <1>1, StudyTypes
<1>3. StudyTypeOK'
  BY <1>1, <1>2 DEF StudyTypeOK, StudySession
<1>4. \A e \in calls' : Staged(e) /\ (e.mine => open')
  BY <1>1, <1>2 DEF Same
<1>5. OneDecides'
  <2>1. CASE c \in Deciding
    <3>1. Deciding = {c} /\ c.mine
      BY <1>1, <2>1 DEF OneDecides, Deciding
    <3>2. Deciding' = {d}
      BY <2>1, <3>1 DEF Deciding, Same
    <3> QED BY <1>1, <3>1, <3>2 DEF OneDecides
  <2>2. CASE c \notin Deciding
    <3>1. Deciding' = Deciding
      BY <2>2 DEF Deciding, Same
    <3> QED BY <1>1, <3>1 DEF OneDecides
  <2> QED BY <2>1, <2>2
<1>6. InOrder'
  <2> SUFFICES ASSUME "orphan" \notin doubt PROVE InOrder'
    BY DEF InOrder
  <2>1. /\ \A e \in calls : e.asks \in {"answer", "undo"} => e.mine
        /\ Sorted(session) /\ \A e \in calls : Agrees(e, session)
    BY <1>1 DEF InOrder
  <2>2. \A e \in calls' : e.asks \in {"answer", "undo"} => e.mine
    BY <1>2, <2>1 DEF Same
  <2>3. CASE c.asks \in {"answer", "undo"}
    <3>1. Sorted(session') /\ Agrees(d, session')
      BY <2>1, <2>3
    <3>2. ASSUME NEW e \in calls', e # d PROVE Agrees(e, session')
      <4>1. e \in calls /\ e # c
        BY <1>2, <3>2
      <4>2. e.asks \notin {"answer", "undo"}
        <5>1. SUFFICES ASSUME e.asks \in {"answer", "undo"} PROVE FALSE
          OBVIOUS
        <5>2. e \in Deciding /\ c \in Deciding
          BY <1>1, <2>1, <2>3, <4>1, <5>1 DEF Deciding, Staged
        <5> QED BY <1>1, <4>1, <5>2 DEF OneDecides
      <4> QED BY <1>1, <4>1, <4>2 DEF Agrees, Staged
    <3> QED BY <2>2, <3>1, <3>2 DEF InOrder
  <2>4. CASE c.asks \notin {"answer", "undo"}
    <3>1. session'.log = session.log /\ session'.clock = session.clock
      BY <2>4
    <3>2. Sorted(session') /\ \A e \in calls : Agrees(e, session')
      BY <2>1, <3>1 DEF Sorted, Agrees
    <3>3. Agrees(d, session')
      BY <2>4 DEF Agrees, Same, Staged
    <3> QED BY <1>2, <2>2, <3>2, <3>3 DEF InOrder
  <2> QED BY <2>3, <2>4
<1>7. Follows'
  <2> SUFFICES ASSUME Calm(doubt) PROVE Follows'
    BY DEF Follows
  <2>1. calls = {c} /\ c.mine /\ open /\ Fits(c, session, screen, doubt)
    BY <1>1 DEF Follows
  <2>2. calls' = {d} /\ d.mine /\ Fits(d, session', screen, doubt)
    BY <2>1 DEF Same
  <2>3. Fits(d, session', screen', doubt')
    BY <2>2
  <2> QED BY <2>1, <2>2, <2>3 DEF Follows
<1>8. NeverBlank'
  <2> SUFFICES ASSUME "loss" \notin doubt PROVE NeverBlank'
    BY DEF NeverBlank
  <2>1. \A e \in calls' : Refills(e) /\ e.stage = "replied" => e.reply # Refused
    BY <1>1, <1>2 DEF NeverBlank, Refills, Same
  <2>2. ASSUME NEW e \in calls, Refills(e) PROVE \E x \in calls' : Refills(x)
    <3>1. CASE e = c
      <4>1. d \in calls' /\ Refills(d)
        BY <2>2, <3>1 DEF Refills, Same
      <4> QED BY <4>1
    <3>2. CASE e # c
      BY <2>2, <3>2
    <3> QED BY <3>1, <3>2
  <2> QED BY <1>1, <2>1, <2>2 DEF NeverBlank
<1> QED BY <1>3, <1>4, <1>5, <1>6, <1>7, <1>8 DEF StudyInv

\* What every statement knows of its call.
LEMMA Serving ==
    ASSUME StudyInv, NEW c \in calls
    PROVE  /\ StudyTypeOK /\ c \in StudyCall /\ Staged(c)
           /\ c.card \in 0 .. QueueSize /\ c.row \in SessionStatuses /\ c.review \in 0 .. MaxGradings
           /\ c.stage \in Progress /\ c.mine \in BOOLEAN /\ c.reply \in Refused .. QueueSize
           /\ c.purpose \in Purposes
           /\ session \in StudySession /\ Len(session.log) \in Nat
           /\ CurrentCard(session) \in 0 .. QueueSize
           /\ QueueSize \in Nat /\ QueueSize > 0 /\ Refused \in Refused .. QueueSize
           /\ \A n \in 0 .. QueueSize : n \in Refused .. QueueSize /\ n # Refused
<1>1. StudyTypeOK /\ c \in StudyCall /\ Staged(c) /\ session \in StudySession
      /\ QueueSize \in Nat /\ QueueSize > 0
  BY StudyTypes DEF StudyInv
<1>2. CurrentCard(session) \in 0 .. QueueSize
  BY <1>1, CardOfSession
<1>3. Len(session.log) \in Nat
  BY <1>1 DEF StudySession
<1> QED BY <1>1, <1>2, <1>3 DEF StudyCall, Refused

LEMMA ReadSessionKeeps ==
    ASSUME StudyInv, NEW c \in calls, ReadSession(c), UNCHANGED <<screen, open, doubt>>
    PROVE  StudyInv'
<1>1. c \in StudyCall /\ Staged(c) /\ session' = session /\ session' \in StudySession
      /\ c.stage = "sent" /\ c.asks \in {"load", "answer", "undo"}
  BY Serving DEF ReadSession
<1>2. CASE c.asks = "answer" /\ session.status # "active"
  <2>1. Replies(c, Refused) /\ Refused \in Refused .. QueueSize
    BY <1>2, Serving DEF ReadSession
  <2>2. PICK d \in StudyCall :
           /\ Same(c, d) /\ d.stage = "replied" /\ d.reply = Refused
           /\ calls' = (calls \ {c}) \cup (IF c.mine THEN {d} ELSE {})
    BY <1>1, <2>1, RepliesFacts
  <2>3. Staged(d) /\ Agrees(d, session')
    BY <1>1, <2>2 DEF Staged, Agrees, Same
  <2>4. Fits(c, session, screen, doubt) => Fits(d, session', screen, doubt)
    <3>1. Fits(c, session, screen, doubt) => c.card = CurrentCard(session)
      BY <1>1, <1>2 DEF Fits, Shows
    <3>2. c.card # 0 /\ CurrentCard(session) = 0
      BY <1>1, <1>2, CardOfSession DEF Staged
    <3> QED BY <3>1, <3>2
  <2>5. c.mine \in BOOLEAN
    BY Serving
  <2> QED BY <1>1, <1>2, <2>2, <2>3, <2>4, <2>5, ServedKeeps
<1>3. CASE ~(c.asks = "answer" /\ session.status # "active")
  <2>1. PICK d : d = [c EXCEPT !.stage = "opened", !.row = session.status]
    OBVIOUS
  <2>2. MovesOn(c, d)
    BY <1>3, <2>1 DEF ReadSession
  <2>4. /\ d \in StudyCall /\ Same(c, d) /\ d.stage = "opened" /\ d.row = session.status
        /\ d.review = c.review
    <3>1. session.status \in SessionStatuses /\ c.review \in 0 .. MaxGradings /\ "opened" \in Progress
      BY <1>1, Serving DEF StudySession, Progress
    <3> QED BY <1>1, <2>1, <3>1 DEF StudyCall, Same
  <2>5. calls' = (calls \ {c}) \cup (IF TRUE THEN {d} ELSE {})
    BY <1>1, <2>2, MovesOnFacts
  <2>6. Staged(d) /\ Agrees(d, session')
    BY <1>1, <2>4 DEF Staged, Agrees, Same
  <2>7. Fits(c, session, screen, doubt) => Fits(d, session', screen, doubt)
    BY <1>1, <2>4 DEF Fits, Same
  <2> QED BY <1>1, <2>4, <2>5, <2>6, <2>7, ServedKeeps
<1> QED BY <1>2, <1>3

LEMMA FindCardKeeps ==
    ASSUME StudyInv, NEW c \in calls, FindCard(c), UNCHANGED <<screen, open, doubt>>
    PROVE  StudyInv'
<1>1. c \in StudyCall /\ Staged(c) /\ session' = session /\ session' \in StudySession
      /\ c.stage = "opened" /\ c.asks = "load" /\ c.mine \in BOOLEAN
      /\ Replies(c, CardAt(c.row, session.log))
  BY Serving DEF FindCard
<1>2. CardAt(c.row, session.log) \in 0 .. QueueSize
  BY Serving DEF CardAt
<1>3. PICK d \in StudyCall :
         /\ Same(c, d) /\ d.stage = "replied" /\ d.reply = CardAt(c.row, session.log)
         /\ calls' = (calls \ {c}) \cup (IF c.mine THEN {d} ELSE {})
  BY <1>1, <1>2, Serving, RepliesFacts
<1>4. Staged(d) /\ d.reply # Refused
  BY <1>1, <1>2, <1>3, Serving DEF Staged, Same
<1>5. Fits(c, session, screen, doubt) => Fits(d, session', screen, doubt)
  BY <1>1, <1>3 DEF Fits, Same, CurrentCard
<1> QED BY <1>1, <1>3, <1>4, <1>5, ServedKeeps

LEMMA CheckCursorKeeps ==
    ASSUME StudyInv, NEW c \in calls, CheckCursor(c), UNCHANGED <<screen, open, doubt>>
    PROVE  StudyInv'
<1>1. c \in StudyCall /\ Staged(c) /\ session' = session /\ session' \in StudySession
      /\ c.stage = "opened" /\ c.asks = "answer" /\ c.mine \in BOOLEAN
  BY Serving DEF CheckCursor
<1>2. Fits(c, session, screen, doubt) =>
         /\ session.status = "active" /\ c.card = Len(session.log) + 1
         /\ Plain(screen, doubt)
  <2>1. c.card # 0
    BY <1>1 DEF Staged
  <2> QED BY <1>1, <2>1, CardOfSession DEF Fits, Shows, Plain
<1>3. CASE c.card # Len(session.log) + 1
  <2>1. Replies(c, Refused) /\ Refused \in Refused .. QueueSize
    BY <1>3, Serving DEF CheckCursor
  <2>2. PICK d \in StudyCall :
           /\ Same(c, d) /\ d.stage = "replied" /\ d.reply = Refused
           /\ calls' = (calls \ {c}) \cup (IF c.mine THEN {d} ELSE {})
    BY <1>1, <2>1, RepliesFacts
  <2>3. Staged(d) /\ Agrees(d, session')
    BY <1>1, <2>2 DEF Staged, Agrees, Same
  <2> QED BY <1>1, <1>2, <1>3, <2>2, <2>3, ServedKeeps
<1>4. CASE c.card = Len(session.log) + 1
  <2>1. PICK d : d = [c EXCEPT !.stage = "found"]
    OBVIOUS
  <2>2. MovesOn(c, d)
    BY <1>4, <2>1 DEF CheckCursor
  <2>4. d \in StudyCall /\ Same(c, d) /\ d.stage = "found"
    <3>1. c.row \in SessionStatuses /\ c.review \in 0 .. MaxGradings /\ "found" \in Progress
      BY Serving DEF Progress
    <3> QED BY <1>1, <2>1, <3>1 DEF StudyCall, Same
  <2>5. calls' = (calls \ {c}) \cup (IF TRUE THEN {d} ELSE {})
    BY <1>1, <2>2, MovesOnFacts
  <2>6. Staged(d) /\ Agrees(d, session')
    BY <1>1, <1>4, <2>4 DEF Staged, Agrees, Same
  <2>7. Fits(c, session, screen, doubt) => Fits(d, session', screen, doubt)
    BY <1>1, <1>2, <2>4 DEF Fits, Same
  <2> QED BY <1>1, <2>4, <2>5, <2>6, <2>7, ServedKeeps
<1> QED BY <1>3, <1>4

LEMMA StampReviewKeeps ==
    ASSUME StudyInv, NEW c \in calls, StampReview(c), UNCHANGED <<screen, open, doubt>>
    PROVE  StudyInv'
<1>1. c \in StudyCall /\ Staged(c) /\ c.stage = "found" /\ c.asks = "answer"
      /\ session \in StudySession
  BY Serving DEF StampReview
<1>2. PICK instant \in 0 .. MaxGradings : instant = session.clock + 1 /\ instant # 0
  <2>1. session.clock \in 0 .. MaxGradings /\ MaxGradings \in Nat /\ session.clock < MaxGradings
    BY <1>1, StudyAssumption DEF StampReview, StudySession
  <2> QED BY <2>1
<1>3. PICK d : d = [c EXCEPT !.stage = "stamped", !.review = session.clock + 1]
  OBVIOUS
<1>4. MovesOn(c, d) /\ session' = [session EXCEPT !.clock = session.clock + 1]
  BY <1>3 DEF StampReview
<1>5. /\ session' \in StudySession /\ session'.log = session.log
      /\ session'.status = session.status /\ session'.clock = instant
  BY <1>1, <1>2, <1>4 DEF StudySession
<1>7. d \in StudyCall /\ Same(c, d) /\ d.stage = "stamped" /\ d.review = instant
  <2>1. c.row \in SessionStatuses /\ "stamped" \in Progress
    BY Serving DEF Progress
  <2> QED BY <1>1, <1>2, <1>3, <2>1 DEF StudyCall, Same
<1>8. calls' = (calls \ {c}) \cup (IF TRUE THEN {d} ELSE {})
  BY <1>1, <1>4, MovesOnFacts
<1>9. Staged(d)
  BY <1>1, <1>2, <1>7 DEF Staged, Same
<1>10. Sorted(session) /\ Agrees(c, session) => Sorted(session') /\ Agrees(d, session')
  <2> SUFFICES ASSUME Sorted(session), Agrees(c, session) PROVE Sorted(session') /\ Agrees(d, session')
    OBVIOUS
  <2>1. \A i \in DOMAIN session.log : session.log[i].id \in Nat /\ session.log[i].id < instant
    <3>1. \A i \in DOMAIN session.log : session.log[i] \in StudyReview
      BY <1>1 DEF StudySession
    <3>2. session.clock \in Nat
      BY <1>1 DEF StudySession
    <3> QED BY <1>2, <3>1, <3>2 DEF Sorted, StudyReview
  <2> QED BY <1>1, <1>5, <1>7, <2>1 DEF Sorted, Agrees, Same
<1>11. Fits(c, session, screen, doubt) => Fits(d, session', screen, doubt)
  BY <1>1, <1>5, <1>7 DEF Fits, Same
<1> QED BY <1>1, <1>5, <1>7, <1>8, <1>9, <1>10, <1>11, ServedKeeps

LEMMA FileReviewKeeps ==
    ASSUME StudyInv, NEW c \in calls, FileReview(c), UNCHANGED <<screen, open, doubt>>
    PROVE  StudyInv'
<1>1. c \in StudyCall /\ Staged(c) /\ c.stage = "stamped" /\ c.asks = "answer" /\ c.mine \in BOOLEAN
      /\ session \in StudySession /\ session.log \in Seq(StudyReview)
  BY Serving, StudyTypes DEF FileReview
<1>2. PICK r \in StudyReview : r = [id |-> c.review, card |-> c.card] /\ r.id = c.review /\ r.card = c.card
  <2>1. c.review \in 1 .. MaxGradings /\ c.card \in 1 .. QueueSize
    BY <1>1, Serving DEF Staged
  <2>2. [id |-> c.review, card |-> c.card] \in StudyReview
    BY <2>1 DEF StudyReview
  <2> QED BY <2>2
<1>3. PICK log : log = Filed(session.log, r)
  OBVIOUS
<1>4. /\ session' = [session EXCEPT !.log = log]
      /\ log \in Seq(StudyReview) /\ Len(log) = Len(session.log) + 1
      /\ (\A i \in DOMAIN session.log : session.log[i].id < r.id) =>
            /\ \A i \in DOMAIN session.log : log[i] = session.log[i]
            /\ log[Len(session.log) + 1] = r
  BY <1>1, <1>2, <1>3, FiledFacts DEF FileReview
<1>5. /\ session' \in StudySession /\ session'.log = log
      /\ session'.status = session.status /\ session'.clock = session.clock
  BY <1>1, <1>4 DEF StudySession
<1>6. Sorted(session) /\ Agrees(c, session) => Sorted(session')
  <2> SUFFICES ASSUME Sorted(session), Agrees(c, session) PROVE Sorted(session')
    OBVIOUS
  <2>1. c.card = Len(session.log) + 1 /\ c.review <= session.clock
        /\ \A i \in DOMAIN session.log : session.log[i].id < r.id
    BY <1>1, <1>2 DEF Agrees
  <2>2. /\ \A i \in DOMAIN session.log : log[i] = session.log[i]
        /\ log[Len(session.log) + 1] = r
    BY <1>4, <2>1
  <2>3. Len(session.log) \in Nat /\ DOMAIN session.log = 1 .. Len(session.log)
        /\ DOMAIN log = 1 .. Len(session.log) + 1
    BY <1>1, <1>4
  <2>4. \A i \in DOMAIN log : log[i].card = i /\ log[i].id <= session.clock
    BY <1>2, <2>1, <2>2, <2>3 DEF Sorted
  <2>5. \A i, j \in DOMAIN log : i < j => log[i].id < log[j].id
    <3>1. \A i, j \in DOMAIN log : i < j => i \in DOMAIN session.log
      BY <2>3
    <3>2. \A j \in DOMAIN log : j \in DOMAIN session.log \/ j = Len(session.log) + 1
      BY <2>3
    <3> QED BY <2>1, <2>2, <3>1, <3>2 DEF Sorted
  <2> QED BY <1>5, <2>4, <2>5 DEF Sorted
<1>7. CASE c.card = QueueSize
  <2>1. PICK d : d = [c EXCEPT !.stage = "written"]
    OBVIOUS
  <2>2. MovesOn(c, d)
    BY <1>7, <2>1 DEF FileReview
  <2>4. d \in StudyCall /\ Same(c, d) /\ d.stage = "written"
    <3>1. c.row \in SessionStatuses /\ c.review \in 0 .. MaxGradings /\ "written" \in Progress
      BY Serving DEF Progress
    <3> QED BY <1>1, <2>1, <3>1 DEF StudyCall, Same
  <2>5. calls' = (calls \ {c}) \cup (IF TRUE THEN {d} ELSE {})
    BY <1>1, <2>2, MovesOnFacts
  <2>6. Staged(d) /\ Agrees(d, session')
    BY <1>1, <2>4 DEF Staged, Agrees, Same
  <2>7. Fits(c, session, screen, doubt) => Fits(d, session', screen, doubt)
    BY <1>1, <1>4, <1>5, <1>7, <2>4 DEF Fits, Same
  <2> QED BY <1>1, <1>5, <1>6, <2>4, <2>5, <2>6, <2>7, ServedKeeps
<1>8. CASE c.card # QueueSize
  <2>1. Replies(c, c.card + 1) /\ c.card + 1 \in 0 .. QueueSize
    BY <1>8, Serving DEF FileReview
  <2>2. PICK d \in StudyCall :
           /\ Same(c, d) /\ d.stage = "replied" /\ d.reply = c.card + 1
           /\ calls' = (calls \ {c}) \cup (IF c.mine THEN {d} ELSE {})
    BY <1>1, <2>1, Serving, RepliesFacts
  <2>3. Staged(d) /\ Agrees(d, session')
    BY <1>1, <2>2 DEF Staged, Agrees, Same
  <2>4. Fits(c, session, screen, doubt) => Fits(d, session', screen, doubt)
    <3> SUFFICES ASSUME Fits(c, session, screen, doubt) PROVE Fits(d, session', screen, doubt)
      OBVIOUS
    <3>1. session'.status = "active" /\ Len(session'.log) = c.card /\ Plain(screen, doubt)
      BY <1>1, <1>4, <1>5 DEF Fits
    <3>2. CurrentCard(session') = c.card + 1
      BY <1>8, <3>1, Serving DEF CurrentCard, CardAt
    <3> QED BY <1>1, <2>2, <3>1, <3>2 DEF Fits, Same
  <2> QED BY <1>1, <1>5, <1>6, <2>2, <2>3, <2>4, ServedKeeps
<1> QED BY <1>7, <1>8

LEMMA FindLastKeeps ==
    ASSUME StudyInv, NEW c \in calls, FindLast(c), UNCHANGED <<screen, open, doubt>>
    PROVE  StudyInv'
<1>1. c \in StudyCall /\ Staged(c) /\ c.stage = "opened" /\ c.asks = "undo" /\ c.mine \in BOOLEAN
      /\ session \in StudySession /\ session' = session
  BY Serving DEF FindLast
<1>2. CASE session.log = <<>>
  <2>1. Replies(c, 0) /\ 0 \in Refused .. QueueSize /\ 0 # Refused
    BY <1>2, Serving DEF FindLast
  <2>2. PICK d \in StudyCall :
           /\ Same(c, d) /\ d.stage = "replied" /\ d.reply = 0
           /\ calls' = (calls \ {c}) \cup (IF c.mine THEN {d} ELSE {})
    BY <1>1, <2>1, RepliesFacts
  <2>3. Staged(d) /\ Agrees(d, session')
    BY <1>1, <2>2 DEF Staged, Agrees, Same
  <2>4. Fits(d, session', screen, doubt)
    BY <1>1, <2>2 DEF Fits, Same
  <2> QED BY <1>1, <2>1, <2>2, <2>3, <2>4, ServedKeeps
<1>3. CASE session.log # <<>>
  <2>1. PICK last \in 0 .. MaxGradings : last = session.log[Len(session.log)].id
    <3>1. session.log \in Seq(StudyReview)
      BY <1>1 DEF StudySession
    <3>2. session.log[Len(session.log)] \in StudyReview
      BY <1>3, <3>1
    <3> QED BY <3>2 DEF StudyReview
  <2>2. PICK d : d = [c EXCEPT !.stage = "found", !.review = last]
    OBVIOUS
  <2>3. MovesOn(c, d)
    BY <1>3, <2>1, <2>2 DEF FindLast
  <2>5. d \in StudyCall /\ Same(c, d) /\ d.stage = "found" /\ d.review = last
    <3>1. c.row \in SessionStatuses /\ "found" \in Progress
      BY Serving DEF Progress
    <3> QED BY <1>1, <2>2, <3>1 DEF StudyCall, Same
  <2>6. calls' = (calls \ {c}) \cup (IF TRUE THEN {d} ELSE {})
    BY <1>1, <2>3, MovesOnFacts
  <2>7. Staged(d) /\ Agrees(d, session')
    BY <1>1, <1>3, <2>1, <2>5 DEF Staged, Agrees, Same
  <2>8. Fits(d, session', screen, doubt)
    BY <1>1, <2>5 DEF Fits, Same
  <2> QED BY <1>1, <2>5, <2>6, <2>7, <2>8, ServedKeeps
<1> QED BY <1>2, <1>3

LEMMA DeleteReviewKeeps ==
    ASSUME StudyInv, NEW c \in calls, DeleteReview(c), UNCHANGED <<screen, open, doubt>>
    PROVE  StudyInv'
<1>1. c \in StudyCall /\ Staged(c) /\ c.stage = "found" /\ c.asks = "undo" /\ c.mine \in BOOLEAN
      /\ session \in StudySession /\ session.log \in Seq(StudyReview) /\ c.review \in Int
  BY Serving, StudyTypes DEF DeleteReview
<1>2. PICK log : log = Without(session.log, c.review)
  OBVIOUS
<1>3. /\ session' = [session EXCEPT !.log = log]
      /\ log \in Seq(StudyReview)
      /\ (session.log # <<>> /\ c.review = session.log[Len(session.log)].id
          /\ \A i, j \in DOMAIN session.log : i < j => session.log[i].id < session.log[j].id) =>
            /\ Len(log) = Len(session.log) - 1
            /\ \A i \in 1 .. Len(session.log) - 1 : log[i] = session.log[i]
  BY <1>1, <1>2, WithoutFacts DEF DeleteReview
<1>4. /\ session' \in StudySession /\ session'.log = log
      /\ session'.status = session.status /\ session'.clock = session.clock
  BY <1>1, <1>3 DEF StudySession
<1>5. Sorted(session) /\ Agrees(c, session) => Sorted(session')
  <2> SUFFICES ASSUME Sorted(session), Agrees(c, session) PROVE Sorted(session')
    OBVIOUS
  <2>1. Len(log) = Len(session.log) - 1 /\ \A i \in 1 .. Len(session.log) - 1 : log[i] = session.log[i]
    BY <1>1, <1>3 DEF Agrees, Sorted
  <2>2. \A i \in DOMAIN log : i \in DOMAIN session.log /\ log[i] = session.log[i]
    BY <1>1, <1>3, <2>1
  <2> QED BY <1>4, <2>2 DEF Sorted
<1>6. CASE c.row = "completed"
  <2>1. PICK d : d = [c EXCEPT !.stage = "written"]
    OBVIOUS
  <2>2. MovesOn(c, d)
    BY <1>6, <2>1 DEF DeleteReview
  <2>4. d \in StudyCall /\ Same(c, d) /\ d.stage = "written"
    <3>1. c.row \in SessionStatuses /\ c.review \in 0 .. MaxGradings /\ "written" \in Progress
      BY Serving DEF Progress
    <3> QED BY <1>1, <2>1, <3>1 DEF StudyCall, Same
  <2>5. calls' = (calls \ {c}) \cup (IF TRUE THEN {d} ELSE {})
    BY <1>1, <2>2, MovesOnFacts
  <2>6. Staged(d) /\ Agrees(d, session') /\ Fits(d, session', screen, doubt)
    BY <1>1, <2>4 DEF Staged, Agrees, Fits, Same
  <2> QED BY <1>1, <1>4, <1>5, <2>4, <2>5, <2>6, ServedKeeps
<1>7. CASE c.row # "completed"
  <2>1. Replies(c, 0) /\ 0 \in Refused .. QueueSize /\ 0 # Refused
    BY <1>7, Serving DEF DeleteReview
  <2>2. PICK d \in StudyCall :
           /\ Same(c, d) /\ d.stage = "replied" /\ d.reply = 0
           /\ calls' = (calls \ {c}) \cup (IF c.mine THEN {d} ELSE {})
    BY <1>1, <2>1, RepliesFacts
  <2>3. Staged(d) /\ Agrees(d, session') /\ Fits(d, session', screen, doubt)
    BY <1>1, <2>2 DEF Staged, Agrees, Fits, Same
  <2> QED BY <1>1, <1>4, <1>5, <2>1, <2>2, <2>3, ServedKeeps
<1> QED BY <1>6, <1>7

\* The statements after which c is answered and the log is as it was.
LEMMA AnsweredKeeps ==
    ASSUME StudyInv, NEW c \in calls, Replies(c, 0), UNCHANGED <<screen, open, doubt>>,
           NEW status \in SessionStatuses, session' = [session EXCEPT !.status = status],
           c.asks \in {"answer", "summary"} /\ Fits(c, session, screen, doubt) =>
              Fits([c EXCEPT !.stage = "replied", !.reply = 0], session', screen, doubt),
           c.asks # "load"
    PROVE  StudyInv'
<1>1. c \in StudyCall /\ Staged(c) /\ c.mine \in BOOLEAN /\ session \in StudySession
      /\ 0 \in Refused .. QueueSize /\ 0 # Refused
  BY Serving
<1>2. session' \in StudySession /\ session'.log = session.log /\ session'.clock = session.clock
  BY <1>1 DEF StudySession
<1>3. PICK d : d = [c EXCEPT !.stage = "replied", !.reply = 0]
  OBVIOUS
<1>4. d \in StudyCall /\ Same(c, d) /\ d.stage = "replied" /\ d.reply = 0
  BY <1>1, <1>3 DEF StudyCall, Progress, Same
<1>5. calls' = (calls \ {c}) \cup (IF c.mine THEN {d} ELSE {})
  BY <1>3 DEF Replies, Others
<1>6. Staged(d) /\ Agrees(d, session') /\ (Sorted(session) => Sorted(session'))
  BY <1>1, <1>2, <1>4 DEF Staged, Agrees, Same, Sorted
<1>7. Fits(c, session, screen, doubt) => Fits(d, session', screen, doubt)
  <2>1. CASE c.asks \in {"answer", "summary"}
    BY <1>3, <2>1
  <2>2. CASE c.asks \notin {"answer", "summary"}
    BY <1>4, <2>2 DEF Fits, Same
  <2> QED BY <2>1, <2>2
<1> QED BY <1>1, <1>2, <1>4, <1>5, <1>6, <1>7, ServedKeeps

LEMMA WriteStatusKeeps ==
    ASSUME StudyInv, NEW c \in calls, WriteStatus(c), UNCHANGED <<screen, open, doubt>>
    PROVE  StudyInv'
<1>1. c \in StudyCall /\ Staged(c) /\ session \in StudySession /\ c.stage = "written"
      /\ c.asks \in {"answer", "undo"} /\ Replies(c, 0)
  BY Serving DEF WriteStatus, Staged
<1>2. PICK status \in SessionStatuses :
         /\ status = IF c.asks = "answer" THEN "completed" ELSE "active"
         /\ session' = [session EXCEPT !.status = status]
  BY DEF WriteStatus, SessionStatuses
<1>3. ASSUME c.asks = "answer", Fits(c, session, screen, doubt)
      PROVE  Fits([c EXCEPT !.stage = "replied", !.reply = 0], session', screen, doubt)
  <2>1. PICK d : d = [c EXCEPT !.stage = "replied", !.reply = 0]
    OBVIOUS
  <2>2. d.asks = c.asks /\ d.stage = "replied" /\ d.reply = 0
    BY <1>1, <2>1 DEF StudyCall
  <2>3. session'.status = "completed" /\ CurrentCard(session') = 0
    BY <1>1, <1>2, <1>3 DEF CurrentCard, CardAt, StudySession
  <2>4. Plain(screen, doubt)
    BY <1>1, <1>3 DEF Fits
  <2> QED BY <1>3, <2>1, <2>2, <2>3, <2>4 DEF Fits
<1> QED BY <1>1, <1>2, <1>3, AnsweredKeeps

LEMMA AbandonSessionKeeps ==
    ASSUME StudyInv, NEW c \in calls, AbandonSession(c), UNCHANGED <<screen, open, doubt>>
    PROVE  StudyInv'
<1>1. c.asks = "abandon" /\ Replies(c, 0) /\ "abandoned" \in SessionStatuses
      /\ session' = [session EXCEPT !.status = "abandoned"]
  BY DEF AbandonSession, SessionStatuses
<1> QED BY <1>1, AnsweredKeeps

LEMMA GetSummaryKeeps ==
    ASSUME StudyInv, NEW c \in calls, GetSummary(c), UNCHANGED <<screen, open, doubt>>
    PROVE  StudyInv'
<1>1. c \in StudyCall /\ c.asks = "summary" /\ Replies(c, 0) /\ session' = session
      /\ session \in StudySession
  BY Serving DEF GetSummary
<1>2. PICK status \in SessionStatuses : status = session.status
  BY <1>1 DEF StudySession
<1>3. session' = [session EXCEPT !.status = status]
  BY <1>1, <1>2 DEF StudySession
<1>4. ASSUME Fits(c, session, screen, doubt)
      PROVE  Fits([c EXCEPT !.stage = "replied", !.reply = 0], session', screen, doubt)
  <2>1. PICK d : d = [c EXCEPT !.stage = "replied", !.reply = 0]
    OBVIOUS
  <2>2. d.asks = c.asks /\ d.purpose = c.purpose /\ d.stage = "replied" /\ d.reply = 0
    BY <1>1, <2>1 DEF StudyCall
  <2>3. CurrentCard(session') = 0 /\ (d.purpose # "answer" => screen.card = 0)
    BY <1>1, <1>4, <2>2 DEF Fits
  <2> QED BY <1>1, <2>1, <2>2, <2>3 DEF Fits
<1> QED BY <1>1, <1>2, <1>3, <1>4, AnsweredKeeps

LEMMA ServeKeeps == ASSUME StudyInv, NEW c \in calls, Serve(c) PROVE StudyInv'
<1>1. /\ \/ ReadSession(c) \/ FindCard(c) \/ GetSummary(c) \/ AbandonSession(c)
         \/ CheckCursor(c) \/ StampReview(c) \/ FileReview(c)
         \/ FindLast(c) \/ DeleteReview(c) \/ WriteStatus(c)
      /\ UNCHANGED <<screen, open, doubt>>
  BY DEF Serve
<1> QED BY <1>1, ReadSessionKeeps, FindCardKeeps, GetSummaryKeeps, AbandonSessionKeeps,
           CheckCursorKeeps, StampReviewKeeps, FileReviewKeeps, FindLastKeeps,
           DeleteReviewKeeps, WriteStatusKeeps

\* A statement of the page's own call fails: from here on there is doubt.
LEMMA FailServerKeeps == ASSUME StudyInv, NEW c \in calls, FailServer(c) PROVE StudyInv'
<1>1. /\ StudyTypeOK /\ OneDecides /\ InOrder
      /\ \A e \in calls : Staged(e) /\ (e.mine => open)
  BY DEF StudyInv
<1>2. /\ c \in StudyCall /\ c.mine /\ Replies(c, Refused) /\ Refused \in Refused .. QueueSize
      /\ doubt' = doubt \cup {"loss"} /\ UNCHANGED <<session, screen, open>>
  BY Serving DEF FailServer
<1>3. PICK d \in StudyCall :
         /\ Same(c, d) /\ d.stage = "replied"
         /\ calls' = (calls \ {c}) \cup {d}
  BY <1>2, RepliesFacts
<1>4. StudyTypeOK'
  <2>1. calls' \subseteq StudyCall /\ doubt' \subseteq Doubts
    BY <1>1, <1>2, <1>3, StudyTypes DEF Doubts
  <2> QED BY <1>1, <1>2, <2>1 DEF StudyTypeOK
<1>5. \A e \in calls' : Staged(e) /\ (e.mine => open')
  <2>1. Staged(d)
    BY <1>1, <1>3 DEF Staged, Same
  <2> QED BY <1>1, <1>2, <1>3, <2>1
<1>6. OneDecides'
  BY <1>1, <1>2, <1>3, NextAskKeepsOne DEF Same
<1>7. InOrder'
  <2>1. \A e \in calls' : e \in calls \/ (e.mine /\ e.stage \notin {"found", "stamped"})
    BY <1>2, <1>3 DEF Same
  <2> QED BY <1>1, <1>2, <2>1, OrderStays
<1>8. Follows' /\ NeverBlank'
  BY <1>2 DEF Follows, Calm, NeverBlank
<1> QED BY <1>4, <1>5, <1>6, <1>7, <1>8 DEF StudyInv

LEMMA DropCallKeeps == ASSUME StudyInv, NEW c \in calls, DropCall(c) PROVE StudyInv'
<1>1. /\ StudyTypeOK /\ OneDecides /\ InOrder /\ Follows /\ NeverBlank
      /\ \A e \in calls : Staged(e) /\ (e.mine => open)
  BY DEF StudyInv
<1>2. ~c.mine /\ calls' = calls \ {c} /\ UNCHANGED <<session, screen, open, doubt>>
  BY DEF DropCall, Others
<1>3. StudyTypeOK' /\ \A e \in calls' : Staged(e) /\ (e.mine => open')
  BY <1>1, <1>2 DEF StudyTypeOK
<1>4. OneDecides'
  <2>1. Deciding' = Deciding
    BY <1>2 DEF Deciding
  <2> QED BY <1>1, <1>2, <2>1 DEF OneDecides
<1>5. InOrder'
  BY <1>1, <1>2, OrderStays
<1>6. Follows'
  BY <1>1, <1>2 DEF Follows
<1>7. NeverBlank'
  BY <1>1, <1>2 DEF NeverBlank, Refills
<1> QED BY <1>3, <1>4, <1>5, <1>6, <1>7 DEF StudyInv

--------------------------------------------------------------------------------
(* What the page does of itself.                                          *)

LEMMA OpenPageKeeps == ASSUME StudyInv, OpenPage PROVE StudyInv'
<1>1. /\ StudyTypeOK /\ OneDecides /\ InOrder
      /\ \A e \in calls : Staged(e) /\ (e.mine => open)
  BY DEF StudyInv
<1> DEFINE left == LeftBehind(calls)
           orphaned == Orphaned(calls)
<1>2. /\ open' = TRUE /\ screen' = BlankScreen /\ session' = session
      /\ Send("open", "load", 0, FALSE, left)
      /\ doubt' = (doubt \cap {"orphan"}) \cup Beside(left) \cup orphaned
  BY DEF OpenPage
<1>3. /\ left \subseteq StudyCall /\ orphaned \subseteq {"orphan"}
      /\ \A d \in left : ~d.mine /\ Staged(d) /\ d.stage # "replied"
      /\ "orphan" \notin orphaned => \A d \in left : d.asks \notin {"answer", "undo"}
  BY <1>1, StudyTypes, LeftBehindAre
<1> HIDE DEF left, orphaned
<1>4. "open" \in Purposes /\ "load" \in Questions /\ 0 \in 0 .. QueueSize /\ FALSE \in BOOLEAN
  BY <1>1, StudyTypes DEF Purposes, Questions
<1>5. PICK n \in StudyCall :
         /\ n.mine /\ n.purpose = "open" /\ n.asks = "load" /\ n.stage = "sent"
         /\ calls' = left \cup {n}
  <2>1. PICK knew1 \in BOOLEAN : knew1 = FALSE
    OBVIOUS
  <2>2. Send("open", "load", 0, knew1, left)
    BY <1>2, <2>1
  <2> QED BY <1>4, <2>2, Sent
<1>6. Beside(left) \subseteq {"overlap"} /\ (left # {} => "overlap" \in Beside(left))
  BY DEF Beside
<1>7. StudyTypeOK'
  <2>1. calls' \subseteq StudyCall /\ screen' \in StudyScreen /\ doubt' \subseteq Doubts
    BY <1>1, <1>2, <1>3, <1>5, <1>6, StudyTypes DEF Doubts
  <2> QED BY <1>1, <1>2, <2>1 DEF StudyTypeOK, StudyScreen
<1>8. \A e \in calls' : Staged(e) /\ (e.mine => open')
  <2>1. Staged(n)
    BY <1>5 DEF Staged
  <2> QED BY <1>2, <1>3, <1>5, <2>1
<1>9. OneDecides'
  <2>1. Deciding' = {}
    BY <1>3, <1>5 DEF Deciding
  <2> QED BY <1>2, <2>1 DEF OneDecides, BlankScreen
<1>10. InOrder'
  <2>1. "orphan" \in doubt => "orphan" \in doubt'
    BY <1>2
  <2>2. "orphan" \notin doubt' => \A e \in calls' :
           (e.asks \in {"answer", "undo"} => e.mine) /\ e.stage \notin {"found", "stamped"}
    BY <1>2, <1>3, <1>5 DEF Staged
  <2> QED BY <1>1, <1>2, <2>1, <2>2, OrderStays
<1>11. Follows'
  <2> SUFFICES ASSUME Calm(doubt') PROVE Follows'
    BY DEF Follows
  <2>1. calls' = {n}
    BY <1>2, <1>5, <1>6 DEF Calm
  <2>2. Fits(n, session', screen', doubt')
    BY <1>2, <1>5 DEF Fits, Plain, BlankScreen
  <2> QED BY <1>2, <1>5, <2>1, <2>2 DEF Follows
<1>12. NeverBlank'
  BY <1>3, <1>5 DEF NeverBlank, Refills
<1> QED BY <1>7, <1>8, <1>9, <1>10, <1>11, <1>12 DEF StudyInv

LEMMA RevealKeeps == ASSUME StudyInv, Reveal PROVE StudyInv'
<1>1. /\ StudyTypeOK /\ OneDecides /\ InOrder /\ Follows /\ NeverBlank
      /\ \A e \in calls : Staged(e) /\ (e.mine => open)
  BY DEF StudyInv
<1>2. UNCHANGED <<session, open, calls, doubt>> /\ screen' = [screen EXCEPT !.revealed = TRUE]
  BY DEF Reveal
<1>3. /\ screen' \in StudyScreen /\ screen'.card = screen.card
      /\ screen'.summary = screen.summary /\ screen'.busy = screen.busy
  BY <1>1, <1>2, StudyTypes DEF StudyScreen
<1>4. StudyTypeOK' /\ \A e \in calls' : Staged(e) /\ (e.mine => open')
  BY <1>1, <1>2, <1>3 DEF StudyTypeOK, StudyScreen
<1>5. OneDecides' /\ InOrder'
  BY <1>1, <1>2, <1>3 DEF OneDecides, Deciding, InOrder
<1>6. Follows'
  <2>1. ASSUME NEW c \in calls, Fits(c, session, screen, doubt)
        PROVE  Fits(c, session, screen', doubt)
    BY <1>3, <2>1 DEF Fits, Shows, Plain
  <2>2. Shows(session, screen, doubt) => Shows(session, screen', doubt)
    BY <1>3 DEF Shows
  <2> QED BY <1>1, <1>2, <2>1, <2>2 DEF Follows
<1>7. NeverBlank'
  BY <1>1, <1>2, <1>3 DEF NeverBlank
<1> QED BY <1>4, <1>5, <1>6, <1>7 DEF StudyInv

\* A request of a page that shows a card, or the summary, at rest.
LEMMA AskKeeps ==
    ASSUME StudyInv, NEW purpose \in {"answer", "undo", "exit"},
           NEW ask \in {"answer", "undo", "abandon"}, NEW card1 \in 0 .. QueueSize,
           NEW knew1 \in BOOLEAN,
           ask = "answer" => purpose = "answer" /\ card1 # 0 /\ card1 = screen.card,
           ask = "undo" => purpose = "undo",
           open, UNCHANGED <<session, open>>, Send(purpose, ask, card1, knew1, calls),
           doubt' = doubt \cup Beside(calls),
           screen' \in StudyScreen,
           screen'.card = screen.card /\ screen'.summary = screen.summary,
           IF purpose = "exit" THEN screen'.busy = screen.busy ELSE ~screen.busy /\ screen'.busy
    PROVE  StudyInv'
<1>1. /\ StudyTypeOK /\ OneDecides /\ InOrder /\ Follows /\ NeverBlank
      /\ \A e \in calls : Staged(e) /\ (e.mine => open)
  BY DEF StudyInv
<1>2. purpose \in Purposes /\ ask \in Questions
  BY DEF Purposes, Questions
<1>3. PICK n \in StudyCall :
         /\ n.mine /\ n.purpose = purpose /\ n.asks = ask /\ n.card = card1 /\ n.stage = "sent"
         /\ calls' = calls \cup {n}
  BY <1>2, Sent
<1>4. Beside(calls) \subseteq {"overlap"} /\ (calls # {} => "overlap" \in Beside(calls))
  BY DEF Beside
<1>5. StudyTypeOK'
  <2>1. calls' \subseteq StudyCall /\ doubt' \subseteq Doubts
    BY <1>1, <1>3, <1>4, StudyTypes DEF Doubts
  <2> QED BY <1>1, <2>1 DEF StudyTypeOK, StudyScreen
<1>6. \A e \in calls' : Staged(e) /\ (e.mine => open')
  <2>1. Staged(n)
    BY <1>3 DEF Staged
  <2> QED BY <1>1, <1>3, <2>1
<1>7. OneDecides'
  <2>1. CASE purpose = "exit"
    <3>1. Deciding' = Deciding
      BY <1>3, <2>1 DEF Deciding
    <3> QED BY <1>1, <2>1, <3>1 DEF OneDecides
  <2>2. CASE purpose # "exit"
    <3>1. Deciding' = {n}
      BY <1>1, <1>3, <2>2 DEF Deciding, OneDecides
    <3> QED BY <2>2, <3>1 DEF OneDecides
  <2> QED BY <2>1, <2>2
<1>8. InOrder'
  <2>1. \A e \in calls' : e \in calls \/ (e.mine /\ e.stage \notin {"found", "stamped"})
    BY <1>3
  <2> QED BY <1>1, <2>1, OrderStays
<1>9. Follows'
  <2> SUFFICES ASSUME Calm(doubt') PROVE Follows'
    BY DEF Follows
  <2>1. calls = {} /\ Calm(doubt) /\ calls' = {n} /\ doubt' = doubt
    BY <1>3, <1>4 DEF Calm, Beside
  <2>2. Shows(session, screen', doubt)
    BY <1>1, <2>1 DEF Follows, Shows
  <2>3. Fits(n, session', screen', doubt')
    BY <1>3, <2>1, <2>2 DEF Fits
  <2> QED BY <1>3, <2>1, <2>3 DEF Follows
<1>10. NeverBlank'
  BY <1>1, <1>3 DEF NeverBlank
<1> QED BY <1>5, <1>6, <1>7, <1>8, <1>9, <1>10 DEF StudyInv

LEMMA AnswerCardKeeps == ASSUME StudyInv, AnswerCard PROVE StudyInv'
<1>1. StudyTypeOK
  BY DEF StudyInv
<1>2. /\ open /\ ~screen.busy /\ screen.card # 0 /\ screen' = [screen EXCEPT !.busy = TRUE]
      /\ Send("answer", "answer", screen.card, FALSE, calls) /\ UNCHANGED <<session, open>>
      /\ doubt' = doubt \cup Beside(calls)
  BY DEF AnswerCard
<1>3. /\ screen' \in StudyScreen /\ screen'.card = screen.card
      /\ screen'.summary = screen.summary /\ screen'.busy
  BY <1>1, <1>2, StudyTypes DEF StudyScreen
<1>4. PICK n \in 0 .. QueueSize : n = screen.card
  BY <1>1, StudyTypes
<1> QED BY <1>2, <1>3, <1>4, AskKeeps

LEMMA UndoAnswerKeeps == ASSUME StudyInv, UndoAnswer PROVE StudyInv'
<1>1. StudyTypeOK
  BY DEF StudyInv
<1>2. /\ open /\ ~screen.busy /\ screen' = [screen EXCEPT !.busy = TRUE]
      /\ Send("undo", "undo", 0, screen.summary, calls) /\ UNCHANGED <<session, open>>
      /\ doubt' = doubt \cup Beside(calls)
  BY DEF UndoAnswer
<1>3. /\ screen' \in StudyScreen /\ screen'.card = screen.card
      /\ screen'.summary = screen.summary /\ screen'.busy
  BY <1>1, <1>2, StudyTypes DEF StudyScreen
<1>4. PICK knew1 \in BOOLEAN : knew1 = screen.summary
  BY <1>1, StudyTypes
<1>5. 0 \in 0 .. QueueSize
  BY <1>1, StudyTypes
<1> QED BY <1>2, <1>3, <1>4, <1>5, AskKeeps

LEMMA ExitPageKeeps == ASSUME StudyInv, ExitPage PROVE StudyInv'
<1>1. StudyTypeOK
  BY DEF StudyInv
<1>2. /\ open /\ Send("exit", "abandon", 0, FALSE, calls) /\ UNCHANGED <<session, screen, open>>
      /\ doubt' = doubt \cup Beside(calls)
  BY DEF ExitPage
<1>3. screen' \in StudyScreen /\ 0 \in 0 .. QueueSize
  BY <1>1, <1>2, StudyTypes
<1> QED BY <1>2, <1>3, AskKeeps

--------------------------------------------------------------------------------
(* Replies.                                                               *)

\* While nothing overlaps and nothing is lost, the call of a step is the only one.
LEMMA OnlyCall ==
    ASSUME Follows, Calm(doubt), NEW c \in calls
    PROVE  calls = {c} /\ calls \ {c} = {} /\ c.mine /\ open /\ Fits(c, session, screen, doubt)
BY DEF Follows

\* The end of a call whose reply was shown.
LEMMA ShownKeeps ==
    ASSUME StudyInv, NEW c \in calls, c.mine, UNCHANGED <<session, open, doubt>>,
           NEW shown \in StudyScreen, shown.busy = screen.busy,
           screen' = Ended(shown, c), calls' = calls \ {c},
           Calm(doubt) /\ Fits(c, session, screen, doubt) => Shows(session, shown, doubt),
           "loss" \notin doubt =>
              \/ shown.card # 0 \/ shown.summary
              \/ shown.card = screen.card /\ shown.summary = screen.summary /\ ~Refills(c)
    PROVE  StudyInv'
<1>1. /\ StudyTypeOK /\ OneDecides /\ InOrder /\ Follows /\ NeverBlank
      /\ \A e \in calls : Staged(e) /\ (e.mine => open)
      /\ c \in StudyCall
  BY Serving DEF StudyInv
<1>2. /\ screen' \in StudyScreen /\ screen'.card = shown.card
      /\ screen'.summary = shown.summary
      /\ c.purpose \in {"answer", "undo"} => ~screen'.busy
      /\ c.purpose \notin {"answer", "undo"} => screen'.busy = screen.busy
  BY <1>1, EndedScreen
<1>3. StudyTypeOK' /\ \A e \in calls' : Staged(e) /\ (e.mine => open')
  BY <1>1, <1>2 DEF StudyTypeOK, StudyScreen
<1>4. OneDecides'
  <2> DEFINE none == {}
  <2>1. calls' = (calls \ {c}) \cup none /\ \A d \in none : ~d.mine
    OBVIOUS
  <2> HIDE DEF none
  <2> QED BY <1>1, <1>2, <2>1, EndKeepsOne
<1>5. InOrder'
  <2>1. \A e \in calls' : e \in calls
    OBVIOUS
  <2> QED BY <1>1, <2>1, OrderStays
<1>6. Follows'
  <2> SUFFICES ASSUME Calm(doubt) PROVE Follows'
    BY DEF Follows
  <2>1. calls' = {} /\ Fits(c, session, screen, doubt)
    BY <1>1, OnlyCall
  <2>2. Shows(session', screen', doubt')
    BY <1>2, <2>1 DEF Shows
  <2> QED BY <2>1, <2>2 DEF Follows
<1>7. NeverBlank'
  <2> SUFFICES ASSUME "loss" \notin doubt PROVE NeverBlank'
    BY DEF NeverBlank
  <2>1. \A e \in calls' : Refills(e) /\ e.stage = "replied" => e.reply # Refused
    BY <1>1 DEF NeverBlank
  <2>2. ASSUME open, screen'.card = 0, ~screen'.summary PROVE \E e \in calls' : Refills(e)
    <3>1. screen.card = 0 /\ ~screen.summary /\ ~Refills(c)
      BY <1>2, <2>2
    <3>2. PICK e \in calls : Refills(e)
      BY <1>1, <2>2, <3>1 DEF NeverBlank
    <3> QED BY <3>1, <3>2
  <2> QED BY <2>1, <2>2 DEF NeverBlank
<1> QED BY <1>3, <1>4, <1>5, <1>6, <1>7 DEF StudyInv

LEMMA ShowCardKeeps ==
    ASSUME StudyInv, NEW c \in calls, c.mine, c.stage = "replied", ShowCard(c),
           UNCHANGED <<session, open>>
    PROVE  StudyInv'
<1>1. /\ c \in StudyCall /\ c.asks \in {"load", "answer"} /\ c.reply > 0
      /\ c.reply \in Refused .. QueueSize /\ screen \in StudyScreen
      /\ calls' = calls \ {c} /\ doubt' = doubt
  BY Serving, StudyTypes DEF ShowCard, Others
<1>2. PICK shown : shown = [screen EXCEPT !.card = c.reply, !.revealed = FALSE]
  OBVIOUS
<1>3. screen' = Ended(shown, c)
  BY <1>2 DEF ShowCard
<1>4. c.reply \in 0 .. QueueSize /\ c.reply # 0
  BY <1>1, Serving DEF Refused
<1>5. /\ shown \in StudyScreen /\ shown.busy = screen.busy
      /\ shown.card = c.reply /\ shown.summary = screen.summary
  BY <1>1, <1>2, <1>4 DEF StudyScreen
<1>6. Fits(c, session, screen, doubt) => Shows(session, shown, doubt)
  BY <1>1, <1>4, <1>5 DEF Fits, Shows, Plain
<1> QED BY <1>1, <1>3, <1>4, <1>5, <1>6, ShownKeeps

\* A summary that is not refused leaves no card on the screen.
LEMMA ShowSummaryKeeps ==
    ASSUME StudyInv, NEW c \in calls, c.mine, c.stage = "replied", ShowSummary(c),
           UNCHANGED <<session, open>>
    PROVE  StudyInv'
<1>1. /\ c \in StudyCall /\ c.asks = "summary" /\ c.reply \in Refused .. QueueSize
      /\ screen \in StudyScreen /\ calls' = calls \ {c} /\ doubt' = doubt
      /\ NeverBlank /\ 0 # Refused
  BY Serving, StudyTypes DEF ShowSummary, Others, StudyInv
<1>2. PICK left \in 0 .. QueueSize : left = IF c.purpose = "answer" THEN 0 ELSE screen.card
  BY <1>1, StudyTypes DEF StudyInv
<1>3. PICK over \in BOOLEAN : over <=> screen.summary \/ c.reply # Refused
  OBVIOUS
<1>4. PICK shown : shown = [screen EXCEPT !.summary = over, !.card = left]
  OBVIOUS
<1>5. screen' = Ended(shown, c)
  <2>1. (screen.summary \/ c.reply # Refused) \in BOOLEAN
    BY <1>1 DEF StudyScreen
  <2>2. over = (screen.summary \/ c.reply # Refused)
    BY <1>3, <2>1
  <2> QED BY <1>2, <1>4, <2>2 DEF ShowSummary
<1>6. /\ shown \in StudyScreen /\ shown.busy = screen.busy
      /\ shown.card = left /\ shown.summary = over
  BY <1>1, <1>2, <1>3, <1>4 DEF StudyScreen
<1>7. Fits(c, session, screen, doubt) => Shows(session, shown, doubt)
  BY <1>1, <1>2, <1>3, <1>6 DEF Fits, Shows
<1>8. "loss" \notin doubt => shown.summary
  <2>1. "loss" \notin doubt => c.reply # Refused
    BY <1>1 DEF NeverBlank, Refills
  <2> QED BY <1>3, <1>6, <2>1
<1> QED BY <1>1, <1>5, <1>6, <1>7, <1>8, ShownKeeps

LEMMA ShowErrorKeeps ==
    ASSUME StudyInv, NEW c \in calls, c.mine, c.stage = "replied", ShowError(c),
           UNCHANGED <<session, open>>
    PROVE  StudyInv'
<1>1. /\ c \in StudyCall /\ c.asks \in {"load", "answer", "undo"} /\ c.reply = Refused
      /\ screen \in StudyScreen /\ calls' = calls \ {c} /\ doubt' = doubt
      /\ screen' = Ended(screen, c) /\ CurrentCard(session) \in 0 .. QueueSize
      /\ NeverBlank /\ Staged(c)
      /\ \A n \in 0 .. QueueSize : n # Refused
  BY Serving, StudyTypes DEF ShowError, Others, StudyInv
<1>2. ~Fits(c, session, screen, doubt)
  <2>1. 0 # Refused /\ CurrentCard(session) # Refused
    BY <1>1 DEF Refused
  <2> QED BY <1>1, <2>1 DEF Fits
<1>3. "loss" \notin doubt => ~Refills(c)
  BY <1>1 DEF NeverBlank
<1>4. PICK shown \in StudyScreen : shown = screen
  BY <1>1
<1> QED BY <1>1, <1>2, <1>3, <1>4, ShownKeeps

\* The call c goes on to ask for what fills the screen: n.
LEMMA AskedNextKeeps ==
    ASSUME StudyInv, NEW c \in calls, c.mine, UNCHANGED <<session, open>>,
           NEW n \in StudyCall, n.mine, n.purpose = c.purpose, n.asks \in {"load", "summary"},
           n.stage = "sent", calls' = (calls \ {c}) \cup {n},
           screen' \in StudyScreen, screen'.busy = screen.busy,
           doubt' \subseteq Doubts, "orphan" \in doubt => "orphan" \in doubt',
           Calm(doubt') => calls \ {c} = {},
           "loss" \notin doubt' => "loss" \notin doubt \/ calls \ {c} = {},
           Calm(doubt') => Fits(n, session, screen', doubt')
    PROVE  StudyInv'
<1>1. /\ StudyTypeOK /\ OneDecides /\ InOrder /\ Follows /\ NeverBlank
      /\ \A e \in calls : Staged(e) /\ (e.mine => open)
      /\ c \in StudyCall
  BY Serving DEF StudyInv
<1>2. StudyTypeOK'
  <2>1. calls' \subseteq StudyCall
    BY <1>1, StudyTypes
  <2> QED BY <1>1, <2>1 DEF StudyTypeOK, StudyScreen
<1>3. \A e \in calls' : Staged(e) /\ (e.mine => open')
  <2>1. Staged(n)
    BY DEF Staged
  <2> QED BY <1>1, <2>1
<1>4. OneDecides'
  BY <1>1, NextAskKeepsOne
<1>5. InOrder'
  <2>1. \A e \in calls' : e \in calls \/ (e.mine /\ e.stage \notin {"found", "stamped"})
    OBVIOUS
  <2> QED BY <1>1, <2>1, OrderStays
<1>6. Follows'
  <2> SUFFICES ASSUME Calm(doubt') PROVE Follows'
    BY DEF Follows
  <2>1. calls' = {n} /\ open'
    BY <1>1
  <2>2. Fits(n, session', screen', doubt')
    OBVIOUS
  <2> QED BY <2>1, <2>2 DEF Follows
<1>7. NeverBlank'
  <2> SUFFICES ASSUME "loss" \notin doubt' PROVE NeverBlank'
    BY DEF NeverBlank
  <2>1. n \in calls' /\ Refills(n) /\ n.stage # "replied"
    BY DEF Refills
  <2>2. \A e \in calls' : Refills(e) /\ e.stage = "replied" => e.reply # Refused
    BY <1>1, <2>1 DEF NeverBlank
  <2> QED BY <2>1, <2>2 DEF NeverBlank
<1> QED BY <1>2, <1>3, <1>4, <1>5, <1>6, <1>7 DEF StudyInv

\* No card is left: the summary is asked for, and none is what the session has.
LEMMA AskSummaryKeeps ==
    ASSUME StudyInv, NEW c \in calls, c.mine, c.stage = "replied", AskSummary(c),
           UNCHANGED <<session, open>>
    PROVE  StudyInv'
<1>1. /\ c \in StudyCall /\ c.asks \in {"load", "answer"} /\ c.reply = 0
      /\ screen \in StudyScreen /\ doubt' = doubt /\ doubt \subseteq Doubts
      /\ AskNext(c, "summary") /\ Follows /\ Staged(c)
      /\ screen' = IF c.asks = "load" THEN [screen EXCEPT !.card = 0] ELSE screen
  BY Serving, StudyTypes DEF AskSummary, StudyInv
<1>2. PICK n \in StudyCall :
         /\ n.mine = c.mine /\ n.purpose = c.purpose /\ n.asks = "summary" /\ n.stage = "sent"
         /\ calls' = (calls \ {c}) \cup {n}
  BY <1>1, AskNextFacts DEF Questions
<1>3. /\ screen' \in StudyScreen /\ screen'.busy = screen.busy
      /\ c.asks = "load" => screen'.card = 0
  <2>1. CASE c.asks = "load"
    BY <1>1, <2>1, Serving DEF StudyScreen
  <2>2. CASE c.asks # "load"
    BY <1>1, <2>2
  <2> QED BY <2>1, <2>2
<1>4. ASSUME Calm(doubt) PROVE calls \ {c} = {} /\ Fits(n, session, screen', doubt)
  <2>1. calls \ {c} = {} /\ Fits(c, session, screen, doubt)
    BY <1>1, <1>4, OnlyCall
  <2>2. CurrentCard(session) = 0 /\ (c.asks = "answer" => c.purpose = "answer")
    BY <1>1, <2>1 DEF Fits, Staged
  <2> QED BY <1>1, <1>2, <1>3, <2>1, <2>2 DEF Fits
<1> QED BY <1>1, <1>2, <1>3, <1>4, AskedNextKeeps

\* An undo was answered: the session is loaded again.  With nothing else under
\* way, what overlapped or got lost before no longer matters.
LEMMA LoadAfterUndoKeeps ==
    ASSUME StudyInv, NEW c \in calls, c.mine, c.stage = "replied", LoadAfterUndo(c),
           UNCHANGED <<session, open>>
    PROVE  StudyInv'
<1>1. /\ c \in StudyCall /\ c.asks = "undo" /\ screen \in StudyScreen /\ doubt \subseteq Doubts
      /\ AskNext(c, "load") /\ Follows /\ c.knew \in BOOLEAN /\ screen.summary \in BOOLEAN
  BY Serving, StudyTypes DEF LoadAfterUndo, StudyInv, StudyCall
<1>2. PICK over \in BOOLEAN : over <=> screen.summary /\ ~c.knew
  OBVIOUS
<1>3. screen' = [screen EXCEPT !.summary = over]
  <2>1. over = (screen.summary /\ ~c.knew)
    BY <1>1, <1>2
  <2> QED BY <2>1 DEF LoadAfterUndo
<1>4. doubt' = (IF calls \ {c} = {} THEN doubt \cap {"orphan"} ELSE doubt)
               \cup (IF over THEN {"kept"} ELSE {})
  BY <1>2 DEF LoadAfterUndo, Reloading, Others
<1>5. PICK n \in StudyCall :
         /\ n.mine = c.mine /\ n.purpose = c.purpose /\ n.asks = "load" /\ n.stage = "sent"
         /\ calls' = (calls \ {c}) \cup {n}
  BY <1>1, AskNextFacts DEF Questions
<1>6. screen' \in StudyScreen /\ screen'.busy = screen.busy /\ screen'.summary = over
  BY <1>1, <1>3 DEF StudyScreen
<1>7. /\ doubt' \subseteq Doubts /\ ("orphan" \in doubt => "orphan" \in doubt')
      /\ "loss" \notin doubt' => "loss" \notin doubt \/ calls \ {c} = {}
      /\ over => "kept" \in doubt'
  <2>1. CASE calls \ {c} = {}
    BY <1>1, <1>4, <2>1 DEF Doubts
  <2>2. CASE calls \ {c} # {}
    BY <1>1, <1>4, <2>2 DEF Doubts
  <2> QED BY <2>1, <2>2
<1>8. Calm(doubt') => calls \ {c} = {}
  <2>1. ASSUME Calm(doubt'), calls \ {c} # {} PROVE FALSE
    <3>1. Calm(doubt)
      BY <1>4, <2>1 DEF Calm
    <3> QED BY <1>1, <2>1, <3>1, OnlyCall
  <2> QED BY <2>1
<1>9. Fits(n, session, screen', doubt')
  BY <1>5, <1>6, <1>7 DEF Fits, Plain
<1> QED BY <1>5, <1>6, <1>7, <1>8, <1>9, AskedNextKeeps

LEMMA LeavePageKeeps == ASSUME StudyInv, NEW c \in calls, LeavePage(c) PROVE StudyInv'
<1>1. /\ StudyTypeOK /\ OneDecides /\ InOrder /\ Follows /\ NeverBlank
      /\ \A e \in calls : Staged(e) /\ (e.mine => open)
  BY DEF StudyInv
<1> DEFINE left == LeftBehind(calls)
           orphaned == Orphaned(calls)
<1>2. /\ open' = FALSE /\ screen' = BlankScreen /\ calls' = left /\ session' = session
      /\ doubt' = doubt \cup orphaned /\ c.stage = "replied"
  BY DEF LeavePage
<1>3. /\ left \subseteq StudyCall /\ orphaned \subseteq {"orphan"}
      /\ \A d \in left : ~d.mine /\ Staged(d) /\ d.stage # "replied"
      /\ (\A d \in calls : d.stage = "replied") => left = {}
      /\ "orphan" \notin orphaned => \A d \in left : d.asks \notin {"answer", "undo"}
  BY <1>1, StudyTypes, LeftBehindAre
<1> HIDE DEF left, orphaned
<1>4. StudyTypeOK'
  <2>1. calls' \subseteq StudyCall /\ screen' \in StudyScreen /\ doubt' \subseteq Doubts
    BY <1>1, <1>2, <1>3, StudyTypes DEF Doubts
  <2> QED BY <1>1, <1>2, <2>1 DEF StudyTypeOK, StudyScreen
<1>5. \A e \in calls' : Staged(e) /\ (e.mine => open')
  BY <1>2, <1>3
<1>6. OneDecides'
  <2>1. Deciding' = {}
    BY <1>2, <1>3 DEF Deciding
  <2> QED BY <1>2, <2>1 DEF OneDecides, BlankScreen
<1>7. InOrder'
  <2>1. "orphan" \notin doubt' => \A e \in calls' :
           (e.asks \in {"answer", "undo"} => e.mine) /\ e.stage \notin {"found", "stamped"}
    BY <1>2, <1>3 DEF Staged
  <2> QED BY <1>1, <1>2, <2>1, OrderStays
<1>8. Follows'
  <2> SUFFICES ASSUME Calm(doubt') PROVE Follows'
    BY DEF Follows
  <2>1. calls = {c}
    BY <1>1, <1>2, OnlyCall DEF Calm
  <2>2. calls' = {}
    BY <1>2, <1>3, <2>1
  <2> QED BY <1>2, <2>2 DEF Follows
<1>9. NeverBlank'
  BY <1>2, <1>3 DEF NeverBlank, Refills
<1> QED BY <1>4, <1>5, <1>6, <1>7, <1>8, <1>9 DEF StudyInv

\* A call fails: from here on there is doubt.
LEMMA FailCallKeeps == ASSUME StudyInv, NEW c \in calls, FailCall(c) PROVE StudyInv'
<1>1. /\ StudyTypeOK /\ OneDecides /\ InOrder
      /\ \A e \in calls : Staged(e) /\ (e.mine => open)
      /\ c \in StudyCall /\ screen \in StudyScreen /\ calls \subseteq StudyCall /\ doubt \subseteq Doubts
  BY Serving, StudyTypes DEF StudyInv
<1> DEFINE left == LeftBehind({c})
           orphaned == Orphaned({c})
<1>2. /\ c.mine /\ screen' = Ended(screen, c) /\ calls' = (calls \ {c}) \cup left
      /\ doubt' = doubt \cup {"loss"} \cup orphaned /\ UNCHANGED <<session, open>>
  BY DEF FailCall, Others
<1>3. /\ left \subseteq StudyCall /\ orphaned \subseteq {"orphan"}
      /\ \A d \in left : ~d.mine /\ Staged(d) /\ d.stage # "replied"
      /\ "orphan" \notin orphaned => \A d \in left : d.asks \notin {"answer", "undo"}
  <2>1. {c} \subseteq StudyCall /\ \A d \in {c} : Staged(d)
    BY <1>1
  <2> QED BY <2>1, LeftBehindAre
<1> HIDE DEF left, orphaned
<1>4. PICK shown \in StudyScreen : shown = screen
  BY <1>1
<1>5. /\ screen' \in StudyScreen
      /\ c.purpose \in {"answer", "undo"} => ~screen'.busy
      /\ c.purpose \notin {"answer", "undo"} => screen'.busy = screen.busy
  BY <1>1, <1>2, <1>4, EndedScreen
<1>6. StudyTypeOK'
  <2>1. calls' \subseteq StudyCall /\ doubt' \subseteq Doubts
    BY <1>1, <1>2, <1>3 DEF Doubts
  <2> QED BY <1>1, <1>2, <1>5, <2>1 DEF StudyTypeOK, StudyScreen
<1>7. \A e \in calls' : Staged(e) /\ (e.mine => open')
  BY <1>1, <1>2, <1>3
<1>8. OneDecides'
  BY <1>1, <1>2, <1>3, <1>5, EndKeepsOne
<1>9. InOrder'
  <2>1. "orphan" \notin doubt' => \A e \in calls' : \/ e \in calls
                                            \/ /\ e.asks \in {"answer", "undo"} => e.mine
                                               /\ e.stage \notin {"found", "stamped"}
    BY <1>2, <1>3 DEF Staged
  <2> QED BY <1>1, <1>2, <2>1, OrderStays
<1>10. Follows' /\ NeverBlank'
  BY <1>2 DEF Follows, Calm, NeverBlank
<1> QED BY <1>6, <1>7, <1>8, <1>9, <1>10 DEF StudyInv

LEMMA StudyStep == StudyInv /\ [StudyNext]_studyVars => StudyInv'
<1> SUFFICES ASSUME StudyInv, [StudyNext]_studyVars PROVE StudyInv'
  OBVIOUS
<1>1. CASE OpenPage \/ Reveal \/ AnswerCard \/ UndoAnswer \/ ExitPage
  BY <1>1, OpenPageKeeps, RevealKeeps, AnswerCardKeeps, UndoAnswerKeeps, ExitPageKeeps
<1>2. ASSUME NEW c \in calls,
             Serve(c) \/ FailServer(c) \/ DropCall(c) \/ LeavePage(c) \/ FailCall(c)
      PROVE  StudyInv'
  BY <1>2, ServeKeeps, FailServerKeeps, DropCallKeeps, LeavePageKeeps, FailCallKeeps
<1>3. ASSUME NEW c \in calls, Receive(c) PROVE StudyInv'
  <2>1. /\ c.mine /\ c.stage = "replied" /\ UNCHANGED <<session, open>>
        /\ ShowCard(c) \/ AskSummary(c) \/ ShowSummary(c) \/ ShowError(c) \/ LoadAfterUndo(c)
    BY <1>3 DEF Receive
  <2> QED BY <2>1, ShowCardKeeps, AskSummaryKeeps, ShowSummaryKeeps, ShowErrorKeeps,
             LoadAfterUndoKeeps
<1>4. CASE UNCHANGED studyVars
  <2>1. /\ session' = session /\ screen' = screen /\ open' = open /\ calls' = calls
        /\ doubt' = doubt
    BY <1>4 DEF studyVars
  <2>2. StudyTypeOK' /\ OneDecides' /\ InOrder' /\ Follows' /\ NeverBlank'
    BY <2>1 DEF StudyInv, StudyTypeOK, OneDecides, Deciding, InOrder, Follows, NeverBlank
  <2> QED BY <2>1, <2>2 DEF StudyInv
<1> QED BY <1>1, <1>2, <1>3, <1>4 DEF StudyNext

\* StudyPage: for a queue of any length and any number of calls, cards are graded
\* in the order of the queue as long as no answer or undo is left behind; the
\* page is busy exactly while an answer or an undo is under way; with no reply
\* lost it is never blank at rest; and if no requests overlapped either, it shows
\* the card its session is at.
THEOREM PageShowsItsSession == StudySpec => []PageFollowsSession
<1>1. ASSUME StudyInv PROVE PageFollowsSession
  <2>1. OneDecides /\ InOrder /\ Follows /\ NeverBlank /\ StudyTypeOK
        /\ \A c \in calls : c.mine \in BOOLEAN
    BY <1>1, Serving DEF StudyInv
  <2>2. "orphan" \notin doubt => \A i \in DOMAIN session.log : session.log[i].card = i
    BY <2>1 DEF InOrder, Sorted
  <2>3. screen.busy <=> \E c \in Mine : c.purpose \in {"answer", "undo"}
    BY <2>1 DEF OneDecides, Deciding, Mine
  <2>4. ASSUME AtRest, "loss" \notin doubt
        PROVE  /\ screen.card # 0 \/ screen.summary
               /\ "overlap" \notin doubt => Shows(session, screen, doubt)
    <3>1. screen.card # 0 \/ screen.summary
      BY <2>1, <2>4 DEF AtRest, NeverBlank, Refills, Mine
    <3>2. ASSUME "overlap" \notin doubt PROVE Shows(session, screen, doubt)
      <4>1. calls = {} /\ open
        BY <2>1, <2>4, <3>2 DEF AtRest, Follows, Calm, Mine
      <4> QED BY <2>1, <2>4, <3>2, <4>1 DEF Follows, Calm
    <3> QED BY <3>1, <3>2
  <2> QED BY <2>2, <2>3, <2>4 DEF PageFollowsSession, Shows
<1> QED BY <1>1, StudyStarts, StudyStep, PTL DEF StudySpec

--------------------------------------------------------------------------------
(***************************************************************************)
(* The client state of dictionary search                                   *)
(***************************************************************************)
Result == [query : Queries, status : {"idle", "loading", "success", "error"}, of : SUBSET Words]
Popup == [open : Words \cup {Closed}, timer : BOOLEAN, result : Result]
Page == [loading : BOOLEAN, failed : BOOLEAN, of : SUBSET Searches]

\* The requests whose answer would count.
Current(m) == {c \in m.requests : c.number = m.newest}

Numbered(m) == \A c \in m.requests : c.number <= m.newest

\* The page r of a manager m at the search u, with f for the timer: what is
\* under way is not aborted, and is about u unless the timer runs.
PageInv(m, u, f, r) ==
    /\ \A c \in Current(m) : ~c.aborted /\ (~f => c.asked = u)
    /\ r.loading => f \/ Current(m) # {}
    /\ ~(r.loading \/ r.failed \/ f) => r.of = {u}

\* A popup p that is open for the text d and has nothing to show for it.
Waits(p, d) == d # Blank /\ p.open = d /\ (p.result.query # d \/ p.result.status = "loading")

\* The popup p of a manager m at the text d: what is under way is not aborted
\* and is about d, for every change of the text cancels.
PopupInv(m, d, p) ==
    /\ \A c \in Current(m) : ~c.aborted /\ c.asked = d
    /\ p.timer => d # Blank
    /\ p.result.status = "success" => p.result.of = {p.result.query}
    /\ Waits(p, d) => p.timer \/ Current(m) # {}

SearchInv ==
    /\ SearchTypeOK
    /\ \A m \in Managers : Numbered(manager[m])
    /\ PageInv(manager["results"], url, refresh, results)
    /\ PopupInv(manager["suggestions"], draft, popup)

--------------------------------------------------------------------------------
(* What the managers do, whatever they ask for.                            *)

LEMMA AskFacts ==
    ASSUME NEW what, NEW m \in Asks(what), NEW asked \in what,
           m.newest < MaxRequests, Numbered(m)
    PROVE  /\ Ask(m, asked) \in Asks(what)
           /\ Numbered(Ask(m, asked))
           /\ Current(Ask(m, asked)) # {}
           /\ \A c \in Current(Ask(m, asked)) : c.asked = asked /\ ~c.aborted
<1> DEFINE new == [number |-> m.newest + 1, asked |-> asked, aborted |-> FALSE]
<1>1. m.newest \in Nat /\ m.newest + 1 \in 0 .. MaxRequests
    BY SearchAssumption DEF Asks
<1>2. \A c \in m.requests : c.number \in Nat /\ c.number <= m.newest
    BY DEF Asks, Numbered
<1>3. /\ Aborted(m.requests) \subseteq
             [number : 0 .. MaxRequests, asked : what, aborted : BOOLEAN]
      /\ \A c \in Aborted(m.requests) : c.number \in Nat /\ c.number <= m.newest
    BY <1>2 DEF Asks, Aborted
<1>4. /\ Ask(m, asked).newest = m.newest + 1
      /\ Ask(m, asked).requests = Aborted(m.requests) \cup {new}
      /\ Ask(m, asked) = [newest |-> m.newest + 1, requests |-> Aborted(m.requests) \cup {new}]
    BY DEF Ask
<1>5. new \in [number : 0 .. MaxRequests, asked : what, aborted : BOOLEAN]
    BY <1>1
<1>6. new.number = m.newest + 1 /\ new.asked = asked /\ new.aborted = FALSE
    OBVIOUS
<1> HIDE DEF new
<1>7. Ask(m, asked) \in Asks(what)
    BY <1>1, <1>3, <1>4, <1>5 DEF Asks
<1>8. Numbered(Ask(m, asked))
    BY <1>1, <1>3, <1>4, <1>6 DEF Numbered
<1>9. Current(Ask(m, asked)) = {new}
    BY <1>1, <1>3, <1>4, <1>6 DEF Current
<1> QED BY <1>6, <1>7, <1>8, <1>9

LEMMA CancelFacts ==
    ASSUME NEW what, NEW m \in Asks(what), m.newest < MaxRequests, Numbered(m)
    PROVE  /\ Cancel(m) \in Asks(what)
           /\ Numbered(Cancel(m))
           /\ Current(Cancel(m)) = {}
<1>1. m.newest \in Nat /\ m.newest + 1 \in 0 .. MaxRequests
    BY SearchAssumption DEF Asks
<1>2. \A c \in m.requests : c.number \in Nat /\ c.number <= m.newest
    BY DEF Asks, Numbered
<1>3. /\ Aborted(m.requests) \subseteq
             [number : 0 .. MaxRequests, asked : what, aborted : BOOLEAN]
      /\ \A c \in Aborted(m.requests) : c.number \in Nat /\ c.number <= m.newest
    BY <1>2 DEF Asks, Aborted
<1>4. /\ Cancel(m).newest = m.newest + 1
      /\ Cancel(m).requests = Aborted(m.requests)
      /\ Cancel(m) = [newest |-> m.newest + 1, requests |-> Aborted(m.requests)]
    BY DEF Cancel
<1> QED BY <1>1, <1>3, <1>4 DEF Asks, Numbered, Current

LEMMA AnsweredFacts ==
    ASSUME NEW what, NEW m \in Asks(what), NEW c, Numbered(m)
    PROVE  /\ Answered(m, c) \in Asks(what)
           /\ Numbered(Answered(m, c))
           /\ Current(Answered(m, c)) = Current(m) \ {c}
<1>1. /\ Answered(m, c).newest = m.newest
      /\ Answered(m, c).requests = m.requests \ {c}
      /\ Answered(m, c) \in Asks(what)
    BY DEF Answered, Asks
<1> QED BY <1>1 DEF Numbered, Current

--------------------------------------------------------------------------------
(* Steps are put together from what they do to each half.                  *)

\* The managers after a step, and what is left of each half of the invariant.
LEMMA Halves ==
    ASSUME SearchInv,
           url' \in Searches, draft' \in Queries, refresh' \in BOOLEAN,
           results' \in Page, popup' \in Popup,
           NEW R \in Asks(Searches), NEW G \in Asks(Words), Numbered(R), Numbered(G),
           manager' = [manager EXCEPT !["results"] = R, !["suggestions"] = G],
           PageInv(R, url', refresh', results'),
           PopupInv(G, draft', popup')
    PROVE  SearchInv'
<1>1. /\ manager'["results"] = R /\ manager'["suggestions"] = G
      /\ manager' = [m \in Managers |-> manager'[m]]
    <2>1. manager = [m \in Managers |-> manager[m]]
        BY DEF SearchInv, SearchTypeOK
    <2> QED BY <2>1 DEF Managers
<1>2. SearchTypeOK'
    BY <1>1 DEF SearchTypeOK, Page, Popup, Result
<1>3. \A m \in Managers : Numbered(manager'[m])
    BY <1>1 DEF Managers
<1> QED BY <1>1, <1>2, <1>3 DEF SearchInv

\* What the steps start from.
LEMMA Before ==
    ASSUME SearchInv
    PROVE  /\ url \in Searches /\ draft \in Queries /\ refresh \in BOOLEAN
           /\ results \in Page /\ popup \in Popup
           /\ manager["results"] \in Asks(Searches) /\ Numbered(manager["results"])
           /\ manager["suggestions"] \in Asks(Words) /\ Numbered(manager["suggestions"])
           /\ PageInv(manager["results"], url, refresh, results)
           /\ PopupInv(manager["suggestions"], draft, popup)
           /\ manager = [m \in Managers |-> manager[m]]
BY DEF SearchInv, SearchTypeOK, Managers, Page, Popup, Result

\* A step that leaves one manager alone changes both, that one to what it is.
LEMMA OneManager ==
    ASSUME SearchInv, NEW x
    PROVE  /\ [manager EXCEPT !["results"] = x]
                = [manager EXCEPT !["results"] = x, !["suggestions"] = manager["suggestions"]]
           /\ [manager EXCEPT !["suggestions"] = x]
                = [manager EXCEPT !["results"] = manager["results"], !["suggestions"] = x]
           /\ manager = [manager EXCEPT !["results"] = manager["results"],
                                        !["suggestions"] = manager["suggestions"]]
BY Before DEF Managers

LEMMA NoResultType ==
    ASSUME NEW q \in Queries, NEW s \in {"idle", "loading", "error"}
    PROVE  /\ NoResult(q, s) \in Result
           /\ NoResult(q, s).query = q /\ NoResult(q, s).status = s
BY DEF NoResult, Result, Unanswered

LEMMA SearchStarts == SearchInit => SearchInv
<1> SUFFICES ASSUME SearchInit PROVE SearchInv
    OBVIOUS
<1> DEFINE none == [newest |-> 0, requests |-> {}]
<1>1. \A what : none \in Asks(what)
    BY SearchAssumption DEF Asks
<1>2. manager = [m \in Managers |-> none]
    BY DEF SearchInit
<1>3. Numbered(none) /\ Current(none) = {}
    BY DEF Numbered, Current
<1> HIDE DEF none
<1>4. draft \in Queries /\ Closed # Blank
    BY DEF SearchInit, Searches, Closed, Blank
<1>5. popup \in Popup /\ ~popup.timer /\ popup.open = Closed /\ popup.result.status = "idle"
    BY <1>4, NoResultType DEF SearchInit, Popup
<1>6. SearchTypeOK
    BY <1>1, <1>2, <1>4, <1>5 DEF SearchInit, SearchTypeOK, Popup, Result, Managers, Unanswered
<1>7. PageInv(manager["results"], url, refresh, results)
    BY <1>2, <1>3 DEF PageInv, SearchInit, Managers
<1>8. PopupInv(manager["suggestions"], draft, popup)
    BY <1>2, <1>3, <1>4, <1>5, SearchAssumption DEF PopupInv, Waits, Managers, Queries
<1> QED BY <1>2, <1>3, <1>6, <1>7, <1>8 DEF SearchInv

--------------------------------------------------------------------------------
(* The results. *)

\* A fetch asks for the search the page is at, whoever starts it.
LEMMA FetchFacts ==
    ASSUME SearchInv, MayNumber("results"), NEW f \in BOOLEAN,
           results' = [results EXCEPT !.loading = TRUE, !.failed = FALSE]
    PROVE  /\ Ask(manager["results"], url) \in Asks(Searches)
           /\ Numbered(Ask(manager["results"], url))
           /\ results' \in Page
           /\ PageInv(Ask(manager["results"], url), url, f, results')
<1>1. manager["results"].newest < MaxRequests
    BY DEF MayNumber
<1>2. results' \in Page /\ results'.loading
    BY Before DEF Page
<1> QED BY <1>1, <1>2, Before, AskFacts DEF PageInv

LEMMA RefreshKeeps ==
    ASSUME SearchInv, RunRefresh \/ Retry
    PROVE  SearchInv'
<1> DEFINE R == Ask(manager["results"], url)
           G == manager["suggestions"]
<1>1. /\ MayNumber("results")
      /\ results' = [results EXCEPT !.loading = TRUE, !.failed = FALSE]
      /\ manager' = [manager EXCEPT !["results"] = R]
      /\ refresh' \in BOOLEAN
      /\ url' = url /\ draft' = draft /\ popup' = popup
    BY Before DEF RunRefresh, Retry, FetchEntries
<1>2. manager' = [manager EXCEPT !["results"] = R, !["suggestions"] = G]
    BY <1>1, OneManager
<1>3. /\ R \in Asks(Searches) /\ Numbered(R)
      /\ results' \in Page /\ PageInv(R, url', refresh', results')
    BY <1>1, FetchFacts
<1>4. PopupInv(G, draft', popup') /\ G \in Asks(Words) /\ Numbered(G)
    BY <1>1, Before
<1> HIDE DEF R, G
<1> QED BY <1>1, <1>2, <1>3, <1>4, Before, Halves

\* A late answer changes nothing; the one that counts was never aborted, and is
\* about the search in the URL unless the timer runs.
LEMMA AnswerResultsKeeps ==
    ASSUME SearchInv, NEW c \in manager["results"].requests, NEW outcome \in Outcomes(c),
           AnswerResults(c, outcome)
    PROVE  SearchInv'
<1> DEFINE m == manager["results"]
           R == Answered(m, c)
           G == manager["suggestions"]
<1>1. /\ manager' = [manager EXCEPT !["results"] = R]
      /\ results' = IF c.number # m.newest THEN results
                    ELSE [loading |-> FALSE, failed |-> outcome = "failed",
                          of |-> IF outcome = "ok" THEN {c.asked} ELSE results.of]
      /\ url' = url /\ draft' = draft /\ refresh' = refresh /\ popup' = popup
    BY DEF AnswerResults
<1>2. manager' = [manager EXCEPT !["results"] = R, !["suggestions"] = G]
    BY <1>1, OneManager
<1>3. R \in Asks(Searches) /\ Numbered(R) /\ Current(R) = Current(m) \ {c}
    BY Before, AnsweredFacts
<1>4. c.asked \in Searches /\ (c \in Current(m) <=> c.number = m.newest)
    BY Before DEF Asks, Current
<1>5. results \in Page /\ PageInv(m, url, refresh, results)
    BY Before
<1>6. PopupInv(G, draft', popup') /\ G \in Asks(Words) /\ Numbered(G)
    BY <1>1, Before
<1> HIDE DEF R, G
<1>7. CASE c.number # m.newest
    <2>1. results' = results /\ Current(R) = Current(m)
        BY <1>1, <1>3, <1>4, <1>7
    <2>2. PageInv(R, url', refresh', results')
        BY <1>1, <1>5, <2>1 DEF PageInv
    <2> QED BY <1>1, <1>2, <1>3, <1>5, <1>6, <2>1, <2>2, Before, Halves
<1>8. CASE c.number = m.newest
    <2>1. ~c.aborted /\ (~refresh => c.asked = url)
        BY <1>4, <1>5, <1>8 DEF PageInv
    <2>2. outcome \in {"ok", "failed"}
        BY <2>1 DEF Outcomes
    <2>3. results' = [loading |-> FALSE, failed |-> outcome = "failed",
                      of |-> IF outcome = "ok" THEN {c.asked} ELSE results.of]
        BY <1>1, <1>8
    <2>4. results' \in Page
        BY <1>4, <1>5, <2>3 DEF Page
    <2>5. PageInv(R, url', refresh', results')
        <3>1. \A d \in Current(R) : ~d.aborted /\ (~refresh => d.asked = url)
            BY <1>3, <1>5 DEF PageInv
        <3>2. results'.loading = FALSE /\ results'.failed = (outcome = "failed")
            BY <2>3
        <3>3. outcome = "ok" /\ ~refresh => results'.of = {url}
            BY <2>1, <2>3
        <3> QED BY <1>1, <2>2, <3>1, <3>2, <3>3 DEF PageInv
    <2> QED BY <1>1, <1>2, <1>3, <1>6, <2>4, <2>5, Before, Halves
<1> QED BY <1>7, <1>8

--------------------------------------------------------------------------------
(* The suggestions. *)

\* With nothing under way any more, a popup is sound if it does not wait, or
\* its timer runs.
LEMMA CancelledPopup ==
    ASSUME SearchInv, MayNumber("suggestions"), NEW d, NEW p,
           p.timer => d # Blank,
           p.result.status = "success" => p.result.of = {p.result.query},
           Waits(p, d) => p.timer
    PROVE  /\ Cancel(manager["suggestions"]) \in Asks(Words)
           /\ Numbered(Cancel(manager["suggestions"]))
           /\ PopupInv(Cancel(manager["suggestions"]), d, p)
<1>1. manager["suggestions"].newest < MaxRequests
    BY DEF MayNumber
<1> QED BY <1>1, Before, CancelFacts DEF PopupInv

\* A step that cancels the suggestions and leaves the results alone.
LEMMA CancelKeeps ==
    ASSUME SearchInv, CancelSuggestions,
           url' \in Searches, draft' \in Queries, refresh' \in BOOLEAN, popup' \in Popup,
           results' = results,
           PageInv(manager["results"], url', refresh', results),
           popup'.timer => draft' # Blank,
           popup'.result.status = "success" => popup'.result.of = {popup'.result.query},
           Waits(popup', draft') => popup'.timer
    PROVE  SearchInv'
<1> DEFINE R == manager["results"]
           G == Cancel(manager["suggestions"])
<1>1. MayNumber("suggestions") /\ manager' = [manager EXCEPT !["suggestions"] = G]
    BY DEF CancelSuggestions
<1>2. manager' = [manager EXCEPT !["results"] = R, !["suggestions"] = G]
    BY <1>1, OneManager
<1>3. G \in Asks(Words) /\ Numbered(G) /\ PopupInv(G, draft', popup')
    BY <1>1, CancelledPopup
<1>4. R \in Asks(Searches) /\ Numbered(R) /\ results' \in Page
    BY Before
<1> HIDE DEF R, G
<1>5. PageInv(R, url', refresh', results')
    BY DEF R
<1> QED BY <1>2, <1>3, <1>4, <1>5, Halves

LEMMA TypeKeeps ==
    ASSUME SearchInv, NEW q \in Queries, Type(q)
    PROVE  SearchInv'
<1> DEFINE s == IF q = Blank THEN "idle" ELSE "loading"
           o == IF q = Blank THEN Closed ELSE q
<1>1. /\ draft' = q /\ CancelSuggestions
      /\ popup' = [open |-> o, result |-> NoResult(q, s), timer |-> q # Blank]
      /\ url' = url /\ results' = results /\ refresh' = refresh
    BY DEF Type
<1>2. NoResult(q, s) \in Result /\ NoResult(q, s).status = s
    BY NoResultType
<1>3. o \in Words \cup {Closed}
    BY DEF Queries
<1>4. popup' \in Popup
    BY <1>1, <1>2, <1>3 DEF Popup
<1>5. popup'.timer = (q # Blank) /\ popup'.result.status # "success"
    BY <1>1, <1>2
<1>6. Waits(popup', draft') => popup'.timer
    BY <1>1, <1>5 DEF Waits
<1> QED BY <1>1, <1>4, <1>5, <1>6, Before, CancelKeeps

LEMMA OpenKeeps ==
    ASSUME SearchInv, Focus \/ RetrySuggestions
    PROVE  SearchInv'
<1>1. /\ draft # Blank /\ CancelSuggestions
      /\ url' = url /\ draft' = draft /\ results' = results /\ refresh' = refresh
      /\ \/ popup' = [open |-> draft, result |-> NoResult(draft, "loading"), timer |-> TRUE]
         \/ popup' = [popup EXCEPT !.result = NoResult(draft, "loading"), !.timer = TRUE]
    BY DEF Focus, RetrySuggestions, PopupOpen
<1>2. draft \in Words /\ popup \in Popup
    BY <1>1, Before DEF Queries
<1>3. NoResult(draft, "loading") \in Result /\ NoResult(draft, "loading").status = "loading"
    BY <1>2, NoResultType DEF Queries
<1> DEFINE n == NoResult(draft, "loading")
<1> HIDE DEF n
<1>4. popup' \in Popup /\ popup'.timer /\ popup'.result = n
    <2>1. n \in Result
        BY <1>3 DEF n
    <2>2. CASE popup' = [open |-> draft, result |-> n, timer |-> TRUE]
        BY <1>2, <2>1, <2>2 DEF Popup
    <2>3. CASE popup' = [popup EXCEPT !.result = n, !.timer = TRUE]
        BY <1>2, <2>1, <2>3 DEF Popup
    <2> QED BY <1>1, <2>2, <2>3 DEF n
<1>5. popup'.result.status = "loading"
    BY <1>3, <1>4 DEF n
<1> QED BY <1>1, <1>4, <1>5, Before, CancelKeeps

\* A closed popup waits for nothing.
LEMMA DismissedFacts ==
    ASSUME SearchInv, Dismissed
    PROVE  /\ popup' \in Popup /\ popup'.timer = FALSE
           /\ popup'.result.status = "idle" /\ \A d \in Queries : ~Waits(popup', d)
<1>1. popup' = [open |-> Closed, result |-> NoResult(draft, "idle"), timer |-> FALSE]
    BY DEF Dismissed
<1>2. NoResult(draft, "idle") \in Result /\ NoResult(draft, "idle").status = "idle"
    BY Before, NoResultType
<1>3. \A d \in Queries : d # Blank => d # Closed
    BY SearchAssumption DEF Queries
<1> QED BY <1>1, <1>2, <1>3 DEF Popup, Waits

\* Both managers at once: the search that is committed already is asked again.
LEMMA FetchAndCancelKeeps ==
    ASSUME SearchInv, FetchAndCancel, draft' = url.query, draft' \in Queries,
           url' = url, refresh' = refresh, popup' \in Popup,
           popup'.timer => draft' # Blank,
           popup'.result.status = "success" => popup'.result.of = {popup'.result.query},
           Waits(popup', draft') => popup'.timer
    PROVE  SearchInv'
<1> DEFINE R == Ask(manager["results"], url)
           G == Cancel(manager["suggestions"])
<1>1. [url EXCEPT !.query = draft'] = url
    BY Before DEF Searches
<1>2. /\ MayNumber("results") /\ MayNumber("suggestions")
      /\ results' = [results EXCEPT !.loading = TRUE, !.failed = FALSE]
      /\ manager' = [manager EXCEPT !["results"] = R, !["suggestions"] = G]
    BY <1>1 DEF FetchAndCancel, Managers
<1>3. /\ R \in Asks(Searches) /\ Numbered(R) /\ results' \in Page
      /\ PageInv(R, url', refresh', results')
    BY <1>2, Before, FetchFacts
<1>4. G \in Asks(Words) /\ Numbered(G) /\ PopupInv(G, draft', popup')
    BY <1>2, CancelledPopup
<1> HIDE DEF R, G
<1> QED BY <1>2, <1>3, <1>4, Before, Halves

LEMMA DismissKeeps ==
    ASSUME SearchInv, DismissSuggestions \/ Submit
    PROVE  SearchInv'
<1>1. /\ url' = url /\ draft' = draft /\ refresh' = refresh /\ Dismissed
      /\ \/ CancelSuggestions /\ results' = results
         \/ FetchAndCancel /\ draft = url.query
    BY DEF DismissSuggestions, Submit
<1> QED BY <1>1, Before, DismissedFacts, CancelKeeps, FetchAndCancelKeeps

LEMMA ClearKeeps ==
    ASSUME SearchInv, ClearSearch
    PROVE  SearchInv'
<1>1. /\ url' = url /\ refresh' = refresh /\ draft' = Blank
      /\ popup' = [popup EXCEPT !.timer = FALSE]
      /\ \/ CancelSuggestions /\ results' = results
         \/ FetchAndCancel /\ url.query = Blank
    BY DEF ClearSearch
<1>2. popup' \in Popup /\ popup'.timer = FALSE /\ popup'.result = popup.result
    BY <1>1, Before DEF Popup
<1>3. popup'.result.status = "success" => popup'.result.of = {popup'.result.query}
    BY <1>2, Before DEF PopupInv
<1>4. ~Waits(popup', draft') /\ draft' \in Queries
    BY <1>1 DEF Waits, Queries
<1> QED BY <1>1, <1>2, <1>3, <1>4, Before, CancelKeeps, FetchAndCancelKeeps

LEMMA SuggestKeeps ==
    ASSUME SearchInv, RunSuggest
    PROVE  SearchInv'
<1> DEFINE R == manager["results"]
           G == Ask(manager["suggestions"], draft)
<1>1. /\ popup.timer /\ manager["suggestions"].newest < MaxRequests
      /\ popup' = [popup EXCEPT !.result = NoResult(draft, "loading"), !.timer = FALSE]
      /\ manager' = [manager EXCEPT !["suggestions"] = G]
      /\ url' = url /\ draft' = draft /\ results' = results /\ refresh' = refresh
    BY DEF RunSuggest, MayNumber
<1>2. manager' = [manager EXCEPT !["results"] = R, !["suggestions"] = G]
    BY <1>1, OneManager
<1>3. draft \in Words
    BY <1>1, Before DEF PopupInv, Queries
<1>4. /\ G \in Asks(Words) /\ Numbered(G) /\ Current(G) # {}
      /\ \A c \in Current(G) : c.asked = draft /\ ~c.aborted
    BY <1>1, <1>3, Before, AskFacts
<1>5. popup' \in Popup /\ popup'.timer = FALSE /\ popup'.result.status = "loading"
    BY <1>1, Before, NoResultType DEF Popup
<1>6. R \in Asks(Searches) /\ Numbered(R) /\ PageInv(R, url', refresh', results')
    BY <1>1, Before
<1> HIDE DEF R, G
<1>7. PopupInv(G, draft', popup')
    BY <1>1, <1>4, <1>5 DEF PopupInv
<1> QED BY <1>1, <1>2, <1>4, <1>5, <1>6, <1>7, Before, Halves

LEMMA AnswerSuggestionsKeeps ==
    ASSUME SearchInv, NEW c \in manager["suggestions"].requests, NEW outcome \in Outcomes(c),
           AnswerSuggestions(c, outcome)
    PROVE  SearchInv'
<1> DEFINE m == manager["suggestions"]
           R == manager["results"]
           G == Answered(m, c)
           shown == IF outcome = "ok"
                    THEN [query |-> c.asked, status |-> "success", of |-> {c.asked}]
                    ELSE NoResult(c.asked, "error")
<1>1. /\ manager' = [manager EXCEPT !["suggestions"] = G]
      /\ popup' = IF c.number # m.newest \/ outcome = "aborted" THEN popup
                  ELSE [popup EXCEPT !.result = shown]
      /\ url' = url /\ draft' = draft /\ refresh' = refresh /\ results' = results
    BY DEF AnswerSuggestions
<1>2. manager' = [manager EXCEPT !["results"] = R, !["suggestions"] = G]
    BY <1>1, OneManager
<1>3. G \in Asks(Words) /\ Numbered(G) /\ Current(G) = Current(m) \ {c}
    BY Before, AnsweredFacts
<1>4. c.asked \in Words /\ (c \in Current(m) <=> c.number = m.newest)
    BY Before DEF Asks, Current
<1>5. popup \in Popup /\ PopupInv(m, draft, popup)
    BY Before
<1>6. R \in Asks(Searches) /\ Numbered(R) /\ PageInv(R, url', refresh', results')
    BY <1>1, Before
<1>7. /\ shown \in Result /\ shown.query = c.asked /\ shown.status # "loading"
      /\ shown.status = "success" => shown.of = {shown.query}
    <2>1. CASE outcome = "ok"
        BY <1>4, <2>1 DEF Result, Queries
    <2>2. CASE outcome # "ok"
        BY <1>4, <2>2, NoResultType DEF Queries
    <2> QED BY <2>1, <2>2
<1> HIDE DEF R, G, shown
<1>8. CASE c.number # m.newest
    <2>1. popup' = popup /\ Current(G) = Current(m)
        BY <1>1, <1>3, <1>4, <1>8
    <2>2. PopupInv(G, draft', popup')
        BY <1>1, <1>5, <2>1 DEF PopupInv
    <2> QED BY <1>1, <1>2, <1>3, <1>5, <1>6, <2>1, <2>2, Before, Halves
<1>9. CASE c.number = m.newest
    <2>1. ~c.aborted /\ c.asked = draft
        BY <1>4, <1>5, <1>9 DEF PopupInv
    <2>2. popup' = [popup EXCEPT !.result = shown]
        BY <1>1, <1>9, <2>1 DEF Outcomes
    <2>3. popup' \in Popup /\ popup'.result = shown /\ popup'.timer = popup.timer
        BY <1>5, <1>7, <2>2 DEF Popup
    <2>4. ~Waits(popup', draft')
        BY <1>1, <1>7, <2>1, <2>3 DEF Waits
    <2>5. PopupInv(G, draft', popup')
        BY <1>1, <1>3, <1>5, <1>7, <2>3, <2>4 DEF PopupInv
    <2> QED BY <1>1, <1>2, <1>3, <1>6, <2>3, <2>5, Before, Halves
<1> QED BY <1>8, <1>9

--------------------------------------------------------------------------------
(* Both. *)

LEMMA NavigateKeeps ==
    ASSUME SearchInv, NEW s \in Searches, Navigate(s)
    PROVE  SearchInv'
<1>1. /\ url' = s /\ refresh' = TRUE /\ results' = results
      /\ draft' \in {draft, s.query} /\ s.query \in Queries
      /\ IF draft' = draft THEN popup' = popup /\ manager' = manager
         ELSE /\ popup' = [popup EXCEPT !.timer = draft' # Blank /\ popup.open = draft']
              /\ CancelSuggestions
    BY DEF Navigate, Searches
<1>2. PageInv(manager["results"], url', refresh', results)
    BY <1>1, Before DEF PageInv
<1>3. CASE draft' = draft
    <2> DEFINE R == manager["results"]
               G == manager["suggestions"]
    <2>1. manager' = [manager EXCEPT !["results"] = R, !["suggestions"] = G]
        BY <1>1, <1>3, OneManager
    <2>2. /\ R \in Asks(Searches) /\ Numbered(R) /\ G \in Asks(Words) /\ Numbered(G)
          /\ PopupInv(G, draft', popup') /\ PageInv(R, url', refresh', results')
        BY <1>1, <1>2, <1>3, Before
    <2> HIDE DEF R, G
    <2> QED BY <1>1, <1>3, <2>1, <2>2, Before, Halves
<1>4. CASE draft' # draft
    <2>1. popup' = [popup EXCEPT !.timer = draft' # Blank /\ popup.open = draft']
        BY <1>1, <1>4
    <2>2. /\ popup' \in Popup /\ popup'.result = popup.result /\ popup'.open = popup.open
          /\ popup'.timer = (draft' # Blank /\ popup.open = draft')
        BY <2>1, Before DEF Popup
    <2>3. Waits(popup', draft') => popup'.timer
        BY <2>2 DEF Waits
    <2>4. popup'.result.status = "success" => popup'.result.of = {popup'.result.query}
        BY <2>2, Before DEF PopupInv
    <2> QED BY <1>1, <1>2, <1>4, <2>2, <2>3, <2>4, Before, CancelKeeps
<1> QED BY <1>3, <1>4

LEMMA SearchNextKeeps ==
    ASSUME SearchInv, SearchNext \/ UNCHANGED searchVars
    PROVE  SearchInv'
<1>1. CASE UNCHANGED searchVars
    BY <1>1 DEF searchVars, SearchInv, SearchTypeOK
<1>2. CASE SearchNext
    BY <1>2, RefreshKeeps, TypeKeeps, OpenKeeps, DismissKeeps, ClearKeeps, SuggestKeeps,
       NavigateKeeps, AnswerResultsKeeps, AnswerSuggestionsKeeps DEF SearchNext
<1> QED BY <1>1, <1>2

\* A page and a popup at rest answer what was asked, and who waits has something
\* to wait for: with any number of requests under way, cancelled, failed or late.
THEOREM SearchesAreAnswered == SearchSpec => [](SearchTypeOK /\ SearchIsAnswered)
<1>1. SearchInv /\ [SearchNext]_searchVars => SearchInv'
    BY SearchNextKeeps
<1>2. SearchInv => SearchTypeOK /\ SearchIsAnswered
    <2> SUFFICES ASSUME SearchInv PROVE SearchTypeOK /\ SearchIsAnswered
        OBVIOUS
    <2>1. \A m \in Managers : (\A c \in Current(manager[m]) : ~c.aborted)
                                => (InFlight(m) <=> Current(manager[m]) # {})
        BY DEF InFlight, Current
    <2>2. /\ InFlight("results") <=> Current(manager["results"]) # {}
          /\ InFlight("suggestions") <=> Current(manager["suggestions"]) # {}
        BY <2>1, Before DEF Managers, PageInv, PopupInv
    <2>3. PopupOpen /\ Visible.status = "loading" => Waits(popup, draft)
        BY DEF PopupOpen, Visible, Waits
    <2>4. PopupOpen /\ Visible.status = "success" => Visible.of = {draft}
        <3>1. CASE popup.result.query = draft
            BY <3>1, Before DEF Visible, PopupInv
        <3>2. CASE popup.result.query # draft
            BY <3>2 DEF Visible, PopupOpen, NoResult
        <3> QED BY <3>1, <3>2
    <2>5. /\ results.loading => refresh \/ InFlight("results")
          /\ ~(results.loading \/ results.failed \/ refresh) => results.of = {url}
        BY <2>2, Before DEF PageInv
    <2>6. PopupOpen /\ Visible.status = "loading" => popup.timer \/ InFlight("suggestions")
        BY <2>2, <2>3, Before DEF PopupInv
    <2> QED BY <2>4, <2>5, <2>6 DEF SearchInv, SearchIsAnswered
<1> QED BY <1>1, <1>2, SearchStarts, PTL DEF SearchSpec

--------------------------------------------------------------------------------
(***************************************************************************)
(* All of them together                                                    *)
(***************************************************************************)
\* The devices, whether they have registered before or not.
LEMMA DevicesTogether == ServicesSpec => [](RegistryInv /\ PullInv)
<1>1. ServicesInit => RegistryInv /\ PullInv
  <2>1. ASSUME AllRegistered PROVE RegistryInv
    <3>1. <<FALSE>> \in Seq(BOOLEAN) /\ DOMAIN <<FALSE>> = {1} /\ ~<<FALSE>>[1]
      OBVIOUS
    <3>2. /\ registry \in [Tablets -> Seq(BOOLEAN)]
          /\ registering \in [Registrations -> RegistryRequest]
          /\ lastWord \in [Tablets -> {"unknown", "registered", "revoked"}]
      BY <2>1, <3>1, NotRegisteringType DEF AllRegistered
    <3>3. \A r \in Registrations : registering[r].row \in 0 .. Len(registry[registering[r].device])
      <4>1. \A r \in Registrations : registering[r].row = 0
        BY <2>1, NotRegisteringType DEF AllRegistered
      <4>2. \A r \in Registrations : Len(registry[registering[r].device]) \in Nat
        BY <3>2 DEF RegistryRequest
      <4> QED BY <4>1, <4>2
    <3>4. LastWordCounts
      BY <2>1, <3>1 DEF AllRegistered, LastWordCounts, MayBeAdmitted
    <3> QED BY <3>2, <3>3, <3>4 DEF RegistryInv, RegistryTypeOK, RegistryRequest
  <2> QED BY <2>1, RegistryStarts, PullStarts DEF ServicesInit
<1>2. RegistryInv /\ [ServicesNext]_servicesVars => RegistryInv'
  <2>1. [ServicesNext]_servicesVars => [RegistryNext]_registryVars
    BY DEF ServicesNext, servicesVars
  <2> QED BY <2>1, RegistryNextKeeps
<1>3. PullInv /\ [ServicesNext]_servicesVars => PullInv'
  <2>1. [ServicesNext]_servicesVars => [PullNext]_pullVars
    BY DEF ServicesNext, servicesVars
  <2> QED BY <2>1, PullNextKeeps
<1> QED BY <1>1, <1>2, <1>3, PTL DEF ServicesSpec

\* The scenes of a component are its behaviours.
LEMMA ScenesOfEach ==
    ServicesSpec => /\ IngestionSpec
                    /\ PublicationSpec
                    /\ FoundationSpec
                    /\ SearchSpec
                    /\ SchedulingSpec
                    /\ StudySpec
                    /\ FirstUseSpec
<1>1. ServicesSpec => IngestionSpec
  <2>1. ServicesInit => IngestionInit
    BY DEF ServicesInit
  <2>2. [ServicesNext]_servicesVars => [IngestionNext]_ingestionVars
    BY DEF ServicesNext, servicesVars
  <2> QED BY <2>1, <2>2, PTL DEF ServicesSpec, IngestionSpec
<1>2. ServicesSpec => PublicationSpec
  <2>1. ServicesInit => PublicationInit
    BY DEF ServicesInit
  <2>2. [ServicesNext]_servicesVars => [PublicationNext]_publicationVars
    BY DEF ServicesNext, servicesVars
  <2> QED BY <2>1, <2>2, PTL DEF ServicesSpec, PublicationSpec
<1>3. ServicesSpec => FoundationSpec
  <2>1. ServicesInit => FoundationInit
    BY DEF ServicesInit
  <2>2. [ServicesNext]_servicesVars => [FoundationNext]_foundationVars
    BY DEF ServicesNext, servicesVars
  <2> QED BY <2>1, <2>2, PTL DEF ServicesSpec, FoundationSpec
<1>4. ServicesSpec => SearchSpec
  <2>1. ServicesInit => SearchInit
    BY DEF ServicesInit
  <2>2. [ServicesNext]_servicesVars => [SearchNext]_searchVars
    BY DEF ServicesNext, servicesVars
  <2> QED BY <2>1, <2>2, PTL DEF ServicesSpec, SearchSpec
<1>5. ServicesSpec => SchedulingSpec
  <2>1. ServicesInit => SchedulingInit
    BY DEF ServicesInit
  <2>2. [ServicesNext]_servicesVars => [SchedulingNext]_schedulingVars
    BY DEF ServicesNext, servicesVars
  <2> QED BY <2>1, <2>2, PTL DEF ServicesSpec, SchedulingSpec
<1>6. ServicesSpec => StudySpec
  <2>1. ServicesInit => StudyInit
    BY DEF ServicesInit
  <2>2. [ServicesNext]_servicesVars => [StudyNext]_studyVars
    BY DEF ServicesNext, servicesVars
  <2> QED BY <2>1, <2>2, PTL DEF ServicesSpec, StudySpec
<1>7. ServicesSpec => FirstUseSpec
  <2>1. ServicesInit => FirstUseInit
    BY DEF ServicesInit
  <2>2. [ServicesNext]_servicesVars => [FirstUseNext]_firstUseVars
    BY DEF ServicesNext, servicesVars
  <2> QED BY <2>1, <2>2, PTL DEF ServicesSpec, FirstUseSpec
<1> QED BY <1>1, <1>2, <1>3, <1>4, <1>5, <1>6, <1>7

\* Every component has its types when they are run together, for any values of
\* their constants.
THEOREM ServicesAreTyped == ServicesSpec => []ServicesTypeOK
<1>1. ServicesSpec => [](RegistryTypeOK /\ PullTypeOK)
  <2>1. RegistryInv /\ PullInv => RegistryTypeOK /\ PullTypeOK
    BY DEF RegistryInv, PullInv
  <2> QED BY <2>1, DevicesTogether, PTL
<1>2. SchedulingSpec => []SchedulingTypeOK
  <2>1. SchedulingInv => SchedulingTypeOK
    BY DEF SchedulingInv
  <2> QED BY <2>1, SchedulingStarts, SchedulingStep, PTL DEF SchedulingSpec
<1>3. StudySpec => []StudyTypeOK
  <2>1. StudyInv => StudyTypeOK
    BY DEF StudyInv
  <2> QED BY <2>1, StudyStarts, StudyStep, PTL DEF StudySpec
<1>4. FirstUseSpec => []FirstUseTypeOK
  <2>1. FirstUseInv => FirstUseTypeOK
    BY DEF FirstUseInv
  <2> QED BY <2>1, FirstUseStarts, FirstUseStep, PTL DEF FirstUseSpec
<1>5. ServicesSpec => [](/\ IngestionTypeOK /\ PublicationTypeOK /\ FoundationTypeOK
                        /\ SearchTypeOK /\ SchedulingTypeOK /\ StudyTypeOK /\ FirstUseTypeOK)
  BY <1>2, <1>3, <1>4, ScenesOfEach, CheckpointsAreCovered, PublishedVersionsSurvive,
     KanjiFoundationHolds, SearchesAreAnswered, PTL
<1> QED BY <1>1, <1>5, PTL DEF ServicesTypeOK

\* Put together, each component still keeps its promise, and the ingestion still
\* implements the abstract load.
THEOREM ServicesKeepTheirPromises ==
    ServicesSpec =>
        /\ [](/\ LastWordCounts /\ OnlyPassedIsMissed
              /\ CheckpointCovered /\ PublicationSurvives /\ FoundationHolds
              /\ SearchIsAnswered /\ PassesGraduate /\ PageFollowsSession /\ FirstUseHolds)
        /\ IngestionLoads
<1>1. ServicesSpec => [](LastWordCounts /\ OnlyPassedIsMissed)
  <2>1. RegistryInv /\ PullInv => LastWordCounts /\ OnlyPassedIsMissed
    BY DEF RegistryInv, PullInv, MissedInv, OnlyPassedIsMissed
  <2> QED BY <2>1, DevicesTogether, PTL
<1> QED BY <1>1, ScenesOfEach, CheckpointsAreCovered, PublishedVersionsSurvive,
           KanjiFoundationHolds, SearchesAreAnswered, StreaksGraduate, FirstUsesAgree,
           PageShowsItsSession, IngestionImplementsLoad, PTL
================================================================================
