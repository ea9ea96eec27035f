------------------------------ MODULE ExamSession ------------------------------
(***************************************************************************)
(* JLPT tests and drills: TestService over test_sessions, test_answers and *)
(* the learner's row of user_analytics, driven by the page that runs the   *)
(* exam.                                                                   *)
(*                                                                         *)
(* The page sends every choice to the server as it is made and, with the   *)
(* submission, all choices once more.  submitSession is a sequence of SQL  *)
(* statements outside any transaction; one action is one statement.  What  *)
(* it reads of rows that never change (the questions, the session's level  *)
(* and test) is part of the statement that uses it.                        *)
(*                                                                         *)
(* An answer is represented by whether it is right, a score by the number  *)
(* of right answers.  The sessions are those of one learner at one level:  *)
(* they share one row of analytics.                                        *)
(***************************************************************************)
EXTENDS Integers, FiniteSets, FiniteSetsExt

CONSTANTS
    Questions,      \* the questions of the level
    Sessions,
    Selections,     \* what startSession may ask: a test everything, a drill a part
    Requests,       \* slots for submissions
    None,
    Environments,   \* what a behaviour may have to cope with
    MaxMail,        \* bound on the saves in transit
    MaxGraded       \* bound on the submissions explored: those counted so far

\* Of user_analytics: testsCompleted plus drillsCompleted, and the totals.
Analytics == [exams : Nat, answered : Nat, correct : Nat]

ASSUME ExamAssumption ==
    /\ IsFiniteSet(Questions)
    /\ IsFiniteSet(Sessions)
    /\ IsFiniteSet(Requests)
    /\ Selections \subseteq SUBSET Questions
    /\ None \notin Sessions \cup Questions \cup Analytics
    /\ Environments \subseteq [exams : SUBSET Sessions, slots : SUBSET Requests,
                               late : BOOLEAN, faults : BOOLEAN]
    /\ MaxMail \in Nat
    /\ MaxGraded \in Nat

VARIABLES
    page,       \* page[s]: what the learner chose, and where the page is
    mail,       \* saves of single answers on their way to the server
    sessions,   \* test_sessions
    answers,    \* test_answers
    analytics,  \* the learner's row of user_analytics, or None
    ledger,     \* the xp_events of exams
    req,        \* req[p]: the submission in slot p
    env         \* the exams taken and the slots in use, whether answers may
                \* arrive after the submission and whether statements,
                \* responses and the server may fail; it never changes

vars == <<page, mail, sessions, answers, analytics, ledger, req, env>>

Marks == {"none", "right", "wrong"}

Sheet == [Questions -> Marks]

Blank == [q \in Questions |-> "none"]

Phases == {"closed", "working", "submitting", "left"}

Statuses == {"none", "in_progress", "completed"}

\* An event is about one answer or about the exam (None).
Events == [session : Sessions, question : Questions \cup {None}, wasCorrect : BOOLEAN]

Stages == {"idle", "save", "complete", "find", "write", "award", "respond"}

\* Locals of a submission: the answers it carries and those still to save,
\* the questions graded as right, the analytics row it read, and whether the
\* page still waits for it.
Request == [stage : Stages, session : Sessions \cup {None}, final : Sheet,
            todo : SUBSET Questions, right : SUBSET Questions,
            existing : Analytics \cup {None}, awaited : BOOLEAN]

Idle == [stage |-> "idle", session |-> None, final |-> Blank, todo |-> {},
         right |-> {}, existing |-> None, awaited |-> FALSE]

RightOnes(sheet) == {q \in Questions : sheet[q] = "right"}

--------------------------------------------------------------------------------
At(p, stage) == req[p].stage = stage

GoTo(p, stage) == req' = [req EXCEPT ![p].stage = stage]

\* Mutant: the slot is not given back.
ForgetSession(p) == req' = [req EXCEPT ![p].session = None]

Finish(p) == req' = [req EXCEPT ![p] = Idle]

Start(s, asked) ==
    /\ s \in env.exams
    /\ sessions[s].status = "none"
    /\ sessions' = [sessions EXCEPT ![s] = [status |-> "in_progress", asked |-> asked, score |-> 0]]
    /\ page' = [page EXCEPT ![s].phase = "working"]
    /\ UNCHANGED <<mail, answers, analytics, ledger, req, env>>

\* A choice, or a flag, which sends the choice once more.  The page stays
\* usable until the submission is answered.
Choose(s, q, choice) ==
    /\ \/ page[s].phase = "working"
       \/ page[s].phase = "submitting" /\ env.late
    /\ q \in sessions[s].asked
    /\ Cardinality(mail) < MaxMail
    /\ page' = [page EXCEPT ![s].sheet[q] = choice]
    /\ mail' = mail \cup {[session |-> s, question |-> q, choice |-> choice]}
    /\ UNCHANGED <<sessions, answers, analytics, ledger, req, env>>

\* Mutant: only the first answer to a question is kept.
InsertOnly(s, q, choice) ==
    answers' = IF answers[s][q] = "none" THEN [answers EXCEPT ![s][q] = choice] ELSE answers

\* The upsert of saveAnswer: no look at the session.
SaveAnswer(s, q, choice) == answers' = [answers EXCEPT ![s][q] = choice]

\* Saves arrive in any order.
DeliverSave(m) ==
    /\ mail' = mail \ {m}
    /\ SaveAnswer(m.session, m.question, m.choice)
    /\ UNCHANGED <<page, sessions, analytics, ledger, req, env>>

\* A save that fails is only logged by the page.
LoseSave(m) ==
    /\ mail' = mail \ {m}
    /\ UNCHANGED <<page, sessions, answers, analytics, ledger, req, env>>

--------------------------------------------------------------------------------
(***************************************************************************)
(* submitSession                                                           *)
(***************************************************************************)
\* The page sends every asked question, unanswered ones as empty, and refuses
\* a second submission while it waits.
Submit(p, s) ==
    /\ At(p, "idle") /\ p \in env.slots
    /\ page[s].phase = "working"
    /\ analytics # None => analytics.exams < MaxGraded
    /\ env.late \/ \A m \in mail : m.session # s
    /\ page' = [page EXCEPT ![s].phase = "submitting"]
    /\ req' = [req EXCEPT ![p] =
                 [Idle EXCEPT !.stage = "save", !.session = s, !.awaited = TRUE,
                              !.todo = sessions[s].asked,
                              !.final = [q \in Questions |->
                                           IF q \in sessions[s].asked /\ page[s].sheet[q] = "none"
                                           THEN "wrong" ELSE page[s].sheet[q]]]]
    /\ UNCHANGED <<mail, sessions, answers, analytics, ledger, env>>

SaveFinal(p) ==
    /\ At(p, "save")
    /\ \E q \in req[p].todo :
        /\ SaveAnswer(req[p].session, q, req[p].final[q])
        /\ req' = [req EXCEPT ![p].todo = @ \ {q}]
    /\ UNCHANGED <<page, mail, sessions, analytics, ledger, env>>

\* Reload what is stored and grade it.
Reload(p) ==
    /\ At(p, "save")
    /\ req[p].todo = {}
    /\ req' = [req EXCEPT ![p].stage = "complete", ![p].right = RightOnes(answers[req[p].session])]
    /\ UNCHANGED <<page, mail, sessions, answers, analytics, ledger, env>>

\* Whatever the status is.
Complete(p) ==
    /\ At(p, "complete")
    /\ sessions' = [sessions EXCEPT ![req[p].session].status = "completed",
                                    ![req[p].session].score = Cardinality(req[p].right)]
    /\ GoTo(p, "find")
    /\ UNCHANGED <<page, mail, answers, analytics, ledger, env>>

FindAnalytics(p) ==
    /\ At(p, "find")
    /\ req' = [req EXCEPT ![p].stage = "write", ![p].existing = analytics]
    /\ UNCHANGED <<page, mail, sessions, answers, analytics, ledger, env>>

\* The row of a learner without one.
NoTotals == [exams |-> 0, answered |-> 0, correct |-> 0]

\* Mutant: unanswered questions count as correct.
TotalsOfAll(existing, right) ==
    LET old == IF existing = None THEN NoTotals ELSE existing
    IN  [exams |-> old.exams + 1,
         answered |-> old.answered + Cardinality(Questions),
         correct |-> old.correct + Cardinality(Questions)]

\* Mutant: the totals start over instead of adding to the row read.
TotalsOfLast(existing, right) ==
    [exams |-> 1, answered |-> Cardinality(Questions), correct |-> Cardinality(right)]

\* Every question of the level is counted, the ones never asked included.
Totals(existing, right) ==
    LET old == IF existing = None THEN NoTotals ELSE existing
    IN  [exams |-> old.exams + 1,
         answered |-> old.answered + Cardinality(Questions),
         correct |-> old.correct + Cardinality(right)]

\* A row that appeared since it was not found makes the insert collide.
WriteAnalytics(p) ==
    /\ At(p, "write")
    /\ IF req[p].existing = None /\ analytics # None
       THEN UNCHANGED analytics
       ELSE analytics' = Totals(req[p].existing, req[p].right)
    /\ GoTo(p, "award")
    /\ UNCHANGED <<page, mail, sessions, answers, ledger, env>>

\* Any failure of the analytics is logged and forgotten.
AnalyticsFail(p) ==
    /\ env.faults
    /\ req[p].stage \in {"find", "write"}
    /\ GoTo(p, "award")
    /\ UNCHANGED <<page, mail, sessions, answers, analytics, ledger, env>>

\* Mutant: the answers are paid without looking at the grading.
EventsOfAll(s, right) ==
    {[session |-> s, question |-> q, wasCorrect |-> TRUE] : q \in Questions \cup {None}}

\* The events of a graded exam: the exam and each question.  The day's streak
\* is an event of no exam and part of XpLedger.
ExamEvents(s, right) ==
    {[session |-> s, question |-> q, wasCorrect |-> q \in right] : q \in Questions}
        \cup {[session |-> s, question |-> None, wasCorrect |-> TRUE]}

\* The dedupe key names the session and the question, not the outcome.
SameKey(e, f) == e.session = f.session /\ e.question = f.question

\* awardSafe once per event: a key that exists, a cap or a failure leaves
\* that event out.  The awards are one action: they write keys of this
\* session only.
AwardXp(p) ==
    /\ At(p, "award")
    /\ \E paid \in SUBSET ExamEvents(req[p].session, req[p].right) :
        /\ \A e \in paid, f \in ledger : ~SameKey(e, f)
        /\ ledger' = ledger \cup paid
    /\ GoTo(p, "respond")
    /\ UNCHANGED <<page, mail, sessions, answers, analytics, env>>

\* The page leaves for the results, if it still waits for this response.
Respond(p) ==
    /\ At(p, "respond")
    /\ page' = [page EXCEPT ![req[p].session].phase = IF req[p].awaited THEN "left" ELSE @]
    /\ Finish(p)
    /\ UNCHANGED <<mail, sessions, answers, analytics, ledger, env>>

\* The connection breaks: the page lets the learner go on, the server does
\* not notice.
LoseResponse(p) ==
    /\ env.faults
    /\ req[p].awaited
    /\ page' = [page EXCEPT ![req[p].session].phase = "working"]
    /\ req' = [req EXCEPT ![p].awaited = FALSE]
    /\ UNCHANGED <<mail, sessions, answers, analytics, ledger, env>>

\* A statement fails or the server stops: what was written stays written,
\* and a page that waits gets an error.
Crash(p) ==
    /\ env.faults
    /\ ~At(p, "idle")
    /\ page' = [s \in Sessions |->
                  IF s = req[p].session /\ req[p].awaited
                  THEN [page[s] EXCEPT !.phase = "working"] ELSE page[s]]
    /\ Finish(p)
    /\ UNCHANGED <<mail, sessions, answers, analytics, ledger, env>>

--------------------------------------------------------------------------------
Init ==
    /\ page = [s \in Sessions |-> [sheet |-> Blank, phase |-> "closed"]]
    /\ mail = {}
    /\ sessions = [s \in Sessions |-> [status |-> "none", asked |-> {}, score |-> 0]]
    /\ answers = [s \in Sessions |-> Blank]
    /\ analytics = None
    /\ ledger = {}
    /\ req = [p \in Requests |-> Idle]
    /\ env \in Environments

Work(s) ==
    \/ \E asked \in Selections : Start(s, asked)
    \/ \E q \in Questions, choice \in {"right", "wrong"} : Choose(s, q, choice)

Network == \E m \in mail : DeliverSave(m) \/ LoseSave(m)

SubmitSession(p) ==
    \/ \E s \in Sessions : Submit(p, s)
    \/ SaveFinal(p)
    \/ Reload(p)
    \/ Complete(p)
    \/ AwardXp(p)
    \/ Respond(p)
    \/ LoseResponse(p)
    \/ Crash(p)

UpdateUserAnalytics(p) == FindAnalytics(p) \/ WriteAnalytics(p) \/ AnalyticsFail(p)

Next ==
    \/ \E s \in Sessions : Work(s)
    \/ Network
    \/ \E p \in Requests : SubmitSession(p) \/ UpdateUserAnalytics(p)

Spec == Init /\ [][Next]_vars

--------------------------------------------------------------------------------
(***************************************************************************)
(* Properties                                                              *)
(***************************************************************************)

\* Tables, pages, mail and locals have their types.
TypeOK ==
    /\ page \in [Sessions -> [sheet : Sheet, phase : Phases]]
    /\ mail \subseteq [session : Sessions, question : Questions, choice : {"right", "wrong"}]
    /\ sessions \in [Sessions -> [status : Statuses, asked : SUBSET Questions, score : Nat]]
    /\ answers \in [Sessions -> Sheet]
    /\ analytics \in Analytics \cup {None}
    /\ ledger \subseteq Events
    /\ req \in [Requests -> Request]
    /\ \A p \in Requests : ~At(p, "idle") => req[p].session \in Sessions

Completed == {s \in Sessions : sessions[s].status = "completed"}

Quiet == \A p \in Requests : At(p, "idle")

\* No two submissions overlap.
Alone == Cardinality(env.slots) = 1

\* A learner who was shown the results was graded on exactly the answers on
\* the page, and those are the ones stored, although saves arrived in any
\* order or never, and although earlier submissions with other answers failed
\* half way.
ServedAsSubmitted ==
    (Alone \/ ~env.faults) /\ ~env.late =>
        \A s \in Sessions : page[s].phase = "left" =>
            /\ RightOnes(answers[s]) = RightOnes(page[s].sheet)
            /\ sessions[s].score = Cardinality(RightOnes(page[s].sheet))

\* Between submissions, the totals are the sums over the completed sessions.
\* Submissions that overlap may lose a total, never count one twice.
AnalyticsMatchSessions ==
    LET correct == MapThenSumSet(LAMBDA s : sessions[s].score, Completed)
    IN  /\ Alone /\ ~env.faults /\ Quiet /\ Completed # {} =>
              analytics = [exams |-> Cardinality(Completed),
                           answered |-> Cardinality(Completed) * Cardinality(Questions),
                           correct |-> correct]
        /\ ~env.faults /\ analytics # None =>
              analytics.exams <= Cardinality(Completed) /\ analytics.correct <= correct

\* XP stands only for completed exams, and what was paid as a correct answer
\* is stored as one, unless it was answered again.
XpFollowsGrading ==
    \A e \in ledger :
        /\ e.session \in Completed
        /\ e.question # None /\ ~env.late /\ ~env.faults =>
               (e.wasCorrect <=> answers[e.session][e.question] = "right")

\* The promise of the dialog that submits: the answers are locked.
AnswersLocked ==
    [][\A s \in Sessions : sessions[s].status = "completed" => answers'[s] = answers[s]]_vars
================================================================================
