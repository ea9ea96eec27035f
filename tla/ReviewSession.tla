----------------------------- MODULE ReviewSession -----------------------------
(***************************************************************************)
(* Review sessions of SessionService and the grading of SrsService that    *)
(* they share with POST /api/srs/review.                                   *)
(*                                                                         *)
(* No operation runs in a database transaction.  A request is a sequence   *)
(* of SQL statements; one action is one statement (with the computation    *)
(* around it), and the statements of other requests run in between.        *)
(*                                                                         *)
(* A scheduler is a function of the card's state and the rating, so the    *)
(* state of a card is represented by the sequence of gradings it reflects. *)
(* A grading is named by the instant `now` it reads; reviews are ordered   *)
(* by it (reviewedAt).                                                     *)
(***************************************************************************)
EXTENDS Integers, Sequences, FiniteSets

CONSTANTS
    Cards,
    Sessions,
    Plans,          \* the queues the planner may produce
    Requests,       \* request slots
    None,           \* no session: a grading through POST /api/srs/review
    Environments,   \* what a behaviour may have to cope with
    MaxGradings     \* bound on the clock: how many gradings are explored

ASSUME SessionAssumption ==
    /\ None \notin Sessions \cup Cards
    /\ Environments \subseteq [slots : SUBSET Requests, direct : BOOLEAN, crashes : BOOLEAN]
    /\ Plans \subseteq Seq(Cards)
    /\ MaxGradings \in Nat
    /\ IsFiniteSet(Requests)
    /\ Requests # {}

VARIABLES
    clock,      \* the last instant a grading read
    cards,      \* cards[c]: the gradings the state columns of c reflect
    reviews,    \* srs_reviews
    sessions,   \* srs_review_sessions
    ledger,     \* dedupe keys of xp_events, revoked or not
    revoked,    \* the revoked ones
    req,        \* req[p]: the request in slot p
    env         \* the slots in use, whether cards are also graded outside of
                \* sessions and whether the server may stop; it never changes

vars == <<clock, cards, reviews, sessions, ledger, revoked, req, env>>

Statuses == {"none", "active", "completed", "abandoned"}

Stages == {"idle", "cursor", "grade", "update", "log", "award", "streak",
           "drain", "bonus", "undo", "restore", "revoke", "delete", "reopen"}

ReviewKey(id) == <<"review", id>>
SessionKey(s) == <<"session", s>>
StreakKey == <<"streak">>

Review == [id : Nat, card : Cards, session : Sessions \cup {None}, before : Seq(Nat)]

\* Locals of a request: the session and card it is about, the cursor and the
\* status it read, the review it writes or undoes.
Request == [stage : Stages, session : Sessions \cup {None}, card : Cards \cup {None},
            cursor : Nat, status : Statuses, review : Review \cup {None}]

Idle == [stage |-> "idle", session |-> None, card |-> None, cursor |-> 0,
         status |-> "none", review |-> None]

--------------------------------------------------------------------------------
(***************************************************************************)
(* The read model: progress is derived from the reviews of the session.    *)
(***************************************************************************)
GetSessionReviews(s) == {r \in reviews : r.session = s}

Cursor(s) == Cardinality(GetSessionReviews(s))

LastReview(s) ==
    CHOOSE r \in GetSessionReviews(s) : \A q \in GetSessionReviews(s) : q.id <= r.id

Queue(s) == sessions[s].queue

\* Mutant: any card of the queue is accepted, at any time.
IsQueued(s, cursor, c) == \E i \in DOMAIN Queue(s) : Queue(s)[i] = c

IsExpected(s, cursor, c) == cursor < Len(Queue(s)) /\ Queue(s)[cursor + 1] = c

\* Mutant: the queue is drained only when one answer more has arrived.
DrainsLate(s, cursor) == cursor >= Len(Queue(s))

Drains(s, cursor) == cursor + 1 >= Len(Queue(s))

--------------------------------------------------------------------------------
At(p, stage) == req[p].stage = stage

Free(p) == At(p, "idle") /\ p \in env.slots

GoTo(p, stage) == req' = [req EXCEPT ![p].stage = stage]

Finish(p) == req' = [req EXCEPT ![p] = Idle]

Plan(s, queue) ==
    /\ sessions[s].status = "none"
    /\ sessions' = [sessions EXCEPT ![s] = [status |-> "active", queue |-> queue]]
    /\ UNCHANGED <<clock, cards, reviews, ledger, revoked, req, env>>

(***************************************************************************)
(* answer: read the row, read the reviews, grade, complete when drained.   *)
(* Only the row that is read is checked to be active.                      *)
(***************************************************************************)
OpenAnswer(p, s, c) ==
    /\ Free(p)
    /\ sessions[s].status = "active"
    /\ req' = [req EXCEPT ![p] = [Idle EXCEPT !.stage = "cursor", !.session = s, !.card = c]]
    /\ UNCHANGED <<clock, cards, reviews, sessions, ledger, revoked, env>>

\* A card that is not the one at the cursor is refused.
CheckCursor(p) ==
    LET s == req[p].session
        cursor == Cursor(s)
    IN  /\ At(p, "cursor")
        /\ IF IsExpected(s, cursor, req[p].card)
           THEN req' = [req EXCEPT ![p].stage = "grade", ![p].cursor = cursor]
           ELSE Finish(p)
        /\ UNCHANGED <<clock, cards, reviews, sessions, ledger, revoked, env>>

\* POST /api/srs/review: gradeCard without a session.
OpenGrading(p, c) ==
    /\ env.direct
    /\ Free(p)
    /\ req' = [req EXCEPT ![p] = [Idle EXCEPT !.stage = "grade", !.card = c]]
    /\ UNCHANGED <<clock, cards, reviews, sessions, ledger, revoked, env>>

(***************************************************************************)
(* gradeCard: read the card, write the new state, insert the review, award *)
(* XP.  The update writes absolute values computed from the row read.      *)
(***************************************************************************)
ReadCard(p) ==
    /\ At(p, "grade")
    /\ clock < MaxGradings
    /\ clock' = clock + 1
    /\ req' = [req EXCEPT ![p].stage = "update",
                          ![p].review = [id |-> clock + 1, card |-> req[p].card,
                                         session |-> req[p].session,
                                         before |-> cards[req[p].card]]]
    /\ UNCHANGED <<cards, reviews, sessions, ledger, revoked, env>>

UpdateCard(p) ==
    LET r == req[p].review
    IN  /\ At(p, "update")
        /\ cards' = [cards EXCEPT ![r.card] = Append(r.before, r.id)]
        /\ GoTo(p, "log")
        /\ UNCHANGED <<clock, reviews, sessions, ledger, revoked, env>>

\* Mutant: the stored snapshot is the state after the grading.
SnapshotAfter(r) == [r EXCEPT !.before = Append(r.before, r.id)]

Snapshot(r) == r

InsertReview(p) ==
    /\ At(p, "log")
    /\ reviews' = reviews \cup {Snapshot(req[p].review)}
    /\ GoTo(p, "award")
    /\ UNCHANGED <<clock, cards, sessions, ledger, revoked, env>>

\* awardSafe: a key already in the ledger, a daily cap or any failure leaves
\* the ledger as it is.
AwardSafe(key) ==
    \/ ledger' = ledger \cup {key} /\ UNCHANGED revoked
    \/ UNCHANGED <<ledger, revoked>>

Award(p) ==
    /\ At(p, "award")
    /\ AwardSafe(ReviewKey(req[p].review.id))
    /\ GoTo(p, "streak")
    /\ UNCHANGED <<clock, cards, reviews, sessions, env>>

\* awardDailyStreak, and for an answer the update of lastActivityAt.
AwardStreak(p) ==
    /\ At(p, "streak")
    /\ AwardSafe(StreakKey)
    /\ IF req[p].session # None /\ Drains(req[p].session, req[p].cursor)
       THEN GoTo(p, "drain")
       ELSE Finish(p)
    /\ UNCHANGED <<clock, cards, reviews, sessions, env>>

\* The status is written whatever it has become since the row was read.
CompleteDrained(p) ==
    /\ At(p, "drain")
    /\ sessions' = [sessions EXCEPT ![req[p].session].status = "completed"]
    /\ GoTo(p, "bonus")
    /\ UNCHANGED <<clock, cards, reviews, ledger, revoked, env>>

AwardBonus(p) ==
    /\ At(p, "bonus")
    /\ AwardSafe(SessionKey(req[p].session))
    /\ Finish(p)
    /\ UNCHANGED <<clock, cards, reviews, sessions, env>>

(***************************************************************************)
(* undo: read the row, read the last review, put the card back to the      *)
(* review's snapshot, revoke its XP, delete it, reopen the session.        *)
(***************************************************************************)
OpenUndo(p, s) ==
    /\ Free(p)
    /\ sessions[s].status # "none"
    /\ req' = [req EXCEPT ![p] = [Idle EXCEPT !.stage = "undo", !.session = s,
                                              !.status = sessions[s].status]]
    /\ UNCHANGED <<clock, cards, reviews, sessions, ledger, revoked, env>>

FindLast(p) ==
    LET s == req[p].session
    IN  /\ At(p, "undo")
        /\ IF GetSessionReviews(s) = {}
           THEN Finish(p)
           ELSE req' = [req EXCEPT ![p].stage = "restore", ![p].review = LastReview(s)]
        /\ UNCHANGED <<clock, cards, reviews, sessions, ledger, revoked, env>>

RestoreCard(p) ==
    LET r == req[p].review
    IN  /\ At(p, "restore")
        /\ cards' = [cards EXCEPT ![r.card] = r.before]
        /\ GoTo(p, "revoke")
        /\ UNCHANGED <<clock, reviews, sessions, ledger, revoked, env>>

\* revokeByDedupeKey updates the event with the key, if there is one.
\* Mutant: the award is left in the ledger.
RevokeNothing(key) == UNCHANGED revoked

\* Mutant: a revoked key is recorded whether or not it was ever awarded.
RevokeAnyKey(key) == revoked' = revoked \cup {key}

Revoke(key) == revoked' = revoked \cup ({key} \cap ledger)

RevokeXp(p) ==
    /\ At(p, "revoke")
    /\ Revoke(ReviewKey(req[p].review.id))
    /\ GoTo(p, "delete")
    /\ UNCHANGED <<clock, cards, reviews, sessions, ledger, env>>

DeleteReview(p) ==
    /\ At(p, "delete")
    /\ reviews' = {r \in reviews : r.id # req[p].review.id}
    /\ IF req[p].status = "completed" THEN GoTo(p, "reopen") ELSE Finish(p)
    /\ UNCHANGED <<clock, cards, sessions, ledger, revoked, env>>

Reopen(p) ==
    /\ At(p, "reopen")
    /\ sessions' = [sessions EXCEPT ![req[p].session].status = "active"]
    /\ Finish(p)
    /\ UNCHANGED <<clock, cards, reviews, ledger, revoked, env>>

\* completeSession and abandonSession are one UPDATE each, with no condition
\* on the status.
EndSession(s, status) ==
    /\ sessions[s].status # "none"
    /\ sessions' = [sessions EXCEPT ![s].status = status]
    /\ UNCHANGED <<clock, cards, reviews, ledger, revoked, req, env>>

CompleteSession(s) == EndSession(s, "completed")

AbandonSession(s) == EndSession(s, "abandoned")

\* The server stops: what was written stays written.
Crash(p) ==
    /\ env.crashes
    /\ ~At(p, "idle")
    /\ Finish(p)
    /\ UNCHANGED <<clock, cards, reviews, sessions, ledger, revoked, env>>

--------------------------------------------------------------------------------
Init ==
    /\ clock = 0
    /\ cards = [c \in Cards |-> <<>>]
    /\ reviews = {}
    /\ sessions = [s \in Sessions |-> [status |-> "none", queue |-> <<>>]]
    /\ ledger = {}
    /\ revoked = {}
    /\ req = [p \in Requests |-> Idle]
    /\ env \in Environments

Answer(p) ==
    \/ \E s \in Sessions, c \in Cards : OpenAnswer(p, s, c)
    \/ CheckCursor(p)
    \/ CompleteDrained(p)
    \/ AwardBonus(p)

GradeCard(p) ==
    \/ \E c \in Cards : OpenGrading(p, c)
    \/ ReadCard(p)
    \/ UpdateCard(p)
    \/ InsertReview(p)
    \/ Award(p)
    \/ AwardStreak(p)

Undo(p) ==
    \/ \E s \in Sessions : OpenUndo(p, s)
    \/ FindLast(p)
    \/ RestoreCard(p)
    \/ RevokeXp(p)
    \/ DeleteReview(p)
    \/ Reopen(p)

Lifecycle(s) ==
    \/ \E queue \in Plans : Plan(s, queue)
    \/ CompleteSession(s)
    \/ AbandonSession(s)

Next ==
    \/ \E p \in Requests : Answer(p) \/ GradeCard(p) \/ Undo(p) \/ Crash(p)
    \/ \E s \in Sessions : Lifecycle(s)

Spec == Init /\ [][Next]_vars

--------------------------------------------------------------------------------
(***************************************************************************)
(* Properties                                                              *)
(***************************************************************************)

\* What each stage knows: the session, the card or the review it works on.
StageOK(q) ==
    /\ q.stage \in {"cursor", "drain", "bonus", "undo", "restore", "revoke", "delete", "reopen"}
           => q.session \in Sessions
    /\ q.stage \in {"cursor", "grade"} => q.card \in Cards
    /\ q.stage \in {"update", "log", "award", "restore", "revoke", "delete"}
           => q.review \in Review

\* The tables and the locals of the requests have their types.
TypeOK ==
    /\ clock \in Nat
    /\ cards \in [Cards -> Seq(Nat)]
    /\ reviews \subseteq Review
    /\ sessions \in [Sessions -> [status : Statuses, queue : Seq(Cards)]]
    /\ revoked \subseteq ledger
    /\ req \in [Requests -> Request]
    /\ \A p \in Requests : StageOK(req[p])

Quiet == \A p \in Requests : At(p, "idle")

\* No two requests overlap.
Alone == Cardinality(env.slots) = 1

Undisturbed == Alone /\ ~env.direct /\ ~env.crashes

FollowsQueue(s) ==
    \A r \in GetSessionReviews(s) :
        LET position == Cardinality({q \in GetSessionReviews(s) : q.id <= r.id})
        IN  position <= Len(Queue(s)) /\ Queue(s)[position] = r.card

InQueue(s, c) == \E i \in DOMAIN Queue(s) : Queue(s)[i] = c

AnswersAreQueued == \A r \in reviews : r.session # None => InQueue(r.session, r.card)

\* A session is answered with cards of its queue only, however its requests
\* overlap; and where they do not, its answers are a prefix of the queue, in the
\* queue's order and without repetition, through gradings elsewhere, undos and
\* crashes.
AnswersFollowQueue ==
    /\ AnswersAreQueued
    /\ Alone => \A s \in Sessions : FollowsQueue(s)

\* The promise of the answer route: not even a duplicated client can bring the
\* session out of step with its queue.
DuplicatesAreRefused == \A s \in Sessions : FollowsQueue(s)

\* A session is answered beyond its queue by at most one answer for each
\* other request in flight: a cursor read before a concurrent insert lets
\* every request pass once, and no more.
OvershootBounded ==
    \A s \in Sessions : Cursor(s) <= Len(Queue(s)) + Cardinality(Requests) - 1

\* XP earned by a review is standing only while the review is in the log:
\* after an undo nothing of it remains, so undo cannot be used to farm XP.
\* Without overlap this survives crashes anywhere.
UndoneXpIsRevoked ==
    Alone /\ Quiet =>
        \A key \in ledger \ revoked :
            key[1] = "review" => \E r \in reviews : key = ReviewKey(r.id)

OneSession == \A s, t \in Sessions : s = t

\* The state of a card is the result of the reviews in the log, applied in
\* their order: undo puts back what the log says, after any answers.  This is
\* so within one session; an undo in an earlier session takes the answers of
\* a later one out of the state of the card, and leaves them in the log.
CardsFollowLog ==
    Undisturbed /\ Quiet /\ OneSession => \A c \in Cards :
        LET logged == {r.id : r \in {r \in reviews : r.card = c}}
        IN  /\ Len(cards[c]) = Cardinality(logged)
            /\ \A i \in DOMAIN cards[c] : cards[c][i] \in logged
            /\ \A i, j \in DOMAIN cards[c] : i < j => cards[c][i] < cards[c][j]

\* An active session still has a card to answer: the answer that drains the
\* queue completes the session, and only an undo opens it again.
ActiveHasWork ==
    Undisturbed /\ Quiet => \A s \in Sessions :
        sessions[s].status = "active" /\ Len(Queue(s)) > 0 => Cursor(s) < Len(Queue(s))
================================================================================
