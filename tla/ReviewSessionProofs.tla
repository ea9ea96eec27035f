-------------------------- MODULE ReviewSessionProofs --------------------------
(***************************************************************************)
(* Proofs about ReviewSession for every set of cards, sessions, plans and  *)
(* requests and every environment.                                         *)
(*                                                                         *)
(* OvershootBounded is not inductive: a request that has passed the cursor *)
(* check will insert its review whatever the log has become.  The          *)
(* invariant that is inductive counts those requests, too: reviews plus    *)
(* requests past the check never exceed the queue by all requests but one. *)
(***************************************************************************)
EXTENDS ReviewSession, FiniteSetTheorems, WellFoundedInduction, TLAPS

\* Requests past the cursor check whose review is not in the log yet.
InFlight(s) ==
    {p \in Requests : req[p].stage \in {"grade", "update", "log"} /\ req[p].session = s}

Room ==
    \A s \in Sessions :
        Cursor(s) + Cardinality(InFlight(s)) <= Len(Queue(s)) + Cardinality(Requests) - 1

LogInv == IsFiniteSet(reviews) /\ \A r \in reviews : r.id <= clock

CarriedInv ==
    \A p \in Requests : req[p].stage \in {"update", "log"} =>
        /\ req[p].review.session = req[p].session
        /\ req[p].review.id <= clock

PlanInv == \A s \in Sessions : sessions[s].status = "none" => Queue(s) = <<>>

Inv == TypeOK /\ LogInv /\ CarriedInv /\ PlanInv /\ Room

--------------------------------------------------------------------------------
(* Facts about the data.                                                   *)

\* A non-empty bounded set of naturals has a greatest element.
LEMMA GreatestExists ==
    ASSUME NEW S \in SUBSET Nat, S # {}, NEW n \in Nat, \A i \in S : i <= n
    PROVE  \E m \in S : \A i \in S : i <= m
<1> DEFINE T == {n - i : i \in S}
<1>1. T \subseteq Nat /\ T # {}
    <2>1. \A i \in S : n - i \in Nat
        OBVIOUS
    <2> QED BY <2>1
<1>2. PICK x \in T : \A y \in T : ~(<<y, x>> \in OpToRel(<, Nat))
    BY <1>1, NatLessThanWellFounded, WFMin
<1>3. PICK m \in S : x = n - m
    OBVIOUS
<1>4. ASSUME NEW i \in S PROVE i <= m
    <2>1. ~(n - i < n - m)
        BY <1>1, <1>2, <1>3 DEF OpToRel
    <2> QED BY <2>1
<1> QED BY <1>4

\* A session with reviews has a last one.
LEMMA LastReviewExists ==
    ASSUME TypeOK, LogInv, NEW s, GetSessionReviews(s) # {}
    PROVE  /\ LastReview(s) \in GetSessionReviews(s)
           /\ \A q \in GetSessionReviews(s) : q.id <= LastReview(s).id
<1> DEFINE R == GetSessionReviews(s)
           S == {r.id : r \in R}
<1>1. R \subseteq Review /\ R \subseteq reviews
    BY DEF GetSessionReviews, TypeOK
<1>2. \A r \in R : r.id \in Nat /\ r.id <= clock
    BY <1>1 DEF LogInv, Review
<1>3. S \in SUBSET Nat /\ S # {} /\ clock \in Nat /\ \A i \in S : i <= clock
    BY <1>2 DEF TypeOK
<1>4. PICK m \in S : \A i \in S : i <= m
    BY <1>3, GreatestExists
<1>5. \E r \in R : \A q \in R : q.id <= r.id
    BY <1>4
<1> QED BY <1>5 DEF LastReview

LEMMA IdleType == Idle \in Request
BY DEF Idle, Request, Stages, Statuses

LEMMA RequestType ==
    ASSUME NEW q \in Request, NEW stage \in Stages
    PROVE  /\ [q EXCEPT !.stage = stage] \in Request
           /\ [q EXCEPT !.stage = stage].stage = stage
           /\ \A x \in Nat : [q EXCEPT !.stage = stage, !.cursor = x] \in Request
           /\ \A r \in Review : [q EXCEPT !.stage = stage, !.review = r] \in Request
BY DEF Request

--------------------------------------------------------------------------------
(* Room is kept by a step that adds neither a review nor a request past    *)
(* the check.                                                              *)

LEMMA FiniteParts ==
    ASSUME SessionAssumption, Inv, NEW s \in Sessions
    PROVE  /\ IsFiniteSet(GetSessionReviews(s)) /\ Cursor(s) \in Nat
           /\ IsFiniteSet(InFlight(s)) /\ Cardinality(InFlight(s)) \in Nat
           /\ Cardinality(Requests) \in Nat \ {0}
           /\ Len(Queue(s)) \in Nat
<1>1. GetSessionReviews(s) \subseteq reviews /\ InFlight(s) \subseteq Requests
    BY DEF GetSessionReviews, InFlight
<1>2. IsFiniteSet(reviews) /\ IsFiniteSet(Requests) /\ Requests # {}
    BY DEF Inv, LogInv, SessionAssumption
<1>3. Queue(s) \in Seq(Cards)
    BY DEF Inv, TypeOK, Queue
<1>4. Cardinality(Requests) # 0
    BY <1>2, FS_EmptySet
<1> QED
    BY <1>1, <1>2, <1>3, <1>4, FS_Subset, FS_CardinalityType DEF Cursor

LEMMA RoomKept ==
    ASSUME SessionAssumption, Inv, reviews' \subseteq reviews,
           \A s \in Sessions : Queue(s)' = Queue(s),
           \A s \in Sessions : InFlight(s)' \subseteq InFlight(s)
    PROVE  Room'
<1> SUFFICES ASSUME NEW s \in Sessions
             PROVE  Cursor(s)' + Cardinality(InFlight(s))'
                        <= Len(Queue(s))' + Cardinality(Requests) - 1
    BY DEF Room
<1>1. GetSessionReviews(s)' \subseteq GetSessionReviews(s)
    BY DEF GetSessionReviews
<1>2. Cursor(s)' \in Nat /\ Cursor(s)' <= Cursor(s)
    BY <1>1, FiniteParts, FS_Subset, FS_CardinalityType DEF Cursor
<1>3. Cardinality(InFlight(s))' \in Nat /\ Cardinality(InFlight(s))' <= Cardinality(InFlight(s))
    BY FiniteParts, FS_Subset, FS_CardinalityType
<1>4. Len(Queue(s))' = Len(Queue(s))
    OBVIOUS
<1> QED BY <1>2, <1>3, <1>4, FiniteParts DEF Inv, Room
--------------------------------------------------------------------------------
(* One request moves from record to record.                                *)

\* The new record of request p, and what its step leaves of the tables.
Moves(p, q) ==
    /\ req' = [req EXCEPT ![p] = q]
    /\ q \in Request
    /\ StageOK(q)
    /\ q.stage \in {"update", "log"} => q.review.session = q.session /\ q.review.id <= clock'
    /\ clock' \in Nat /\ clock <= clock'
    /\ cards' \in [Cards -> Seq(Nat)]
    /\ sessions' \in [Sessions -> [status : Statuses, queue : Seq(Cards)]]
    /\ \A s \in Sessions :
          /\ sessions'[s].queue = sessions[s].queue
          /\ sessions'[s].status = "none" => sessions[s].status = "none"
    /\ revoked' \subseteq ledger'

LEMMA TablesStay ==
    ASSUME Inv, UNCHANGED <<cards, sessions, ledger, revoked>>
    PROVE  /\ cards' \in [Cards -> Seq(Nat)]
           /\ sessions' \in [Sessions -> [status : Statuses, queue : Seq(Cards)]]
           /\ \A s \in Sessions :
                 /\ sessions'[s].queue = sessions[s].queue
                 /\ sessions'[s].status = "none" => sessions[s].status = "none"
           /\ revoked' \subseteq ledger'
           /\ clock \in Nat
BY DEF Inv, TypeOK

LEMMA MovesKeepTypes ==
    ASSUME Inv, NEW p \in Requests, NEW q, Moves(p, q),
           reviews' \subseteq Review, IsFiniteSet(reviews'), \A r \in reviews' : r.id <= clock'
    PROVE  TypeOK' /\ LogInv' /\ CarriedInv' /\ PlanInv'
<1>1. req' \in [Requests -> Request] /\ req'[p] = q /\ \A r \in Requests \ {p} : req'[r] = req[r]
    BY DEF Moves, Inv, TypeOK
<1>2. \A r \in Requests : StageOK(req'[r])
    BY <1>1 DEF Moves, Inv, TypeOK
<1>3. TypeOK'
    BY <1>1, <1>2 DEF Moves, TypeOK
<1>4. LogInv'
    BY DEF LogInv
<1>5. ASSUME NEW r \in Requests, req'[r].stage \in {"update", "log"}
      PROVE  req'[r].review.session = req'[r].session /\ req'[r].review.id <= clock'
    <2>1. CASE r = p
        BY <1>1, <1>5, <2>1 DEF Moves
    <2>2. CASE r # p
        <3>1. req'[r] = req[r]
            BY <1>1, <2>2
        <3>2. req[r].review.session = req[r].session /\ req[r].review.id <= clock
            BY <1>5, <3>1 DEF Inv, CarriedInv
        <3>3. req[r].review \in Review
            BY <1>5, <3>1 DEF Inv, TypeOK, StageOK
        <3>4. req[r].review.id \in Nat /\ clock \in Nat /\ clock' \in Nat /\ clock <= clock'
            BY <3>3 DEF Review, Inv, TypeOK, Moves
        <3> QED BY <3>1, <3>2, <3>4
    <2> QED BY <2>1, <2>2
<1>6. CarriedInv'
    BY <1>5 DEF CarriedInv
<1>7. PlanInv'
    BY DEF PlanInv, Moves, Inv, Queue
<1> QED BY <1>3, <1>4, <1>6, <1>7

\* A step that neither inserts a review nor passes the cursor check.
LEMMA MovesKeepInv ==
    ASSUME SessionAssumption, Inv, NEW p \in Requests, NEW q, Moves(p, q),
           reviews' \subseteq reviews,
           q.stage \in {"grade", "update", "log"} =>
               \/ q.session = None
               \/ /\ req[p].stage \in {"grade", "update", "log"}
                  /\ req[p].session = q.session
    PROVE  Inv'
<1>1. reviews' \subseteq Review /\ IsFiniteSet(reviews')
    BY FS_Subset DEF Inv, TypeOK, LogInv
<1>2. ASSUME NEW r \in reviews' PROVE r.id <= clock'
    <2>1. r \in reviews /\ r \in Review /\ r.id <= clock
        BY DEF Inv, TypeOK, LogInv
    <2>2. r.id \in Nat /\ clock \in Nat /\ clock' \in Nat /\ clock <= clock'
        BY <2>1 DEF Review, Inv, TypeOK, Moves
    <2> QED BY <2>1, <2>2
<1>3. TypeOK' /\ LogInv' /\ CarriedInv' /\ PlanInv'
    BY <1>1, <1>2, MovesKeepTypes
<1>4. \A s \in Sessions : Queue(s)' = Queue(s)
    BY DEF Moves, Queue
<1>5. req'[p] = q /\ \A r \in Requests \ {p} : req'[r] = req[r]
    BY DEF Moves, Inv, TypeOK
<1>6. ASSUME NEW s \in Sessions PROVE InFlight(s)' \subseteq InFlight(s)
    <2>1. s # None
        BY DEF SessionAssumption
    <2> QED BY <1>5, <2>1 DEF InFlight
<1>7. Room'
    BY <1>4, <1>6, RoomKept
<1> QED BY <1>3, <1>7 DEF Inv

--------------------------------------------------------------------------------
(* The steps of an answer and of a grading.                                *)

LEMMA OpenAnswerKeeps ==
    ASSUME SessionAssumption, Inv, NEW p \in Requests, NEW s \in Sessions, NEW c \in Cards,
           OpenAnswer(p, s, c)
    PROVE  Inv'
<1> DEFINE q == [Idle EXCEPT !.stage = "cursor", !.session = s, !.card = c]
<1>1. q \in Request /\ StageOK(q) /\ q.stage = "cursor"
    BY DEF Idle, Request, Stages, Statuses, StageOK
<1>2. Moves(p, q)
    BY <1>1 DEF Moves, OpenAnswer, Inv, TypeOK
<1>3. reviews' = reviews
    BY DEF OpenAnswer
<1> HIDE DEF q
<1> QED BY <1>1, <1>2, <1>3, MovesKeepInv

LEMMA OpenGradingKeeps ==
    ASSUME SessionAssumption, Inv, NEW p \in Requests, NEW c \in Cards, OpenGrading(p, c)
    PROVE  Inv'
<1> DEFINE q == [Idle EXCEPT !.stage = "grade", !.card = c]
<1>1. q \in Request /\ StageOK(q) /\ q.stage = "grade" /\ q.session = None
    BY DEF Idle, Request, Stages, Statuses, StageOK
<1>2. Moves(p, q)
    BY <1>1 DEF Moves, OpenGrading, Inv, TypeOK
<1>3. reviews' = reviews
    BY DEF OpenGrading
<1> HIDE DEF q
<1> QED BY <1>1, <1>2, <1>3, MovesKeepInv

LEMMA IdleKeeps ==
    ASSUME SessionAssumption, Inv, NEW p \in Requests, Finish(p), reviews' \subseteq reviews,
           clock' = clock, cards' = cards, revoked' \subseteq ledger',
           sessions' \in [Sessions -> [status : Statuses, queue : Seq(Cards)]],
           \A s \in Sessions :
              /\ sessions'[s].queue = sessions[s].queue
              /\ sessions'[s].status = "none" => sessions[s].status = "none"
    PROVE  Inv'
<1>1. Idle \in Request /\ StageOK(Idle) /\ Idle.stage = "idle"
    BY IdleType DEF StageOK, Idle
<1>2. Moves(p, Idle)
    BY <1>1 DEF Moves, Finish, Inv, TypeOK
<1> QED BY <1>1, <1>2, MovesKeepInv

\* Passing the check needs a cursor inside the queue; the requests in flight
\* are at most all requests, so there is room again.
LEMMA CheckCursorKeeps ==
    ASSUME SessionAssumption, Inv, NEW p \in Requests, CheckCursor(p)
    PROVE  Inv'
<1> DEFINE s == req[p].session
           cursor == Cursor(s)
<1>1. s \in Sessions /\ req[p] \in Request /\ req[p].card \in Cards
    BY DEF CheckCursor, At, Inv, TypeOK, StageOK
<1>2. CASE ~IsExpected(s, cursor, req[p].card)
    <2>1. Finish(p) /\ UNCHANGED <<clock, cards, reviews, sessions, ledger, revoked>>
        BY <1>2 DEF CheckCursor
    <2> QED BY <2>1, IdleKeeps DEF Inv, TypeOK
<1>3. CASE IsExpected(s, cursor, req[p].card)
    <2> DEFINE q == [req[p] EXCEPT !.stage = "grade", !.cursor = cursor]
    <2>1. /\ req' = [req EXCEPT ![p].stage = "grade", ![p].cursor = cursor]
          /\ UNCHANGED <<clock, cards, reviews, sessions, ledger, revoked>>
        BY <1>3 DEF CheckCursor
    <2>2. cursor \in Nat
        BY <1>1, FiniteParts
    <2>3. "grade" \in Stages
        BY DEF Stages
    <2>4. q \in Request /\ q.stage = "grade" /\ q.card = req[p].card
        BY <1>1, <2>2, <2>3 DEF Request
    <2>5. StageOK(q)
        BY <1>1, <2>4 DEF StageOK
    <2>6. req' = [req EXCEPT ![p] = q]
        BY <2>1 DEF Inv, TypeOK
    <2>7. Moves(p, q)
        <3> HIDE DEF q
        <3>1. clock' = clock /\ UNCHANGED <<cards, sessions, ledger, revoked>>
            BY <2>1
        <3>2. q.stage = "grade"
            BY <2>4
        <3> QED BY <2>4, <2>5, <2>6, <3>1, <3>2, TablesStay DEF Moves
    <2>8. reviews' \subseteq Review /\ IsFiniteSet(reviews') /\ \A r \in reviews' : r.id <= clock'
        BY <2>1 DEF Inv, TypeOK, LogInv
    <2>9. TypeOK' /\ LogInv' /\ CarriedInv' /\ PlanInv'
        <3> HIDE DEF q
        <3> QED BY <2>7, <2>8, MovesKeepTypes
    <2>10. Room'
        <3> SUFFICES ASSUME NEW t \in Sessions
                     PROVE  Cursor(t)' + Cardinality(InFlight(t))'
                                <= Len(Queue(t))' + Cardinality(Requests) - 1
            BY DEF Room
        <3>1. Cursor(t)' = Cursor(t) /\ Queue(t)' = Queue(t)
            BY <2>1 DEF Cursor, GetSessionReviews, Queue
        <3>2. CASE t = s
            <4>1. InFlight(t)' \subseteq Requests
                BY DEF InFlight
            <4>2. Cardinality(InFlight(t))' \in Nat
                  /\ Cardinality(InFlight(t))' <= Cardinality(Requests)
                BY <4>1, FS_Subset, FS_CardinalityType DEF SessionAssumption
            <4>3. Cursor(t) < Len(Queue(t))
                BY <1>3, <3>2 DEF IsExpected
            <4> QED BY <3>1, <4>2, <4>3, FiniteParts
        <3>3. CASE t # s
            <4>1. req'[p] = q /\ q.session = s /\ \A r \in Requests \ {p} : req'[r] = req[r]
                BY <1>1, <2>6 DEF Inv, TypeOK, Request
            <4>2. InFlight(t)' = InFlight(t)
                BY <3>3, <4>1 DEF InFlight
            <4> QED BY <3>1, <4>2 DEF Inv, Room
        <3> QED BY <3>2, <3>3
    <2> QED BY <2>9, <2>10 DEF Inv
<1> QED BY <1>2, <1>3

LEMMA ReadCardKeeps ==
    ASSUME SessionAssumption, Inv, NEW p \in Requests, ReadCard(p)
    PROVE  Inv'
<1> DEFINE r == [id |-> clock + 1, card |-> req[p].card, session |-> req[p].session,
                 before |-> cards[req[p].card]]
           q == [req[p] EXCEPT !.stage = "update", !.review = r]
<1>1. /\ req[p] \in Request /\ req[p].card \in Cards /\ req[p].session \in Sessions \cup {None}
      /\ req[p].stage = "grade"
      /\ clock \in Nat /\ clock' = clock + 1 /\ reviews' = reviews
      /\ cards[req[p].card] \in Seq(Nat)
    BY DEF ReadCard, At, Inv, TypeOK, StageOK, Request
<1>2. r \in Review /\ r.id = clock + 1 /\ r.session = req[p].session
    BY <1>1 DEF Review
<1>3. "update" \in Stages
    BY DEF Stages
<1> HIDE DEF r
<1>4. q \in Request /\ q.stage = "update" /\ q.review = r /\ q.session = req[p].session
    BY <1>1, <1>2, <1>3 DEF Request
<1>5. req' = [req EXCEPT ![p] = q]
    BY DEF ReadCard, Inv, TypeOK, r
<1> HIDE DEF q
<1>6. StageOK(q)
    BY <1>2, <1>4 DEF StageOK
<1>7. Moves(p, q)
    <2>1. UNCHANGED <<cards, sessions, ledger, revoked>>
        BY DEF ReadCard
    <2> QED BY <1>1, <1>2, <1>4, <1>5, <1>6, <2>1, TablesStay DEF Moves
<1> QED BY <1>1, <1>4, <1>7, MovesKeepInv

\* Going to another stage with the same locals, without starting to grade.
LEMMA GoToKeeps ==
    ASSUME SessionAssumption, Inv, NEW p \in Requests, NEW stage \in Stages, GoTo(p, stage),
           StageOK([req[p] EXCEPT !.stage = stage]),
           stage # "grade" /\ (stage \in {"update", "log"} => req[p].stage \in {"update", "log"}),
           clock' = clock, cards' \in [Cards -> Seq(Nat)], reviews' \subseteq reviews,
           revoked' \subseteq ledger',
           sessions' \in [Sessions -> [status : Statuses, queue : Seq(Cards)]],
           \A s \in Sessions :
              /\ sessions'[s].queue = sessions[s].queue
              /\ sessions'[s].status = "none" => sessions[s].status = "none"
    PROVE  Inv'
<1> DEFINE q == [req[p] EXCEPT !.stage = stage]
<1>1. /\ q \in Request /\ q.stage = stage /\ q.session = req[p].session
      /\ q.review = req[p].review
    <2>1. req[p] \in Request
        BY DEF Inv, TypeOK
    <2> QED BY <2>1 DEF Request
<1>2. req' = [req EXCEPT ![p] = q]
    BY DEF GoTo, Inv, TypeOK
<1>3. StageOK(q)
    OBVIOUS
<1> HIDE DEF q
<1>4. q.stage \in {"update", "log"} => q.review.session = q.session /\ q.review.id <= clock'
    BY <1>1 DEF Inv, CarriedInv
<1>5. Moves(p, q)
    BY <1>1, <1>2, <1>3, <1>4 DEF Moves, Inv, TypeOK
<1> QED BY <1>1, <1>5, MovesKeepInv

\* A stage that needs no more than the one before it is well-formed.
LEMMA StageKeeps ==
    ASSUME TypeOK, NEW p \in Requests, NEW stage,
           stage \in {"drain", "bonus", "restore", "revoke", "delete", "reopen"}
               => req[p].session \in Sessions,
           stage \in {"update", "log", "award", "restore", "revoke", "delete"}
               => req[p].review \in Review,
           stage \notin {"cursor", "undo", "grade"}
    PROVE  StageOK([req[p] EXCEPT !.stage = stage])
<1>1. req[p] \in Request
    BY DEF TypeOK
<1> QED BY <1>1 DEF StageOK, Request

LEMMA UpdateCardKeeps ==
    ASSUME SessionAssumption, Inv, NEW p \in Requests, UpdateCard(p)
    PROVE  Inv'
<1>1. req[p].review \in Review /\ req[p].stage = "update" /\ "log" \in Stages
    BY DEF UpdateCard, At, Inv, TypeOK, StageOK, Stages
<1>2. Append(req[p].review.before, req[p].review.id) \in Seq(Nat)
    BY <1>1 DEF Review
<1>3. cards' \in [Cards -> Seq(Nat)]
    BY <1>2 DEF UpdateCard, Inv, TypeOK
<1>4. StageOK([req[p] EXCEPT !.stage = "log"])
    BY <1>1, StageKeeps DEF Inv
<1> QED BY <1>1, <1>3, <1>4, GoToKeeps DEF UpdateCard, Inv, TypeOK

\* The inserted review takes the place of the request that was in flight.
LEMMA InsertReviewKeeps ==
    ASSUME SessionAssumption, Inv, NEW p \in Requests, InsertReview(p)
    PROVE  Inv'
<1> DEFINE r == req[p].review
           q == [req[p] EXCEPT !.stage = "award"]
<1>1. /\ r \in Review /\ r.id <= clock /\ r.session = req[p].session
      /\ req[p].stage = "log" /\ req[p] \in Request /\ "award" \in Stages
    BY DEF InsertReview, At, Inv, TypeOK, StageOK, Stages, CarriedInv
<1>2. /\ reviews' = reviews \cup {r}
      /\ req' = [req EXCEPT ![p].stage = "award"]
      /\ UNCHANGED <<clock, cards, sessions, ledger, revoked>>
    BY DEF InsertReview, GoTo, Snapshot
<1>3. q \in Request /\ q.stage = "award" /\ q.session = req[p].session
    BY <1>1 DEF Request
<1>4. StageOK(q)
    BY <1>1, StageKeeps DEF Inv
<1>5. req' = [req EXCEPT ![p] = q]
    BY <1>2 DEF Inv, TypeOK
<1> HIDE DEF q
<1>6. Moves(p, q)
    <2>1. clock' = clock /\ UNCHANGED <<cards, sessions, ledger, revoked>>
        BY <1>2
    <2> QED BY <1>3, <1>4, <1>5, <2>1, TablesStay DEF Moves
<1>7. reviews' \subseteq Review /\ IsFiniteSet(reviews') /\ \A x \in reviews' : x.id <= clock'
    BY <1>1, <1>2, FS_AddElement DEF Inv, TypeOK, LogInv
<1>8. TypeOK' /\ LogInv' /\ CarriedInv' /\ PlanInv'
    BY <1>6, <1>7, MovesKeepTypes
<1>9. Room'
    <2> SUFFICES ASSUME NEW s \in Sessions
                 PROVE  Cursor(s)' + Cardinality(InFlight(s))'
                            <= Len(Queue(s))' + Cardinality(Requests) - 1
        BY DEF Room
    <2>1. Queue(s)' = Queue(s)
        BY <1>2 DEF Queue
    <2>2. req'[p] = q /\ \A x \in Requests \ {p} : req'[x] = req[x]
        BY <1>5 DEF Inv, TypeOK
    <2>3. InFlight(s)' = InFlight(s) \ {p}
        BY <1>3, <2>2 DEF InFlight
    <2>4. CASE r.session = s
        <3>1. GetSessionReviews(s)' = GetSessionReviews(s) \cup {r}
            BY <1>2, <2>4 DEF GetSessionReviews
        <3>2. Cursor(s)' \in Nat /\ Cursor(s)' <= Cursor(s) + 1
            <4> DEFINE R == GetSessionReviews(s)
            <4>1. IsFiniteSet(R) /\ Cardinality(R) \in Nat
                BY FiniteParts DEF Cursor
            <4>2. /\ Cardinality(R \cup {r}) \in Nat
                  /\ Cardinality(R \cup {r}) <= Cardinality(R) + 1
                <5> HIDE DEF R, r
                <5>1. Cardinality(R \cup {r}) = IF r \in R THEN Cardinality(R)
                                                ELSE Cardinality(R) + 1
                    BY <4>1, FS_AddElement
                <5> QED BY <4>1, <5>1
            <4> QED BY <3>1, <4>2 DEF Cursor
        <3>3. p \in InFlight(s)
            BY <1>1, <2>4 DEF InFlight
        <3>4. Cardinality(InFlight(s))' = Cardinality(InFlight(s)) - 1
            BY <2>3, <3>3, FiniteParts, FS_RemoveElement
        <3> QED BY <2>1, <3>2, <3>4, FiniteParts DEF Inv, Room
    <2>5. CASE r.session # s
        <3>1. GetSessionReviews(s)' = GetSessionReviews(s)
            BY <1>2, <2>5 DEF GetSessionReviews
        <3>2. InFlight(s)' = InFlight(s)
            BY <1>1, <2>3, <2>5 DEF InFlight
        <3> QED BY <2>1, <3>1, <3>2 DEF Inv, Room, Cursor
    <2> QED BY <2>4, <2>5
<1> QED BY <1>8, <1>9 DEF Inv

LEMMA AwardsKeep ==
    ASSUME SessionAssumption, Inv, NEW p \in Requests,
           Award(p) \/ AwardStreak(p) \/ CompleteDrained(p) \/ AwardBonus(p)
    PROVE  Inv'
<1>1. \A key : AwardSafe(key) => revoked' \subseteq ledger'
    BY DEF AwardSafe, Inv, TypeOK
<1>2. "streak" \in Stages /\ "drain" \in Stages /\ "bonus" \in Stages
    BY DEF Stages
<1>3. CASE Award(p)
    <2>1. StageOK([req[p] EXCEPT !.stage = "streak"])
        BY StageKeeps DEF Inv
    <2> QED BY <1>1, <1>2, <1>3, <2>1, GoToKeeps DEF Award, Inv, TypeOK
<1>4. CASE AwardStreak(p)
    <2>1. req[p].session # None => req[p].session \in Sessions
        BY DEF Inv, TypeOK, Request
    <2>2. req[p].session # None => StageOK([req[p] EXCEPT !.stage = "drain"])
        BY <2>1, StageKeeps DEF Inv
    <2>3. revoked' \subseteq ledger' /\ UNCHANGED <<clock, cards, reviews, sessions>>
        BY <1>1, <1>4 DEF AwardStreak
    <2>4. CASE Finish(p)
        BY <2>3, <2>4, IdleKeeps DEF Inv, TypeOK
    <2>5. CASE req[p].session # None /\ GoTo(p, "drain")
        BY <1>2, <2>2, <2>3, <2>5, GoToKeeps DEF Inv, TypeOK
    <2> QED BY <1>4, <2>4, <2>5 DEF AwardStreak
<1>5. CASE CompleteDrained(p)
    <2>1. req[p].session \in Sessions /\ "completed" \in Statuses
        BY <1>5 DEF CompleteDrained, At, Inv, TypeOK, StageOK, Statuses
    <2>2. StageOK([req[p] EXCEPT !.stage = "bonus"])
        BY <2>1, StageKeeps DEF Inv
    <2>3. /\ sessions' \in [Sessions -> [status : Statuses, queue : Seq(Cards)]]
          /\ \A s \in Sessions :
                /\ sessions'[s].queue = sessions[s].queue
                /\ sessions'[s].status = "none" => sessions[s].status = "none"
        BY <1>5, <2>1 DEF CompleteDrained, Inv, TypeOK
    <2> QED BY <1>2, <1>5, <2>2, <2>3, GoToKeeps DEF CompleteDrained, Inv, TypeOK
<1>6. CASE AwardBonus(p)
    BY <1>1, <1>6, IdleKeeps DEF AwardBonus, Inv, TypeOK
<1> QED BY <1>3, <1>4, <1>5, <1>6

--------------------------------------------------------------------------------
(* The steps of an undo, and the ends of sessions.                         *)

LEMMA OpenUndoKeeps ==
    ASSUME SessionAssumption, Inv, NEW p \in Requests, NEW s \in Sessions, OpenUndo(p, s)
    PROVE  Inv'
<1> DEFINE q == [Idle EXCEPT !.stage = "undo", !.session = s, !.status = sessions[s].status]
<1>1. sessions[s].status \in Statuses
    BY DEF Inv, TypeOK
<1>2. q \in Request /\ StageOK(q) /\ q.stage = "undo"
    BY <1>1 DEF Idle, Request, Stages, Statuses, StageOK
<1>3. req' = [req EXCEPT ![p] = q] /\ UNCHANGED <<clock, cards, reviews, sessions, ledger, revoked>>
    BY DEF OpenUndo
<1> HIDE DEF q
<1>4. Moves(p, q)
    BY <1>2, <1>3 DEF Moves, Inv, TypeOK
<1> QED BY <1>2, <1>3, <1>4, MovesKeepInv

LEMMA FindLastKeeps ==
    ASSUME SessionAssumption, Inv, NEW p \in Requests, FindLast(p)
    PROVE  Inv'
<1> DEFINE s == req[p].session
           q == [req[p] EXCEPT !.stage = "restore", !.review = LastReview(s)]
<1>1. /\ s \in Sessions /\ req[p] \in Request /\ "restore" \in Stages
      /\ UNCHANGED <<clock, cards, reviews, sessions, ledger, revoked>>
    BY DEF FindLast, At, Inv, TypeOK, StageOK, Stages
<1>2. CASE Finish(p)
    BY <1>1, <1>2, IdleKeeps DEF Inv, TypeOK
<1>3. CASE GetSessionReviews(s) # {} /\ req' = [req EXCEPT ![p].stage = "restore",
                                                          ![p].review = LastReview(s)]
    <2>1. LastReview(s) \in Review
        BY <1>3, LastReviewExists DEF Inv, TypeOK, GetSessionReviews
    <2>2. /\ q \in Request /\ q.stage = "restore" /\ q.review = LastReview(s)
          /\ q.session = s
        BY <1>1, <2>1 DEF Request
    <2>3. req' = [req EXCEPT ![p] = q]
        BY <1>3 DEF Inv, TypeOK
    <2> HIDE DEF q
    <2>4. StageOK(q)
        BY <1>1, <2>1, <2>2 DEF StageOK
    <2>5. Moves(p, q)
        BY <1>1, <2>2, <2>3, <2>4 DEF Moves, Inv, TypeOK
    <2> QED BY <1>1, <2>2, <2>5, MovesKeepInv
<1> QED BY <1>2, <1>3 DEF FindLast

LEMMA UndoStepsKeep ==
    ASSUME SessionAssumption, Inv, NEW p \in Requests,
           RestoreCard(p) \/ RevokeXp(p) \/ DeleteReview(p) \/ Reopen(p)
    PROVE  Inv'
<1>1. "revoke" \in Stages /\ "delete" \in Stages /\ "reopen" \in Stages
    BY DEF Stages
<1>2. /\ req[p].stage \in {"restore", "revoke", "delete"} => req[p].review \in Review
      /\ req[p].stage \in {"restore", "revoke", "delete", "reopen"} => req[p].session \in Sessions
    BY DEF Inv, TypeOK, StageOK
<1>3. CASE RestoreCard(p)
    <2>1. req[p].stage = "restore"
        BY <1>3 DEF RestoreCard, At
    <2>2. req[p].review.before \in Seq(Nat)
        BY <1>2, <2>1 DEF Review
    <2>3. cards' \in [Cards -> Seq(Nat)]
        BY <1>3, <2>2 DEF RestoreCard, Inv, TypeOK
    <2>4. StageOK([req[p] EXCEPT !.stage = "revoke"])
        BY <1>2, <2>1, StageKeeps DEF Inv
    <2> QED BY <1>1, <1>3, <2>3, <2>4, GoToKeeps DEF RestoreCard, Inv, TypeOK
<1>4. CASE RevokeXp(p)
    <2>1. StageOK([req[p] EXCEPT !.stage = "delete"])
        BY <1>2, <1>4, StageKeeps DEF Inv, RevokeXp, At
    <2>2. revoked' \subseteq ledger'
        BY <1>4 DEF RevokeXp, Revoke, Inv, TypeOK
    <2> QED BY <1>1, <1>4, <2>1, <2>2, GoToKeeps DEF RevokeXp, Inv, TypeOK
<1>5. CASE DeleteReview(p)
    <2>1. StageOK([req[p] EXCEPT !.stage = "reopen"])
        BY <1>2, <1>5, StageKeeps DEF Inv, DeleteReview, At
    <2>2. reviews' \subseteq reviews /\ UNCHANGED <<clock, cards, sessions, ledger, revoked>>
        BY <1>5 DEF DeleteReview
    <2>3. CASE Finish(p)
        BY <2>2, <2>3, IdleKeeps DEF Inv, TypeOK
    <2>4. CASE GoTo(p, "reopen")
        BY <1>1, <2>1, <2>2, <2>4, GoToKeeps DEF Inv, TypeOK
    <2> QED BY <1>5, <2>3, <2>4 DEF DeleteReview
<1>6. CASE Reopen(p)
    <2>1. req[p].session \in Sessions /\ "active" \in Statuses
        BY <1>2, <1>6 DEF Reopen, At, Statuses
    <2>2. /\ sessions' \in [Sessions -> [status : Statuses, queue : Seq(Cards)]]
          /\ \A s \in Sessions :
                /\ sessions'[s].queue = sessions[s].queue
                /\ sessions'[s].status = "none" => sessions[s].status = "none"
        BY <1>6, <2>1 DEF Reopen, Inv, TypeOK
    <2> QED BY <1>6, <2>2, IdleKeeps DEF Reopen, Inv, TypeOK
<1> QED BY <1>3, <1>4, <1>5, <1>6

LEMMA CrashKeeps ==
    ASSUME SessionAssumption, Inv, NEW p \in Requests, Crash(p)
    PROVE  Inv'
BY IdleKeeps DEF Crash, Inv, TypeOK

\* A new plan only lengthens a queue that was empty.
LEMMA PlanKeeps ==
    ASSUME SessionAssumption, Inv, NEW s \in Sessions, NEW queue \in Plans, Plan(s, queue)
    PROVE  Inv'
<1>1. /\ queue \in Seq(Cards) /\ "active" \in Statuses /\ Queue(s) = <<>>
      /\ UNCHANGED <<clock, cards, reviews, ledger, revoked, req>>
    BY DEF SessionAssumption, Plan, Statuses, Inv, PlanInv
<1>2. /\ sessions' \in [Sessions -> [status : Statuses, queue : Seq(Cards)]]
      /\ sessions'[s].status = "active" /\ sessions'[s].queue = queue
      /\ \A t \in Sessions \ {s} : sessions'[t] = sessions[t]
    BY <1>1 DEF Plan, Inv, TypeOK
<1>3. TypeOK' /\ LogInv' /\ CarriedInv' /\ PlanInv'
    BY <1>1, <1>2 DEF Inv, TypeOK, LogInv, CarriedInv, PlanInv, Queue
<1>4. Room'
    <2> SUFFICES ASSUME NEW t \in Sessions
                 PROVE  Cursor(t)' + Cardinality(InFlight(t))'
                            <= Len(Queue(t))' + Cardinality(Requests) - 1
        BY DEF Room
    <2>1. Cursor(t)' = Cursor(t) /\ InFlight(t)' = InFlight(t)
        BY <1>1 DEF Cursor, GetSessionReviews, InFlight
    <2>2. Len(Queue(t))' \in Nat /\ Len(Queue(t))' >= Len(Queue(t))
        <3>1. CASE t = s
            <4>1. Queue(t)' = queue /\ Len(queue) \in Nat /\ Len(Queue(t)) = 0
                BY <1>1, <1>2, <3>1 DEF Queue
            <4> QED BY <4>1
        <3>2. CASE t # s
            <4>1. Queue(t)' = Queue(t)
                BY <1>2, <3>2 DEF Queue
            <4> QED BY <4>1, FiniteParts
        <3> QED BY <3>1, <3>2
    <2> QED BY <2>1, <2>2, FiniteParts DEF Inv, Room
<1> QED BY <1>3, <1>4 DEF Inv

LEMMA EndSessionKeeps ==
    ASSUME SessionAssumption, Inv, NEW s \in Sessions, CompleteSession(s) \/ AbandonSession(s)
    PROVE  Inv'
<1>1. PICK status \in {"completed", "abandoned"} : EndSession(s, status)
    BY DEF CompleteSession, AbandonSession
<1>2. /\ sessions' \in [Sessions -> [status : Statuses, queue : Seq(Cards)]]
      /\ \A t \in Sessions : Queue(t)' = Queue(t)
      /\ \A t \in Sessions : sessions'[t].status = "none" => sessions[t].status = "none"
      /\ UNCHANGED <<clock, cards, reviews, ledger, revoked, req>>
    BY <1>1 DEF EndSession, Statuses, Inv, TypeOK, Queue
<1>3. \A t \in Sessions : InFlight(t)' = InFlight(t)
    BY <1>2 DEF InFlight
<1>4. Room'
    BY <1>2, <1>3, RoomKept
<1> QED BY <1>2, <1>4 DEF Inv, TypeOK, LogInv, CarriedInv, PlanInv

--------------------------------------------------------------------------------
LEMMA InitInv ==
    ASSUME SessionAssumption, Init
    PROVE  Inv
<1>1. TypeOK
    BY IdleType DEF Init, TypeOK, StageOK, Idle, Statuses
<1>2. LogInv /\ CarriedInv /\ PlanInv
    BY FS_EmptySet DEF Init, LogInv, CarriedInv, PlanInv, Idle, Queue
<1>3. Room
    <2> SUFFICES ASSUME NEW s \in Sessions
                 PROVE  Cursor(s) + Cardinality(InFlight(s))
                            <= Len(Queue(s)) + Cardinality(Requests) - 1
        BY DEF Room
    <2>1. GetSessionReviews(s) = {} /\ InFlight(s) = {} /\ Queue(s) = <<>>
        BY DEF Init, GetSessionReviews, InFlight, Queue, Idle
    <2>2. Cardinality(Requests) \in Nat /\ Cardinality(Requests) # 0
        BY FS_EmptySet, FS_CardinalityType DEF SessionAssumption
    <2> QED BY <2>1, <2>2, FS_EmptySet DEF Cursor
<1> QED BY <1>1, <1>2, <1>3 DEF Inv

LEMMA StepInv ==
    ASSUME SessionAssumption, Inv, [Next]_vars
    PROVE  Inv'
<1>1. CASE UNCHANGED vars
    BY <1>1 DEF vars, Inv, TypeOK, LogInv, CarriedInv, PlanInv, Room, Cursor,
        GetSessionReviews, Queue, InFlight
<1>2. ASSUME NEW p \in Requests, Answer(p) PROVE Inv'
    BY <1>2, OpenAnswerKeeps, CheckCursorKeeps, AwardsKeep DEF Answer
<1>3. ASSUME NEW p \in Requests, GradeCard(p) PROVE Inv'
    BY <1>3, OpenGradingKeeps, ReadCardKeeps, UpdateCardKeeps, InsertReviewKeeps, AwardsKeep
        DEF GradeCard
<1>4. ASSUME NEW p \in Requests, Undo(p) PROVE Inv'
    BY <1>4, OpenUndoKeeps, FindLastKeeps, UndoStepsKeep DEF Undo
<1>5. ASSUME NEW s \in Sessions, Lifecycle(s) PROVE Inv'
    BY <1>5, PlanKeeps, EndSessionKeeps DEF Lifecycle
<1> QED BY <1>1, <1>2, <1>3, <1>4, <1>5, CrashKeeps DEF Next

THEOREM Invariance == Spec => []Inv
<1>1. Init => Inv
    BY InitInv, SessionAssumption
<1>2. Inv /\ [Next]_vars => Inv'
    BY StepInv, SessionAssumption
<1> QED BY <1>1, <1>2, PTL DEF Spec

\* Types of the tables and of what every request carries from statement to
\* statement, whatever the interleaving, the crashes and the plans.
THEOREM SessionTypes == Spec => []TypeOK
<1>1. Inv => TypeOK
    BY DEF Inv
<1> QED BY <1>1, Invariance, PTL

\* However many requests overlap on a session, its log exceeds its queue by
\* fewer answers than there are requests.
THEOREM OvershootIsBounded == Spec => []OvershootBounded
<1>1. Inv => OvershootBounded
    <2> SUFFICES ASSUME Inv, NEW s \in Sessions
                 PROVE  Cursor(s) <= Len(Queue(s)) + Cardinality(Requests) - 1
        BY DEF OvershootBounded
    <2> QED BY FiniteParts, SessionAssumption DEF Inv, Room
<1> QED BY <1>1, Invariance, PTL

--------------------------------------------------------------------------------
(* One client.  While no two requests overlap, the locals of the request   *)
(* that runs still describe the tables: what a grading checked and what an *)
(* undo found is what its later statements find.                           *)

\* A request that is not idle sits in a slot in use.
SlotInv ==
    /\ env \in Environments
    /\ \A p \in Requests : ~At(p, "idle") => p \in env.slots

RequestStep(p) == Answer(p) \/ GradeCard(p) \/ Undo(p) \/ Crash(p)

LEMMA StepsOfRequests ==
    ASSUME TypeOK, SlotInv, NEW p \in Requests, RequestStep(p)
    PROVE  /\ p \in env.slots /\ env' = env
           /\ \A q \in Requests \ {p} : req'[q] = req[q]
<1>1. req \in [Requests -> Request]
    BY DEF TypeOK
<1>2. CASE Answer(p)
    BY <1>1, <1>2 DEF SlotInv, At, Free, GoTo, Finish, Answer, OpenAnswer, CheckCursor,
        CompleteDrained, AwardBonus
<1>3. CASE GradeCard(p)
    BY <1>1, <1>3 DEF SlotInv, At, Free, GoTo, Finish, GradeCard, OpenGrading, ReadCard,
        UpdateCard, InsertReview, Award, AwardStreak
<1>4. CASE Undo(p)
    BY <1>1, <1>4 DEF SlotInv, At, Free, GoTo, Finish, Undo, OpenUndo, FindLast, RestoreCard,
        RevokeXp, DeleteReview, Reopen
<1>5. CASE Crash(p)
    BY <1>1, <1>5 DEF SlotInv, At, Finish, Crash
<1> QED BY <1>2, <1>3, <1>4, <1>5 DEF RequestStep

LEMMA StepsOfSessions ==
    ASSUME NEW s \in Sessions, Lifecycle(s)
    PROVE  UNCHANGED <<clock, cards, reviews, ledger, revoked, req, env>>
BY DEF Lifecycle, Plan, CompleteSession, AbandonSession, EndSession

LEMMA SlotInvIsInductive ==
    /\ Init => SlotInv
    /\ TypeOK /\ SlotInv /\ [Next]_vars => SlotInv' /\ env' = env
<1>1. Init => SlotInv
    BY DEF Init, SlotInv, At, Idle
<1>2. ASSUME TypeOK, SlotInv, NEW p \in Requests, RequestStep(p) PROVE SlotInv' /\ env' = env
    BY <1>2, StepsOfRequests DEF SlotInv, At
<1>3. ASSUME SlotInv, NEW s \in Sessions, Lifecycle(s) PROVE SlotInv' /\ env' = env
    BY <1>3, StepsOfSessions DEF SlotInv, At
<1>4. ASSUME SlotInv, UNCHANGED vars PROVE SlotInv' /\ env' = env
    BY <1>4 DEF vars, SlotInv, At
<1> QED BY <1>1, <1>2, <1>3, <1>4 DEF Next, RequestStep

\* With one slot in use, the request that takes a step is the only one.
LEMMA OthersAreIdle ==
    ASSUME SessionAssumption, TypeOK, SlotInv, Alone, NEW p \in Requests, RequestStep(p),
           NEW q \in Requests \ {p}
    PROVE  req'[q] = req[q] /\ req[q].stage = "idle"
<1>1. p \in env.slots /\ req'[q] = req[q]
    BY StepsOfRequests
<1>2. env.slots \subseteq Requests
    BY DEF SlotInv, SessionAssumption
<1>3. PICK x : env.slots = {x}
    BY <1>2, FS_Subset, FS_Singleton DEF Alone, SessionAssumption
<1>4. q \notin env.slots
    BY <1>1, <1>3
<1> QED BY <1>1, <1>4 DEF SlotInv, At

\* The locals after a change of stage, and after the end.
LEMMA AfterGoTo ==
    ASSUME TypeOK, NEW p \in Requests, NEW stage, GoTo(p, stage)
    PROVE  /\ req'[p].stage = stage
           /\ req'[p].session = req[p].session /\ req'[p].card = req[p].card
           /\ req'[p].cursor = req[p].cursor /\ req'[p].review = req[p].review
BY DEF TypeOK, Request, GoTo

LEMMA AfterOpen ==
    ASSUME TypeOK, NEW p \in Requests
    PROVE  /\ \A s \in Sessions, c \in Cards : OpenAnswer(p, s, c) => req'[p].stage = "cursor"
           /\ \A c \in Cards : OpenGrading(p, c) =>
                 /\ env.direct /\ req'[p].stage = "grade" /\ req'[p].session = None
           /\ \A s \in Sessions : OpenUndo(p, s) => req'[p].stage = "undo"
<1>1. ASSUME NEW s \in Sessions, NEW c \in Cards, OpenAnswer(p, s, c)
      PROVE  req'[p].stage = "cursor"
    BY <1>1 DEF OpenAnswer, TypeOK, Idle
<1>2. ASSUME NEW c \in Cards, OpenGrading(p, c)
      PROVE  env.direct /\ req'[p].stage = "grade" /\ req'[p].session = None
    BY <1>2 DEF OpenGrading, TypeOK, Idle
<1>3. ASSUME NEW s \in Sessions, OpenUndo(p, s) PROVE req'[p].stage = "undo"
    BY <1>3 DEF OpenUndo, TypeOK, Idle
<1> QED BY <1>1, <1>2, <1>3

LEMMA AfterFinish ==
    ASSUME TypeOK, NEW p \in Requests, Finish(p)
    PROVE  req'[p].stage = "idle"
BY DEF TypeOK, Finish, Idle

--------------------------------------------------------------------------------
(* Points and the log.                                                     *)

\* What stands in the ledger is in the log: an award comes after the insert of
\* its review, a delete after the revocation.
StandingInv ==
    /\ \A key \in ledger \ revoked :
          key[1] = "review" => \E r \in reviews : key = ReviewKey(r.id)
    /\ \A p \in Requests : At(p, "award") => req[p].review \in reviews
    /\ \A p \in Requests : At(p, "delete") => ReviewKey(req[p].review.id) \notin ledger \ revoked

LEMMA RequestsKeepStanding ==
    ASSUME SessionAssumption, TypeOK, SlotInv, Alone, StandingInv,
           NEW p \in Requests, RequestStep(p)
    PROVE  StandingInv'
<1>1. \A q \in Requests \ {p} : req'[q].stage = "idle"
    BY OthersAreIdle
<1>2. CASE UNCHANGED <<reviews, ledger, revoked>> /\ req'[p].stage \notin {"award", "delete"}
    BY <1>1, <1>2 DEF StandingInv, At
<1>3. CASE InsertReview(p)
    <2>1. /\ req'[p].stage = "award" /\ req'[p].review = req[p].review
          /\ reviews' = reviews \cup {req[p].review} /\ UNCHANGED <<ledger, revoked>>
        BY <1>3, AfterGoTo DEF InsertReview, Snapshot
    <2> QED BY <1>1, <2>1 DEF StandingInv, At
<1>4. CASE Award(p)
    <2>1. req'[p].stage = "streak" /\ reviews' = reviews
        BY <1>4, AfterGoTo DEF Award
    <2>2. req[p].review \in reviews
        BY <1>4 DEF Award, StandingInv
    <2>3. ledger' \ revoked' \subseteq (ledger \ revoked) \cup {ReviewKey(req[p].review.id)}
        BY <1>4 DEF Award, AwardSafe
    <2> QED BY <1>1, <2>1, <2>2, <2>3 DEF StandingInv, At
<1>5. CASE AwardStreak(p) \/ AwardBonus(p)
    <2>1. req'[p].stage \in {"idle", "drain"} /\ reviews' = reviews
        BY <1>5, AfterGoTo, AfterFinish DEF AwardStreak, AwardBonus
    <2>2. \A key \in (ledger' \ revoked') \ (ledger \ revoked) : key[1] # "review"
        BY <1>5 DEF AwardStreak, AwardBonus, AwardSafe, StreakKey, SessionKey
    <2> QED BY <1>1, <2>1, <2>2 DEF StandingInv, At
<1>6. CASE RevokeXp(p)
    <2>1. /\ req'[p].stage = "delete" /\ req'[p].review = req[p].review
          /\ UNCHANGED <<reviews, ledger>>
          /\ revoked' = revoked \cup ({ReviewKey(req[p].review.id)} \cap ledger)
        BY <1>6, AfterGoTo DEF RevokeXp, Revoke
    <2> QED BY <1>1, <2>1 DEF StandingInv, At
<1>7. CASE DeleteReview(p)
    <2>1. /\ req'[p].stage \in {"idle", "reopen"} /\ UNCHANGED <<ledger, revoked>>
          /\ reviews' = {r \in reviews : r.id # req[p].review.id}
        BY <1>7, AfterGoTo, AfterFinish DEF DeleteReview
    <2>2. ReviewKey(req[p].review.id) \notin ledger \ revoked
        BY <1>7 DEF DeleteReview, StandingInv
    <2>3. ASSUME NEW key \in ledger \ revoked, key[1] = "review"
          PROVE  \E r \in reviews' : key = ReviewKey(r.id)
        <3>1. PICK r \in reviews : key = ReviewKey(r.id)
            BY <2>3 DEF StandingInv
        <3>2. r.id # req[p].review.id
            BY <2>2, <3>1
        <3> QED BY <2>1, <3>1, <3>2
    <2> QED BY <1>1, <2>1, <2>3 DEF StandingInv, At
<1>8. CASE Crash(p) \/ Reopen(p) \/ (\E s \in Sessions : OpenUndo(p, s))
           \/ (\E c \in Cards : OpenGrading(p, c))
           \/ (\E s \in Sessions, c \in Cards : OpenAnswer(p, s, c))
    <2>1. UNCHANGED <<reviews, ledger, revoked>>
        BY <1>8 DEF Crash, Reopen, OpenUndo, OpenGrading, OpenAnswer
    <2>2. req'[p].stage \in {"idle", "undo", "grade", "cursor"}
        <3>1. CASE Crash(p) \/ Reopen(p)
            BY <3>1, AfterFinish DEF Crash, Reopen
        <3>2. CASE ~(Crash(p) \/ Reopen(p))
            BY <1>8, <3>2, AfterOpen
        <3> QED BY <3>1, <3>2
    <2> QED BY <1>2, <2>1, <2>2
<1>9. CASE CheckCursor(p) \/ FindLast(p) \/ ReadCard(p)
    <2>1. UNCHANGED <<reviews, ledger, revoked>>
        BY <1>9 DEF CheckCursor, FindLast, ReadCard
    <2>2. req'[p].stage \in {"idle", "grade", "restore", "update"}
        BY <1>9, AfterFinish DEF CheckCursor, FindLast, ReadCard, TypeOK, Request
    <2> QED BY <1>2, <2>1, <2>2
<1>10. CASE UpdateCard(p) \/ RestoreCard(p) \/ CompleteDrained(p)
    <2>1. UNCHANGED <<reviews, ledger, revoked>>
        BY <1>10 DEF UpdateCard, RestoreCard, CompleteDrained
    <2>2. req'[p].stage \in {"log", "revoke", "bonus"}
        BY <1>10, AfterGoTo DEF UpdateCard, RestoreCard, CompleteDrained
    <2> QED BY <1>2, <2>1, <2>2
<1> QED BY <1>3, <1>4, <1>5, <1>6, <1>7, <1>8, <1>9, <1>10
        DEF RequestStep, Answer, GradeCard, Undo

\* The invariant behind UndoneXpIsRevoked; Alone never changes.
XpInv == Inv /\ SlotInv /\ (Alone => StandingInv)

LEMMA XpInvIsInductive ==
    ASSUME SessionAssumption
    PROVE  /\ Init => XpInv
           /\ XpInv /\ [Next]_vars => XpInv'
<1>1. Init => XpInv
    <2>1. Init => StandingInv
        BY DEF Init, StandingInv, At, Idle
    <2> QED BY <2>1, InitInv, SlotInvIsInductive DEF XpInv
<1>2. ASSUME XpInv, [Next]_vars PROVE XpInv'
    <2>1. Inv' /\ SlotInv' /\ env' = env /\ TypeOK
        BY <1>2, StepInv, SlotInvIsInductive DEF XpInv, Inv
    <2>2. ASSUME Alone PROVE StandingInv'
        <3>1. StandingInv /\ SlotInv
            BY <1>2, <2>2 DEF XpInv
        <3>2. CASE \E p \in Requests : RequestStep(p)
            BY <2>1, <2>2, <3>1, <3>2, RequestsKeepStanding
        <3>3. CASE \E s \in Sessions : Lifecycle(s)
            BY <3>1, <3>3, StepsOfSessions DEF StandingInv, At
        <3>4. CASE UNCHANGED vars
            BY <3>1, <3>4 DEF vars, StandingInv, At
        <3> QED BY <1>2, <3>2, <3>3, <3>4 DEF Next, RequestStep
    <2> QED BY <2>1, <2>2 DEF XpInv, Alone
<1> QED BY <1>1, <1>2

\* Whoever does not overlap requests cannot keep the points of a review that
\* is no longer in the log, wherever the server stops in between.
THEOREM UndoTakesPointsBack == Spec => []UndoneXpIsRevoked
<1>1. XpInv => UndoneXpIsRevoked
    BY DEF XpInv, StandingInv, UndoneXpIsRevoked
<1> QED BY <1>1, XpInvIsInductive, SessionAssumption, PTL DEF Spec

--------------------------------------------------------------------------------
(* The answers of a session and its queue.                                 *)

Passed(p) == req[p].stage \in {"grade", "update", "log"}

Undoing(p) == req[p].stage \in {"restore", "revoke", "delete"}

\* A grading past the check finds the session as it was checked, its review is
\* the newest of all, and an undo works on the last review of its session.
Informed(p) ==
    /\ Passed(p) /\ req[p].session # None =>
          /\ req[p].cursor = Cursor(req[p].session)
          /\ IsExpected(req[p].session, req[p].cursor, req[p].card)
    /\ req[p].stage \in {"update", "log"} =>
          /\ req[p].review.card = req[p].card
          /\ \A r \in reviews : r.id < req[p].review.id
    /\ Undoing(p) =>
          /\ req[p].review \in GetSessionReviews(req[p].session)
          /\ \A r \in GetSessionReviews(req[p].session) : r.id <= req[p].review.id

UniqueIds == \A r, q \in reviews : r.id = q.id => r = q

OrderInv ==
    /\ UniqueIds
    /\ \A p \in Requests : Informed(p)
    /\ \A s \in Sessions : FollowsQueue(s)

\* The answers of a session up to one of them.
UpTo(s, r) == {q \in GetSessionReviews(s) : q.id <= r.id}

LEMMA FollowsQueueKept ==
    ASSUME NEW s \in Sessions, FollowsQueue(s), Queue(s)' = Queue(s),
           \A r \in GetSessionReviews(s)' : r \in GetSessionReviews(s) /\ UpTo(s, r)' = UpTo(s, r)
    PROVE  FollowsQueue(s)'
<1> SUFFICES ASSUME NEW r \in GetSessionReviews(s)'
             PROVE  /\ Cardinality(UpTo(s, r)') <= Len(Queue(s)')
                    /\ Queue(s)'[Cardinality(UpTo(s, r)')] = r.card
    BY DEF FollowsQueue, UpTo
<1>1. r \in GetSessionReviews(s) /\ UpTo(s, r)' = UpTo(s, r)
    OBVIOUS
<1> QED BY <1>1 DEF FollowsQueue, UpTo

\* A session that follows its queue has no more answers than cards.
LEMMA CursorInQueue ==
    ASSUME TypeOK, LogInv, NEW s \in Sessions, FollowsQueue(s)
    PROVE  /\ GetSessionReviews(s) # {} => Cursor(s) <= Len(Queue(s))
           /\ Queue(s) = <<>> => GetSessionReviews(s) = {}
<1> SUFFICES ASSUME GetSessionReviews(s) # {}
             PROVE  Cursor(s) <= Len(Queue(s)) /\ Queue(s) # <<>>
    OBVIOUS
<1>1. UpTo(s, LastReview(s)) = GetSessionReviews(s)
    BY LastReviewExists DEF UpTo
<1>2. Cursor(s) <= Len(Queue(s))
    BY <1>1, LastReviewExists DEF FollowsQueue, UpTo, Cursor
<1>3. IsFiniteSet(GetSessionReviews(s))
    BY FS_Subset DEF LogInv, GetSessionReviews
<1>4. Cursor(s) \in Nat /\ Cursor(s) # 0
    BY <1>3, FS_EmptySet, FS_CardinalityType DEF Cursor
<1> QED BY <1>2, <1>4

\* What a step that leaves the log and the queues alone keeps.
LEMMA OrderFrame ==
    ASSUME OrderInv, reviews' = reviews, \A s \in Sessions : Queue(s)' = Queue(s)
    PROVE  /\ UniqueIds'
           /\ \A s \in Sessions : FollowsQueue(s)'
           /\ \A s : GetSessionReviews(s)' = GetSessionReviews(s) /\ Cursor(s)' = Cursor(s)
           /\ \A s \in Sessions : \A n, c : IsExpected(s, n, c)' <=> IsExpected(s, n, c)
<1>1. \A s : GetSessionReviews(s)' = GetSessionReviews(s) /\ Cursor(s)' = Cursor(s)
    BY DEF GetSessionReviews, Cursor
<1>2. UniqueIds'
    BY DEF OrderInv, UniqueIds
<1>3. \A s \in Sessions : FollowsQueue(s)'
    BY <1>1, FollowsQueueKept DEF OrderInv, UpTo
<1>4. \A s \in Sessions : \A n, c : IsExpected(s, n, c)' <=> IsExpected(s, n, c)
    BY DEF IsExpected
<1> QED BY <1>1, <1>2, <1>3, <1>4

\* The review that is inserted is the newest, and its card the expected one.
LEMMA InsertKeepsOrder ==
    ASSUME SessionAssumption, Inv, OrderInv, NEW p \in Requests, InsertReview(p)
    PROVE  /\ UniqueIds'
           /\ \A s \in Sessions : FollowsQueue(s)'
           /\ \A s \in Sessions : Cursor(s)' = IF s = req[p].session THEN Cursor(s) + 1
                                                                    ELSE Cursor(s)
<1> PICK r : r = req[p].review
    OBVIOUS
<1>1. /\ r \in Review /\ r.session = req[p].session /\ req[p].stage = "log"
      /\ req[p] \in Request
    BY DEF InsertReview, At, Inv, TypeOK, StageOK, CarriedInv
<1>2. reviews' = reviews \cup {r} /\ \A s \in Sessions : Queue(s)' = Queue(s)
    BY DEF InsertReview, Snapshot, Queue
<1>3. /\ r.card = req[p].card
      /\ \A q \in reviews : q.id < r.id /\ q.id \in Nat
      /\ r.id \in Nat
    BY <1>1 DEF OrderInv, Informed, Inv, TypeOK, Review
<1>4. UniqueIds'
    BY <1>2, <1>3 DEF OrderInv, UniqueIds
<1>5. ASSUME NEW s \in Sessions
      PROVE  FollowsQueue(s)' /\ Cursor(s)' = IF s = req[p].session THEN Cursor(s) + 1
                                                                   ELSE Cursor(s)
    <2> DEFINE R == GetSessionReviews(s)
    <2>1. CASE s # req[p].session
        <3>1. GetSessionReviews(s)' = R
            BY <1>1, <1>2, <2>1 DEF GetSessionReviews
        <3> QED BY <1>2, <2>1, <3>1, FollowsQueueKept DEF OrderInv, UpTo, Cursor
    <2>2. CASE s = req[p].session
        <3>1. GetSessionReviews(s)' = R \cup {r} /\ r \notin R /\ R \subseteq reviews
            BY <1>1, <1>2, <1>3, <2>2 DEF GetSessionReviews
        <3>2. Cursor(s)' = Cursor(s) + 1
            BY <3>1, FiniteParts, FS_AddElement DEF Cursor
        <3>3. s # None
            BY DEF SessionAssumption
        <3>4. req[p].cursor = Cursor(s) /\ IsExpected(s, Cursor(s), r.card)
            BY <1>1, <1>3, <2>2, <3>3 DEF OrderInv, Informed, Passed
        <3>5. ASSUME NEW q \in GetSessionReviews(s)'
              PROVE  Cardinality(UpTo(s, q)') <= Len(Queue(s)')
                     /\ Queue(s)'[Cardinality(UpTo(s, q)')] = q.card
            <4>1. CASE q \in R
                <5>1. UpTo(s, q)' = UpTo(s, q)
                    <6>1. q.id < r.id /\ q.id \in Nat /\ r.id \in Nat
                        BY <1>3, <3>1, <4>1
                    <6> QED BY <3>1, <6>1 DEF UpTo
                <5> QED BY <1>2, <4>1, <5>1 DEF OrderInv, FollowsQueue, UpTo
            <4>2. CASE q = r
                <5>1. UpTo(s, r)' = GetSessionReviews(s)'
                    <6>1. \A x \in R \cup {r} : x.id <= r.id
                        BY <1>3, <3>1
                    <6> QED BY <3>1, <6>1 DEF UpTo
                <5>2. Cardinality(UpTo(s, r)') = Cursor(s) + 1
                    BY <3>2, <5>1 DEF Cursor
                <5>3. Cursor(s) \in Nat /\ Len(Queue(s)) \in Nat
                    BY FiniteParts
                <5> QED BY <1>2, <3>4, <4>2, <5>2, <5>3 DEF IsExpected
            <4> QED BY <3>1, <4>1, <4>2
        <3>6. FollowsQueue(s)'
            BY <3>5 DEF FollowsQueue, UpTo
        <3> QED BY <2>2, <3>2, <3>6
    <2> QED BY <2>1, <2>2
<1> QED BY <1>4, <1>5

\* The review that is deleted is the last of its session and no other.
LEMMA DeleteKeepsOrder ==
    ASSUME SessionAssumption, Inv, OrderInv, NEW p \in Requests, DeleteReview(p)
    PROVE  /\ UniqueIds'
           /\ \A s \in Sessions : FollowsQueue(s)'
           /\ \A s \in Sessions : Cursor(s)' = IF s = req[p].session THEN Cursor(s) - 1
                                                                    ELSE Cursor(s)
           /\ reviews' = reviews \ {req[p].review}
<1> PICK r : r = req[p].review
    OBVIOUS
<1>1. /\ r \in GetSessionReviews(req[p].session)
      /\ \A q \in GetSessionReviews(req[p].session) : q.id <= r.id
    BY DEF DeleteReview, At, OrderInv, Informed, Undoing
<1>2. r \in reviews /\ r.session = req[p].session
    BY <1>1 DEF GetSessionReviews
<1>3. reviews' = reviews \ {r} /\ \A s \in Sessions : Queue(s)' = Queue(s)
    BY <1>2 DEF DeleteReview, OrderInv, UniqueIds, Queue
<1>4. UniqueIds'
    BY <1>3 DEF OrderInv, UniqueIds
<1>5. ASSUME NEW s \in Sessions
      PROVE  FollowsQueue(s)' /\ Cursor(s)' = IF s = req[p].session THEN Cursor(s) - 1
                                                                   ELSE Cursor(s)
    <2> DEFINE R == GetSessionReviews(s)
    <2>1. CASE s # req[p].session
        <3>1. GetSessionReviews(s)' = R
            BY <1>2, <1>3, <2>1 DEF GetSessionReviews
        <3> QED BY <1>3, <2>1, <3>1, FollowsQueueKept DEF OrderInv, UpTo, Cursor
    <2>2. CASE s = req[p].session
        <3>1. GetSessionReviews(s)' = R \ {r} /\ r \in R
            BY <1>1, <1>3, <2>2 DEF GetSessionReviews
        <3>2. Cursor(s)' = Cursor(s) - 1
            <4>1. IsFiniteSet(R)
                BY FiniteParts
            <4>2. Cardinality(R \ {r}) = Cardinality(R) - 1
                BY <3>1, <4>1, FS_RemoveElement
            <4> QED BY <3>1, <4>2 DEF Cursor
        <3>3. ASSUME NEW q \in R \ {r} PROVE UpTo(s, q)' = UpTo(s, q)
            <4>1. q.id <= r.id /\ q.id # r.id
                BY <1>1, <1>2, <2>2, <3>3 DEF OrderInv, UniqueIds, GetSessionReviews
            <4>2. q.id \in Nat /\ r.id \in Nat
                BY <1>2, <3>3 DEF GetSessionReviews, Inv, TypeOK, Review
            <4>3. ~(r.id <= q.id)
                BY <4>1, <4>2
            <4> QED BY <3>1, <4>3 DEF UpTo
        <3> QED BY <1>3, <2>2, <3>1, <3>2, <3>3, FollowsQueueKept DEF OrderInv
    <2> QED BY <2>1, <2>2
<1> QED BY <1>3, <1>4, <1>5

\* A write of a session's status leaves the queues alone.
LEMMA StatusWrites ==
    ASSUME NEW Q, sessions \in [Sessions -> [status : Statuses, queue : Q]], NEW s, NEW status,
           sessions' = [sessions EXCEPT ![s].status = status], NEW t \in Sessions
    PROVE  /\ sessions'[t].queue = sessions[t].queue
           /\ sessions'[t].status = IF t = s THEN status ELSE sessions[t].status
<1>1. sessions'[t] = IF t = s THEN [sessions[s] EXCEPT !.status = status] ELSE sessions[t]
    OBVIOUS
<1>2. sessions[t] \in [status : Statuses, queue : Q]
    OBVIOUS
<1> QED BY <1>1, <1>2

LEMMA RequestsKeepOrder ==
    ASSUME SessionAssumption, Inv, SlotInv, Alone, OrderInv, NEW p \in Requests, RequestStep(p)
    PROVE  OrderInv'
<1>1. TypeOK /\ req[p] \in Request
    BY DEF Inv, TypeOK
<1>2. \A q \in Requests \ {p} : Informed(q)'
    BY <1>1, OthersAreIdle DEF Informed, Passed, Undoing
<1>3. CASE InsertReview(p)
    <2>1. req'[p].stage = "award"
        BY <1>1, <1>3, AfterGoTo DEF InsertReview
    <2>2. Informed(p)'
        BY <2>1 DEF Informed, Passed, Undoing
    <2> QED BY <1>2, <1>3, <2>2, InsertKeepsOrder DEF OrderInv
<1>4. CASE DeleteReview(p)
    <2>1. req'[p].stage \in {"idle", "reopen"}
        BY <1>1, <1>4, AfterGoTo, AfterFinish DEF DeleteReview
    <2>2. Informed(p)'
        BY <2>1 DEF Informed, Passed, Undoing
    <2> QED BY <1>2, <1>4, <2>2, DeleteKeepsOrder DEF OrderInv
<1>5. ASSUME reviews' = reviews, \A s \in Sessions : Queue(s)' = Queue(s), Informed(p)'
      PROVE  OrderInv'
    BY <1>2, <1>5, OrderFrame DEF OrderInv
<1>6. \A s \in Sessions : GetSessionReviews(s)' = GetSessionReviews(s) =>
          Cursor(s)' = Cursor(s)
    BY DEF Cursor
<1>7. CASE CheckCursor(p)
    <2>1. UNCHANGED <<reviews, sessions>> /\ req[p].session \in Sessions
        BY <1>1, <1>7 DEF CheckCursor, At, TypeOK, StageOK
    <2>2. CASE Finish(p)
        <3>1. Informed(p)'
            BY <1>1, <2>2, AfterFinish DEF Informed, Passed, Undoing
        <3> QED BY <1>5, <2>1, <3>1 DEF Queue
    <2>3. CASE ~Finish(p)
        <3>1. /\ IsExpected(req[p].session, Cursor(req[p].session), req[p].card)
              /\ req' = [req EXCEPT ![p].stage = "grade", ![p].cursor = Cursor(req[p].session)]
            BY <1>7, <2>3 DEF CheckCursor
        <3>2. /\ req'[p].stage = "grade" /\ req'[p].cursor = Cursor(req[p].session)
              /\ req'[p].session = req[p].session /\ req'[p].card = req[p].card
            BY <1>1, <3>1 DEF TypeOK, Request
        <3>3. \A s \in Sessions : Queue(s)' = Queue(s)
            BY <2>1 DEF Queue
        <3>4. Informed(p)'
            BY <2>1, <3>1, <3>2, <3>3, OrderFrame DEF Informed, Passed, Undoing
        <3> QED BY <1>5, <2>1, <3>3, <3>4
    <2> QED BY <2>2, <2>3
<1>8. CASE ReadCard(p)
    <2>1. /\ UNCHANGED <<reviews, sessions>> /\ req[p].stage = "grade"
          /\ req' = [req EXCEPT ![p].stage = "update",
                                ![p].review = [id |-> clock + 1, card |-> req[p].card,
                                               session |-> req[p].session,
                                               before |-> cards[req[p].card]]]
        BY <1>8 DEF ReadCard, At
    <2>2. /\ req'[p].stage = "update" /\ req'[p].cursor = req[p].cursor
          /\ req'[p].session = req[p].session /\ req'[p].card = req[p].card
          /\ req'[p].review.card = req[p].card /\ req'[p].review.id = clock + 1
        BY <1>1, <2>1 DEF TypeOK, Request
    <2>3. \A r \in reviews : r.id < clock + 1
        BY <1>1 DEF Inv, LogInv, TypeOK, Review
    <2>4. \A s \in Sessions : Queue(s)' = Queue(s)
        BY <2>1 DEF Queue
    <2>5. req[p].session \in Sessions \cup {None}
        BY <1>1 DEF Request
    <2>6. Informed(p)'
        BY <2>1, <2>2, <2>3, <2>4, <2>5, OrderFrame DEF OrderInv, Informed, Passed, Undoing
    <2> QED BY <1>5, <2>1, <2>4, <2>6
<1>9. CASE UpdateCard(p) \/ RestoreCard(p) \/ RevokeXp(p)
    <2>1. /\ UNCHANGED <<reviews, sessions>>
          /\ \/ req[p].stage = "update" /\ req'[p].stage = "log"
             \/ req[p].stage = "restore" /\ req'[p].stage = "revoke"
             \/ req[p].stage = "revoke" /\ req'[p].stage = "delete"
          /\ req'[p].session = req[p].session /\ req'[p].card = req[p].card
          /\ req'[p].cursor = req[p].cursor /\ req'[p].review = req[p].review
        BY <1>1, <1>9, AfterGoTo DEF UpdateCard, RestoreCard, RevokeXp, At
    <2>2. \A s \in Sessions : Queue(s)' = Queue(s)
        BY <2>1 DEF Queue
    <2>3. req[p].session \in Sessions \cup {None}
        BY <1>1 DEF Request
    <2>4. Informed(p)'
        BY <2>1, <2>2, <2>3, OrderFrame DEF OrderInv, Informed, Passed, Undoing
    <2> QED BY <1>5, <2>1, <2>2, <2>4
<1>10. CASE FindLast(p)
    <2>1. UNCHANGED <<reviews, sessions>>
        BY <1>10 DEF FindLast
    <2>2. CASE Finish(p)
        <3>1. Informed(p)'
            BY <1>1, <2>2, AfterFinish DEF Informed, Passed, Undoing
        <3> QED BY <1>5, <2>1, <3>1 DEF Queue
    <2>3. CASE ~Finish(p)
        <3>1. /\ GetSessionReviews(req[p].session) # {}
              /\ req' = [req EXCEPT ![p].stage = "restore",
                                    ![p].review = LastReview(req[p].session)]
            BY <1>10, <2>3 DEF FindLast
        <3>2. /\ req'[p].stage = "restore" /\ req'[p].review = LastReview(req[p].session)
              /\ req'[p].session = req[p].session
            BY <1>1, <3>1 DEF TypeOK, Request
        <3>3. Informed(p)'
            BY <1>1, <2>1, <3>1, <3>2, LastReviewExists
                DEF Inv, Informed, Passed, Undoing, GetSessionReviews
        <3> QED BY <1>5, <2>1, <3>3 DEF Queue
    <2> QED BY <2>2, <2>3
<1>11. CASE \E c \in Cards : OpenGrading(p, c)
    <2>1. req'[p].stage = "grade" /\ req'[p].session = None /\ UNCHANGED <<reviews, sessions>>
        BY <1>1, <1>11, AfterOpen DEF OpenGrading
    <2>2. Informed(p)'
        BY <2>1 DEF Informed, Passed, Undoing
    <2> QED BY <1>5, <2>1, <2>2 DEF Queue
<1>12. CASE \/ Award(p) \/ AwardStreak(p) \/ CompleteDrained(p) \/ AwardBonus(p) \/ Reopen(p)
            \/ Crash(p) \/ (\E s \in Sessions : OpenUndo(p, s))
            \/ (\E s \in Sessions, c \in Cards : OpenAnswer(p, s, c))
    <2>1. reviews' = reviews
        BY <1>12 DEF Award, AwardStreak, CompleteDrained, AwardBonus, Reopen, Crash, OpenUndo,
            OpenAnswer
    <2>2. \A s \in Sessions : Queue(s)' = Queue(s)
        <3>1. CASE CompleteDrained(p) \/ Reopen(p)
            <4>1. sessions \in [Sessions -> [status : Statuses, queue : Seq(Cards)]]
                BY <1>1 DEF TypeOK
            <4> QED BY <3>1, <4>1, StatusWrites DEF CompleteDrained, Reopen, Queue
        <3>2. CASE ~(CompleteDrained(p) \/ Reopen(p))
            BY <1>12, <3>2 DEF Award, AwardStreak, AwardBonus, Crash, OpenUndo, OpenAnswer, Queue
        <3> QED BY <3>1, <3>2
    <2>3. req'[p].stage \in {"streak", "drain", "bonus", "idle", "undo", "cursor"}
        <3>1. CASE Award(p) \/ AwardStreak(p) \/ CompleteDrained(p) \/ AwardBonus(p) \/ Reopen(p)
                   \/ Crash(p)
            BY <1>1, <3>1, AfterGoTo, AfterFinish DEF Award, AwardStreak, CompleteDrained,
                AwardBonus, Reopen, Crash
        <3> QED BY <1>1, <1>12, <3>1, AfterOpen
    <2>4. Informed(p)'
        BY <2>3 DEF Informed, Passed, Undoing
    <2> QED BY <1>5, <2>1, <2>2, <2>4
<1> QED BY <1>3, <1>4, <1>7, <1>8, <1>9, <1>10, <1>11, <1>12
        DEF RequestStep, Answer, GradeCard, Undo

\* A plan gives a queue to a session that has no answers; the ends of sessions
\* change no queue.
LEMMA SessionsKeepOrder ==
    ASSUME SessionAssumption, Inv, OrderInv, NEW s \in Sessions, Lifecycle(s)
    PROVE  OrderInv'
<1>1. UNCHANGED <<reviews, req>> /\ TypeOK /\ LogInv
    BY StepsOfSessions DEF Inv
<1>2. \A t : GetSessionReviews(t)' = GetSessionReviews(t) /\ Cursor(t)' = Cursor(t)
    BY <1>1 DEF GetSessionReviews, Cursor
<1>3. \A t \in Sessions : Queue(t)' = Queue(t) \/ Queue(t) = <<>>
    <2>1. sessions \in [Sessions -> [status : Statuses, queue : Seq(Cards)]]
        BY <1>1 DEF TypeOK
    <2>2. CASE \E queue \in Plans : Plan(s, queue)
        <3>1. \A t \in Sessions \ {s} : sessions'[t] = sessions[t]
            BY <2>1, <2>2 DEF Plan
        <3>2. Queue(s) = <<>>
            BY <2>2 DEF Plan, Inv, PlanInv
        <3> QED BY <3>1, <3>2 DEF Queue
    <2>3. CASE CompleteSession(s) \/ AbandonSession(s)
        BY <2>1, <2>3, StatusWrites DEF CompleteSession, AbandonSession, EndSession, Queue
    <2> QED BY <2>2, <2>3 DEF Lifecycle
<1>4. ASSUME NEW t \in Sessions PROVE FollowsQueue(t)'
    <2>1. CASE Queue(t)' = Queue(t)
        BY <1>2, <2>1, FollowsQueueKept DEF OrderInv, UpTo
    <2>2. CASE Queue(t) = <<>>
        <3>1. GetSessionReviews(t) = {}
            BY <1>1, <2>2, CursorInQueue DEF OrderInv
        <3> QED BY <1>2, <3>1 DEF FollowsQueue
    <2> QED BY <1>3, <2>1, <2>2
<1>5. ASSUME NEW p \in Requests PROVE Informed(p)'
    <2>1. req[p].session \in Sessions \cup {None}
        BY <1>1 DEF TypeOK, Request
    <2>2. Informed(p)
        BY DEF OrderInv
    <2>3. ASSUME Passed(p), req[p].session # None
          PROVE  Queue(req[p].session)' = Queue(req[p].session)
        <3>1. req[p].cursor < Len(Queue(req[p].session)) /\ req[p].cursor \in Nat
            BY <1>1, <2>2, <2>3 DEF Informed, IsExpected, TypeOK, Request
        <3>2. Queue(req[p].session) # <<>>
            BY <3>1
        <3> QED BY <1>1, <1>3, <2>1, <2>3, <3>2 DEF Queue
    <2>4. Passed(p) /\ req[p].session # None =>
              (IsExpected(req[p].session, req[p].cursor, req[p].card))'
        BY <1>1, <2>2, <2>3 DEF Informed, IsExpected, Queue
    <2> QED BY <1>1, <1>2, <2>2, <2>4 DEF Informed, Passed, Undoing
<1>6. UniqueIds'
    BY <1>1 DEF OrderInv, UniqueIds
<1> QED BY <1>4, <1>5, <1>6 DEF OrderInv

\* The invariant behind AnswersFollowQueue.
QueueInv == Inv /\ SlotInv /\ (Alone => OrderInv)

LEMMA QueueInvIsInductive ==
    ASSUME SessionAssumption
    PROVE  /\ Init => QueueInv
           /\ QueueInv /\ [Next]_vars => QueueInv'
<1>1. Init => QueueInv
    <2>1. Init => OrderInv
        BY DEF Init, OrderInv, UniqueIds, Informed, Passed, Undoing, FollowsQueue,
            GetSessionReviews, Idle
    <2> QED BY <2>1, InitInv, SlotInvIsInductive DEF QueueInv
<1>2. ASSUME QueueInv, [Next]_vars PROVE QueueInv'
    <2>1. Inv' /\ SlotInv' /\ env' = env
        BY <1>2, StepInv, SlotInvIsInductive DEF QueueInv, Inv
    <2>2. ASSUME Alone PROVE OrderInv'
        <3>1. Inv /\ SlotInv /\ OrderInv
            BY <1>2, <2>2 DEF QueueInv
        <3>2. CASE \E p \in Requests : RequestStep(p)
            BY <2>2, <3>1, <3>2, RequestsKeepOrder
        <3>3. CASE \E s \in Sessions : Lifecycle(s)
            BY <3>1, <3>3, SessionsKeepOrder
        <3>4. CASE UNCHANGED vars
            <4>1. \A s \in Sessions : Queue(s)' = Queue(s)
                BY <3>4 DEF vars, Queue
            <4>2. reviews' = reviews /\ req' = req
                BY <3>4 DEF vars
            <4>3. \A p \in Requests : req[p].session \in Sessions \cup {None}
                BY <3>1 DEF Inv, TypeOK, Request
            <4> QED BY <3>1, <4>1, <4>2, <4>3, OrderFrame
                    DEF OrderInv, Informed, Passed, Undoing
        <3> QED BY <1>2, <3>2, <3>3, <3>4 DEF Next, RequestStep
    <2> QED BY <2>1, <2>2 DEF QueueInv, Alone
<1> QED BY <1>1, <1>2

--------------------------------------------------------------------------------
(* Any overlap.  A request past the cursor check carries a card that was   *)
(* at the cursor: whatever has happened to the log since, it is a card of  *)
(* the queue, and a queue never changes once it is planned.                *)

CarriesQueued(q) ==
    q.session # None =>
        /\ q.stage = "grade" => InQueue(q.session, q.card)
        /\ q.stage \in {"update", "log"} => InQueue(q.session, q.review.card)

QueuedInv == AnswersAreQueued /\ \A p \in Requests : CarriesQueued(req[p])

\* A step that neither adds a review nor moves a request that grades.
LEMMA QueuedFrame ==
    ASSUME Inv, QueuedInv, reviews' \subseteq reviews,
           \A s \in Sessions : Queue(s)' = Queue(s) \/ Queue(s) = <<>>,
           \A p \in Requests :
              \/ req'[p] = req[p]
              \/ req'[p].session = None
              \/ req'[p].stage \notin {"grade", "update", "log"}
    PROVE  QueuedInv'
<1>1. ASSUME NEW s \in Sessions, NEW c, InQueue(s, c) PROVE InQueue(s, c)'
    BY <1>1 DEF InQueue
<1>2. ASSUME NEW r \in reviews', r.session # None PROVE InQueue(r.session, r.card)'
    <2>1. r \in reviews /\ r.session \in Sessions
        BY <1>2 DEF Inv, TypeOK, Review
    <2> QED BY <1>1, <1>2, <2>1 DEF QueuedInv, AnswersAreQueued
<1>3. ASSUME NEW p \in Requests PROVE CarriesQueued(req[p])'
    <2>1. CASE req'[p] = req[p]
        <3>1. CarriesQueued(req[p]) /\ req[p].session \in Sessions \cup {None}
            BY DEF QueuedInv, Inv, TypeOK, Request
        <3> QED BY <1>1, <2>1, <3>1 DEF CarriesQueued
    <2>2. CASE req'[p].session = None \/ req'[p].stage \notin {"grade", "update", "log"}
        BY <2>2 DEF CarriesQueued
    <2> QED BY <2>1, <2>2
<1> QED BY <1>2, <1>3 DEF QueuedInv, AnswersAreQueued

LEMMA RequestsKeepQueued ==
    ASSUME SessionAssumption, Inv, SlotInv, QueuedInv, NEW p \in Requests, RequestStep(p)
    PROVE  QueuedInv'
<1>1. TypeOK /\ req[p] \in Request /\ req[p].session \in Sessions \cup {None}
    BY DEF Inv, TypeOK, Request
<1>2. \A q \in Requests \ {p} : req'[q] = req[q]
    BY <1>1, StepsOfRequests
<1>3. ASSUME reviews' \subseteq reviews, \A s \in Sessions : Queue(s)' = Queue(s),
             req'[p].session = None \/ req'[p].stage \notin {"grade", "update", "log"}
      PROVE  QueuedInv'
    BY <1>2, <1>3, QueuedFrame
\* The step of a grading that moves on with its card.
<1>4. ASSUME NEW r \in Request, r = req'[p], sessions' = sessions,
             \A v \in reviews' \ reviews : v.session # None => InQueue(v.session, v.card),
             CarriesQueued(r)
      PROVE  QueuedInv'
    <2>1. \A s, c : InQueue(s, c)' = InQueue(s, c)
        BY <1>4 DEF InQueue, Queue
    <2>2. CarriesQueued(r)'
        BY <1>4, <2>1 DEF CarriesQueued
    <2>3. ASSUME NEW q \in Requests PROVE CarriesQueued(req[q])'
        <3>1. CASE q = p
            BY <1>4, <2>2, <3>1 DEF CarriesQueued
        <3>2. CASE q # p
            BY <1>2, <2>1, <3>2 DEF QueuedInv, CarriesQueued
        <3> QED BY <3>1, <3>2
    <2>4. AnswersAreQueued'
        BY <1>4, <2>1 DEF QueuedInv, AnswersAreQueued
    <2> QED BY <2>3, <2>4 DEF QueuedInv
<1>5. CASE CheckCursor(p)
    <2>1. UNCHANGED <<reviews, sessions>> /\ req[p].session \in Sessions
        BY <1>1, <1>5 DEF CheckCursor, At, TypeOK, StageOK
    <2>2. CASE Finish(p)
        <3>1. req'[p].stage = "idle"
            BY <1>1, <2>2, AfterFinish
        <3> QED BY <1>3, <2>1, <3>1 DEF Queue
    <2>3. CASE ~Finish(p)
        <3>1. /\ IsExpected(req[p].session, Cursor(req[p].session), req[p].card)
              /\ req' = [req EXCEPT ![p].stage = "grade", ![p].cursor = Cursor(req[p].session)]
            BY <1>5, <2>3 DEF CheckCursor
        <3>2. PICK r : r = req'[p]
            OBVIOUS
        <3>3. /\ r.stage = "grade" /\ r.session = req[p].session /\ r.card = req[p].card
              /\ r \in Request
            <4>1. Cursor(req[p].session) \in Nat
                BY <2>1, FiniteParts
            <4> QED BY <1>1, <3>1, <3>2, <4>1 DEF TypeOK, Request, Stages
        <3>4. InQueue(r.session, r.card)
            <4>1. Queue(r.session) \in Seq(Cards) /\ Cursor(r.session) \in Nat
                BY <2>1, <3>3, FiniteParts DEF Inv, TypeOK, Queue
            <4> QED BY <3>1, <3>3, <4>1 DEF IsExpected, InQueue
        <3>5. CarriesQueued(r)
            BY <3>3, <3>4 DEF CarriesQueued
        <3> QED BY <1>4, <2>1, <3>2, <3>3, <3>5
    <2> QED BY <2>2, <2>3
<1>6. CASE ReadCard(p)
    <2>1. PICK r : r = req'[p]
        OBVIOUS
    <2>2. /\ UNCHANGED <<reviews, sessions>> /\ req[p].stage = "grade"
          /\ r.stage = "update" /\ r.session = req[p].session
          /\ r.review.card = req[p].card
        BY <1>1, <1>6, <2>1 DEF ReadCard, At, TypeOK, Request
    <2>3. r \in Request
        BY <1>6, <2>1, ReadCardKeeps DEF Inv, TypeOK, RequestStep, GradeCard
    <2>4. CarriesQueued(r)
        BY <2>2 DEF QueuedInv, CarriesQueued
    <2> QED BY <1>4, <2>1, <2>2, <2>3, <2>4
<1>7. CASE UpdateCard(p)
    <2>1. PICK r : r = req'[p]
        OBVIOUS
    <2>2. /\ UNCHANGED <<reviews, sessions>> /\ req[p].stage = "update"
          /\ r.stage = "log" /\ r.session = req[p].session /\ r.review = req[p].review
        BY <1>1, <1>7, <2>1, AfterGoTo DEF UpdateCard, At
    <2>3. r \in Request
        BY <1>7, <2>1, UpdateCardKeeps DEF Inv, TypeOK
    <2>4. CarriesQueued(r)
        BY <2>2 DEF QueuedInv, CarriesQueued
    <2> QED BY <1>4, <2>1, <2>2, <2>3, <2>4
<1>8. CASE InsertReview(p)
    <2>1. PICK r : r = req'[p]
        OBVIOUS
    <2>2. /\ sessions' = sessions /\ reviews' = reviews \cup {req[p].review}
          /\ req[p].stage = "log" /\ r.stage = "award"
        BY <1>1, <1>8, <2>1, AfterGoTo DEF InsertReview, At, Snapshot
    <2>3. r \in Request
        BY <1>8, <2>1, InsertReviewKeeps DEF Inv, TypeOK
    <2>4. req[p].review.session = req[p].session
        BY <2>2 DEF Inv, CarriedInv
    <2>5. \A v \in reviews' \ reviews : v.session # None => InQueue(v.session, v.card)
        BY <2>2, <2>4 DEF QueuedInv, CarriesQueued
    <2>6. CarriesQueued(r)
        BY <2>2 DEF CarriesQueued
    <2> QED BY <1>4, <2>1, <2>2, <2>3, <2>5, <2>6
<1>9. CASE \E c \in Cards : OpenGrading(p, c)
    <2>1. UNCHANGED <<reviews, sessions>> /\ req'[p].session = None
        BY <1>1, <1>9, AfterOpen DEF OpenGrading
    <2> QED BY <1>3, <2>1 DEF Queue
<1>10. CASE \/ \E s \in Sessions, c \in Cards : OpenAnswer(p, s, c)
            \/ \E s \in Sessions : OpenUndo(p, s)
    <2>1. UNCHANGED <<reviews, sessions>> /\ req'[p].stage \in {"cursor", "undo"}
        BY <1>1, <1>10, AfterOpen DEF OpenAnswer, OpenUndo
    <2> QED BY <1>3, <2>1 DEF Queue
<1>11. CASE FindLast(p)
    <2>1. UNCHANGED <<reviews, sessions>> /\ req'[p].stage \in {"idle", "restore"}
        BY <1>1, <1>11, AfterFinish DEF FindLast, TypeOK, Request
    <2> QED BY <1>3, <2>1 DEF Queue
<1>12. CASE Award(p) \/ RestoreCard(p) \/ RevokeXp(p)
    <2>1. UNCHANGED <<reviews, sessions>> /\ req'[p].stage \in {"streak", "revoke", "delete"}
        BY <1>1, <1>12, AfterGoTo DEF Award, RestoreCard, RevokeXp
    <2> QED BY <1>3, <2>1 DEF Queue
<1>13. CASE AwardStreak(p) \/ AwardBonus(p) \/ Crash(p)
    <2>1. UNCHANGED <<reviews, sessions>> /\ req'[p].stage \in {"drain", "idle"}
        BY <1>1, <1>13, AfterGoTo, AfterFinish DEF AwardStreak, AwardBonus, Crash
    <2> QED BY <1>3, <2>1 DEF Queue
<1>14. CASE DeleteReview(p)
    <2>1. /\ reviews' \subseteq reviews /\ sessions' = sessions
          /\ req'[p].stage \in {"idle", "reopen"}
        BY <1>1, <1>14, AfterGoTo, AfterFinish DEF DeleteReview
    <2> QED BY <1>3, <2>1 DEF Queue
<1>15. CASE CompleteDrained(p) \/ Reopen(p)
    <2>1. reviews' = reviews /\ req'[p].stage \in {"bonus", "idle"}
        BY <1>1, <1>15, AfterGoTo, AfterFinish DEF CompleteDrained, Reopen
    <2>2. \A s \in Sessions : Queue(s)' = Queue(s)
        BY <1>1, <1>15, StatusWrites DEF CompleteDrained, Reopen, TypeOK, Queue
    <2> QED BY <1>3, <2>1, <2>2
<1> QED BY <1>5, <1>6, <1>7, <1>8, <1>9, <1>10, <1>11, <1>12, <1>13, <1>14, <1>15
        DEF RequestStep, Answer, GradeCard, Undo

LEMMA SessionsKeepQueued ==
    ASSUME SessionAssumption, Inv, QueuedInv, NEW s \in Sessions, Lifecycle(s)
    PROVE  QueuedInv'
<1>1. UNCHANGED <<reviews, req>> /\ TypeOK
    BY StepsOfSessions DEF Inv
<1>2. \A t \in Sessions : Queue(t)' = Queue(t) \/ Queue(t) = <<>>
    <2>1. sessions \in [Sessions -> [status : Statuses, queue : Seq(Cards)]]
        BY <1>1 DEF TypeOK
    <2>2. CASE \E queue \in Plans : Plan(s, queue)
        <3>1. \A t \in Sessions \ {s} : sessions'[t] = sessions[t]
            BY <2>1, <2>2 DEF Plan
        <3>2. Queue(s) = <<>>
            BY <2>2 DEF Plan, Inv, PlanInv
        <3> QED BY <3>1, <3>2 DEF Queue
    <2>3. CASE CompleteSession(s) \/ AbandonSession(s)
        BY <2>1, <2>3, StatusWrites DEF CompleteSession, AbandonSession, EndSession, Queue
    <2> QED BY <2>2, <2>3 DEF Lifecycle
<1> QED BY <1>1, <1>2, QueuedFrame

LEMMA QueuedInvIsInductive ==
    ASSUME SessionAssumption
    PROVE  /\ Init => QueuedInv
           /\ Inv /\ SlotInv /\ QueuedInv /\ [Next]_vars => QueuedInv'
<1>1. Init => QueuedInv
    BY DEF Init, QueuedInv, AnswersAreQueued, CarriesQueued, Idle
<1>2. ASSUME Inv, QueuedInv, UNCHANGED vars PROVE QueuedInv'
    BY <1>2, QueuedFrame DEF vars, Queue
<1> QED BY <1>1, <1>2, RequestsKeepQueued, SessionsKeepQueued DEF Next, RequestStep

\* However requests overlap, a session is answered with cards of its queue only.
\* A client that never overlaps its requests leaves in every session a prefix
\* of its queue, through gradings elsewhere, undos and crashes, whatever the
\* other sessions do.
THEOREM AnswersAreAPrefix == Spec => []AnswersFollowQueue
<1>1. QueueInv /\ QueuedInv => AnswersFollowQueue
    BY DEF QueueInv, OrderInv, QueuedInv, AnswersFollowQueue
<1>2. QueueInv => Inv /\ SlotInv
    BY DEF QueueInv
<1> QED BY <1>1, <1>2, QueueInvIsInductive, QueuedInvIsInductive, SessionAssumption, PTL DEF Spec

--------------------------------------------------------------------------------
(* Active sessions and the work that is left in them.                      *)

\* The answer that may have filled the log of a session and has not completed
\* it yet.
Filling(p, s) == req[p].session = s /\ req[p].stage \in {"award", "streak", "drain"}

\* What the last statements of an answer and of an undo rely on.
Counted(p) ==
    /\ Passed(p) => req[p].session # None
    /\ req[p].stage \in {"award", "streak"} =>
          /\ req[p].session \in Sessions
          /\ Cursor(req[p].session) = req[p].cursor + 1
    /\ At(p, "reopen") => Cursor(req[p].session) < Len(Queue(req[p].session))

HasWork(s) ==
    sessions[s].status = "active" /\ Len(Queue(s)) > 0 =>
        Cursor(s) < Len(Queue(s)) \/ \E p \in Requests : Filling(p, s)

WorkInv == (\A p \in Requests : Counted(p)) /\ (\A s \in Sessions : HasWork(s))

\* A step that changes neither the log nor a session, nor ends a filling answer.
LEMMA WorkFrame ==
    ASSUME WorkInv, NEW p \in Requests, UNCHANGED <<reviews, sessions>>,
           \A q \in Requests \ {p} : req'[q] = req[q] /\ req[q].stage = "idle",
           \A s \in Sessions : Filling(p, s) => Filling(p, s)',
           Counted(p)'
    PROVE  WorkInv'
<1>1. ASSUME NEW q \in Requests PROVE Counted(q)'
    <2>1. CASE q # p
        BY <2>1 DEF Counted, Passed, At
    <2> QED BY <2>1
<1>2. ASSUME NEW s \in Sessions PROVE HasWork(s)'
    <2>1. Cursor(s)' = Cursor(s) /\ Queue(s)' = Queue(s)
        BY DEF Cursor, GetSessionReviews, Queue
    <2>2. ASSUME NEW q \in Requests, Filling(q, s) PROVE Filling(p, s)'
        <3>1. q = p
            BY <2>2 DEF Filling
        <3> QED BY <2>2, <3>1
    <2>3. HasWork(s)
        BY DEF WorkInv
    <2> QED BY <2>1, <2>2, <2>3 DEF HasWork
<1> QED BY <1>1, <1>2 DEF WorkInv

LEMMA RequestsKeepWork ==
    ASSUME SessionAssumption, Inv, SlotInv, Undisturbed, OrderInv, WorkInv,
           NEW p \in Requests, RequestStep(p)
    PROVE  WorkInv'
<1>1. TypeOK /\ Alone /\ req[p] \in Request /\ LogInv
    BY DEF Inv, TypeOK, Undisturbed
<1>2. \A q \in Requests \ {p} : req'[q] = req[q] /\ req[q].stage = "idle"
    BY <1>1, OthersAreIdle
<1>3. \A q \in Requests \ {p} : Counted(q)'
    BY <1>2 DEF Counted, Passed, At
<1>4. Counted(p) /\ Informed(p) /\ \A s \in Sessions : HasWork(s) /\ FollowsQueue(s)
    BY DEF WorkInv, OrderInv
<1>5. \A s \in Sessions : s # None /\ Cursor(s) \in Nat /\ Len(Queue(s)) \in Nat
    BY FiniteParts DEF SessionAssumption
<1>6. req[p].cursor \in Nat /\ req[p].session \in Sessions \cup {None}
    BY <1>1 DEF Request
<1>7. CASE InsertReview(p)
    <2> PICK s : s = req[p].session
        OBVIOUS
    <2>1. /\ req'[p].stage = "award" /\ req'[p].session = s /\ req'[p].cursor = req[p].cursor
          /\ req[p].stage = "log" /\ sessions' = sessions
        BY <1>1, <1>7, AfterGoTo DEF InsertReview, At
    <2>2. s \in Sessions /\ s # None /\ req[p].cursor = Cursor(s)
        BY <1>4, <1>6, <2>1 DEF Counted, Informed, Passed
    <2>3. \A t \in Sessions : Cursor(t)' = IF t = s THEN Cursor(t) + 1 ELSE Cursor(t)
        BY <1>7, InsertKeepsOrder
    <2>4. Counted(p)'
        <3>1. Cursor(s)' = Cursor(s) + 1
            BY <2>2, <2>3
        <3> QED BY <2>1, <2>2, <3>1 DEF Counted, Passed, At
    <2>5. ASSUME NEW t \in Sessions PROVE HasWork(t)'
        <3>1. CASE t = s
            BY <2>1, <3>1 DEF HasWork, Filling
        <3>2. CASE t # s
            <4>1. Cursor(t)' = Cursor(t) /\ Queue(t)' = Queue(t) /\ HasWork(t)
                BY <1>4, <2>1, <2>3, <3>2 DEF Queue
            <4>2. \A q \in Requests : ~Filling(q, t)
                BY <1>2, <3>2 DEF Filling
            <4> QED BY <2>1, <4>1, <4>2 DEF HasWork
        <3> QED BY <3>1, <3>2
    <2> QED BY <1>3, <2>4, <2>5 DEF WorkInv
<1>8. CASE Award(p)
    <2>1. /\ req'[p].stage = "streak" /\ req'[p].session = req[p].session
          /\ req'[p].cursor = req[p].cursor /\ req[p].stage = "award"
          /\ UNCHANGED <<reviews, sessions>>
        BY <1>1, <1>8, AfterGoTo DEF Award, At
    <2>2. Counted(p)'
        BY <1>4, <2>1 DEF Counted, Passed, At, Cursor, GetSessionReviews
    <2> QED BY <1>2, <2>1, <2>2, WorkFrame DEF Filling
<1>9. CASE AwardStreak(p)
    <2> DEFINE s == req[p].session
    <2>1. /\ req[p].stage = "streak" /\ UNCHANGED <<reviews, sessions>>
          /\ s \in Sessions /\ Cursor(s) = req[p].cursor + 1
        BY <1>4, <1>9 DEF AwardStreak, At, Counted
    <2>2. CASE Drains(s, req[p].cursor)
        <3>1. req'[p].stage = "drain" /\ req'[p].session = s
            BY <1>1, <1>5, <1>9, <2>1, <2>2, AfterGoTo DEF AwardStreak
        <3>2. Counted(p)'
            BY <3>1 DEF Counted, Passed, At
        <3> QED BY <1>2, <2>1, <3>1, <3>2, WorkFrame DEF Filling
    <2>3. CASE ~Drains(s, req[p].cursor)
        <3>1. req'[p].stage = "idle"
            BY <1>1, <1>9, <2>3, AfterFinish DEF AwardStreak
        <3>2. Counted(p)'
            BY <3>1 DEF Counted, Passed, At
        <3>3. Cursor(s) < Len(Queue(s))
            BY <1>5, <1>6, <2>1, <2>3 DEF Drains
        <3>4. ASSUME NEW t \in Sessions PROVE HasWork(t)'
            <4>1. Cursor(t)' = Cursor(t) /\ Queue(t)' = Queue(t) /\ HasWork(t)
                BY <1>4, <2>1 DEF Cursor, GetSessionReviews, Queue
            <4>2. t # s => \A q \in Requests : ~Filling(q, t)
                BY <1>2 DEF Filling
            <4> QED BY <2>1, <3>3, <4>1, <4>2 DEF HasWork
        <3> QED BY <1>3, <3>2, <3>4 DEF WorkInv
    <2> QED BY <2>2, <2>3
<1>10. CASE CompleteDrained(p) \/ Reopen(p)
    <2> DEFINE s == req[p].session
    <2>1. /\ s \in Sessions /\ reviews' = reviews
          /\ sessions \in [Sessions -> [status : Statuses, queue : Seq(Cards)]]
          /\ req'[p].stage \in {"bonus", "idle"}
        BY <1>1, <1>10, AfterGoTo, AfterFinish DEF CompleteDrained, Reopen, TypeOK, StageOK, At
    <2>2. \A t \in Sessions : sessions'[t].queue = sessions[t].queue
        BY <1>10, <2>1, StatusWrites DEF CompleteDrained, Reopen
    <2>3. \A t \in Sessions \ {s} : sessions'[t].status = sessions[t].status
        BY <1>10, <2>1, StatusWrites DEF CompleteDrained, Reopen
    <2>4. sessions'[s].status = "active" => Cursor(s) < Len(Queue(s))
        <3>1. CASE CompleteDrained(p)
            BY <2>1, <3>1, StatusWrites DEF CompleteDrained
        <3>2. CASE Reopen(p)
            BY <1>4, <3>2 DEF Reopen, At, Counted
        <3> QED BY <1>10, <3>1, <3>2
    <2>5. Counted(p)'
        BY <2>1 DEF Counted, Passed, At
    <2>6. ASSUME NEW t \in Sessions PROVE HasWork(t)'
        <3>1. Cursor(t)' = Cursor(t) /\ Queue(t)' = Queue(t) /\ HasWork(t)
            BY <1>4, <2>1, <2>2 DEF Cursor, GetSessionReviews, Queue
        <3>2. CASE t = s
            BY <2>4, <3>1, <3>2 DEF HasWork
        <3>3. CASE t # s
            <4>1. \A q \in Requests : ~Filling(q, t)
                BY <1>2, <3>3 DEF Filling
            <4> QED BY <2>3, <3>1, <3>3, <4>1 DEF HasWork
        <3> QED BY <3>2, <3>3
    <2> QED BY <1>3, <2>5, <2>6 DEF WorkInv
<1>11. CASE DeleteReview(p)
    <2> PICK s : s = req[p].session
        OBVIOUS
    <2>1. /\ s \in Sessions /\ sessions' = sessions /\ req[p].stage = "delete"
          /\ \/ req'[p].stage = "idle"
             \/ req'[p].stage = "reopen" /\ req'[p].session = s
        BY <1>1, <1>11, AfterGoTo, AfterFinish DEF DeleteReview, At, TypeOK, StageOK
    <2>2. \A t \in Sessions : Cursor(t)' = IF t = s THEN Cursor(t) - 1 ELSE Cursor(t)
        BY <1>11, DeleteKeepsOrder
    <2>3. GetSessionReviews(s) # {}
        BY <1>4, <2>1 DEF Informed, Undoing
    <2>4. Cursor(s) <= Len(Queue(s))
        BY <1>1, <1>4, <2>1, <2>3, CursorInQueue
    <2>5. \A t \in Sessions : Queue(t)' = Queue(t)
        BY <2>1 DEF Queue
    <2>6. Counted(p)'
        <3>1. Cursor(s)' < Len(Queue(s)')
            <4>1. Cursor(s) - 1 < Len(Queue(s))
                BY <1>5, <2>1, <2>4
            <4> QED BY <2>1, <2>2, <2>5, <4>1
        <3> QED BY <2>1, <3>1 DEF Counted, Passed, At
    <2>7. ASSUME NEW t \in Sessions PROVE HasWork(t)'
        <3>1. CASE t = s
            <4>1. Cursor(t) - 1 < Len(Queue(t))
                BY <1>5, <2>4, <3>1
            <4>2. Cursor(t)' < Len(Queue(t)')
                BY <2>2, <2>5, <3>1, <4>1
            <4> QED BY <4>2 DEF HasWork
        <3>2. CASE t # s
            <4>1. Cursor(t)' = Cursor(t) /\ Queue(t)' = Queue(t) /\ HasWork(t)
                BY <1>4, <2>2, <2>5, <3>2
            <4>2. \A q \in Requests : ~Filling(q, t)
                BY <1>2, <2>1 DEF Filling
            <4> QED BY <2>1, <4>1, <4>2 DEF HasWork
        <3> QED BY <3>1, <3>2
    <2> QED BY <1>3, <2>6, <2>7 DEF WorkInv
<1>12. CASE CheckCursor(p) \/ FindLast(p)
    <2>1. UNCHANGED <<reviews, sessions>> /\ req[p].session \in Sessions
        BY <1>1, <1>12 DEF CheckCursor, FindLast, At, TypeOK, StageOK
    <2>2. \A s \in Sessions : ~Filling(p, s)
        BY <1>12 DEF CheckCursor, FindLast, At, Filling
    <2>3. /\ req'[p].stage \in {"idle", "grade", "restore"}
          /\ req'[p].stage # "idle" => req'[p].session = req[p].session
        <3>1. CASE Finish(p)
            BY <1>1, <3>1, AfterFinish
        <3>2. CASE ~Finish(p)
            BY <1>1, <1>12, <3>2 DEF CheckCursor, FindLast, TypeOK, Request
        <3> QED BY <3>1, <3>2
    <2>4. Counted(p)'
        BY <1>5, <2>1, <2>3 DEF Counted, Passed, At
    <2> QED BY <1>2, <2>1, <2>2, <2>4, WorkFrame
<1>13. CASE ReadCard(p) \/ UpdateCard(p)
    <2>1. /\ UNCHANGED <<reviews, sessions>> /\ req[p].stage \in {"grade", "update"}
          /\ req'[p].stage \in {"update", "log"} /\ req'[p].session = req[p].session
        <3>1. CASE ReadCard(p)
            BY <1>1, <3>1 DEF ReadCard, At, TypeOK, Request
        <3>2. CASE UpdateCard(p)
            BY <1>1, <3>2, AfterGoTo DEF UpdateCard, At
        <3> QED BY <1>13, <3>1, <3>2
    <2>2. Counted(p)'
        BY <1>4, <2>1 DEF Counted, Passed, At
    <2> QED BY <1>2, <2>1, <2>2, WorkFrame DEF Filling
<1>14. CASE AwardBonus(p) \/ RestoreCard(p) \/ RevokeXp(p)
            \/ (\E s \in Sessions : OpenUndo(p, s))
            \/ (\E s \in Sessions, c \in Cards : OpenAnswer(p, s, c))
    <2>1. /\ UNCHANGED <<reviews, sessions>>
          /\ req[p].stage \in {"bonus", "restore", "revoke", "idle"}
        BY <1>14 DEF AwardBonus, RestoreCard, RevokeXp, OpenUndo, OpenAnswer, At, Free
    <2>2. req'[p].stage \in {"idle", "revoke", "delete", "undo", "cursor"}
        <3>1. CASE AwardBonus(p) \/ RestoreCard(p) \/ RevokeXp(p)
            BY <1>1, <3>1, AfterGoTo, AfterFinish DEF AwardBonus, RestoreCard, RevokeXp
        <3> QED BY <1>1, <1>14, <3>1, AfterOpen
    <2>3. Counted(p)'
        BY <2>2 DEF Counted, Passed, At
    <2> QED BY <1>2, <2>1, <2>3, WorkFrame DEF Filling
<1>15. ~Crash(p) /\ \A c \in Cards : ~OpenGrading(p, c)
    BY DEF Undisturbed, Crash, OpenGrading
<1> QED BY <1>7, <1>8, <1>9, <1>10, <1>11, <1>12, <1>13, <1>14, <1>15
        DEF RequestStep, Answer, GradeCard, Undo

LEMMA SessionsKeepWork ==
    ASSUME SessionAssumption, Inv, OrderInv, WorkInv, NEW s \in Sessions, Lifecycle(s)
    PROVE  WorkInv'
<1>1. /\ UNCHANGED <<reviews, req>> /\ TypeOK /\ LogInv
      /\ sessions \in [Sessions -> [status : Statuses, queue : Seq(Cards)]]
    BY StepsOfSessions DEF Inv, TypeOK
<1>2. \A t : Cursor(t)' = Cursor(t)
    BY <1>1 DEF GetSessionReviews, Cursor
<1>3. \A t \in Sessions \ {s} : sessions'[t] = sessions[t]
    BY <1>1 DEF Lifecycle, Plan, CompleteSession, AbandonSession, EndSession
<1>4. \A t \in Sessions \ {s} : HasWork(t)'
    BY <1>1, <1>2, <1>3 DEF WorkInv, HasWork, Filling, Queue
<1>5. Cursor(s) \in Nat /\ Len(Queue(s)) \in Nat
    BY FiniteParts
<1>6. CASE \E queue \in Plans : Plan(s, queue)
    <2>1. Queue(s) = <<>>
        BY <1>6 DEF Plan, Inv, PlanInv
    <2>2. Cursor(s) = 0
        <3>1. GetSessionReviews(s) = {}
            BY <1>1, <2>1, CursorInQueue DEF OrderInv
        <3> QED BY <3>1, FS_EmptySet DEF Cursor
    <2>3. HasWork(s)'
        BY <1>2, <2>2 DEF HasWork
    <2>4. ASSUME NEW p \in Requests PROVE Counted(p)'
        <3>1. Counted(p)
            BY DEF WorkInv
        <3>2. At(p, "reopen") => req[p].session \in Sessions \ {s}
            <4>1. At(p, "reopen") => req[p].session \in Sessions
                BY <1>1 DEF TypeOK, StageOK, At
            <4>2. Len(Queue(s)) = 0
                BY <2>1
            <4> QED BY <1>5, <3>1, <4>1, <4>2 DEF Counted
        <3> QED BY <1>1, <1>2, <1>3, <3>1, <3>2 DEF Counted, Passed, At, Queue
    <2> QED BY <1>4, <2>3, <2>4 DEF WorkInv
<1>7. CASE CompleteSession(s) \/ AbandonSession(s)
    <2>1. sessions'[s].status # "active" /\ \A t \in Sessions : sessions'[t].queue = sessions[t].queue
        <3>1. PICK status \in {"completed", "abandoned"} :
                  sessions' = [sessions EXCEPT ![s].status = status]
            BY <1>7 DEF CompleteSession, AbandonSession, EndSession
        <3>2. \A t \in Sessions : /\ sessions'[t].queue = sessions[t].queue
                                  /\ sessions'[t].status = IF t = s THEN status
                                                                    ELSE sessions[t].status
            BY <1>1, <3>1, StatusWrites
        <3> QED BY <3>2
    <2>2. HasWork(s)'
        BY <2>1 DEF HasWork
    <2>3. ASSUME NEW p \in Requests PROVE Counted(p)'
        <3>1. At(p, "reopen") => req[p].session \in Sessions
            BY <1>1 DEF TypeOK, StageOK, At
        <3> QED BY <1>1, <1>2, <2>1, <3>1 DEF WorkInv, Counted, Passed, At, Queue
    <2> QED BY <1>4, <2>2, <2>3 DEF WorkInv
<1> QED BY <1>6, <1>7 DEF Lifecycle

\* The invariant behind ActiveHasWork.
ProgressInv == QueueInv /\ (Undisturbed => WorkInv)

LEMMA ProgressInvIsInductive ==
    ASSUME SessionAssumption
    PROVE  /\ Init => ProgressInv
           /\ ProgressInv /\ [Next]_vars => ProgressInv'
<1>1. Init => ProgressInv
    <2>1. Init => WorkInv
        BY DEF Init, WorkInv, Counted, HasWork, Passed, At, Idle
    <2> QED BY <2>1, QueueInvIsInductive DEF ProgressInv
<1>2. ASSUME ProgressInv, [Next]_vars PROVE ProgressInv'
    <2>1. QueueInv' /\ env' = env
        BY <1>2, QueueInvIsInductive, SlotInvIsInductive DEF ProgressInv, QueueInv, Inv
    <2>2. ASSUME Undisturbed PROVE WorkInv'
        <3>1. Inv /\ SlotInv /\ OrderInv /\ WorkInv
            BY <1>2, <2>2 DEF ProgressInv, QueueInv, Undisturbed
        <3>2. CASE \E p \in Requests : RequestStep(p)
            BY <2>2, <3>1, <3>2, RequestsKeepWork
        <3>3. CASE \E s \in Sessions : Lifecycle(s)
            BY <3>1, <3>3, SessionsKeepWork
        <3>4. CASE UNCHANGED vars
            BY <3>1, <3>4 DEF vars, WorkInv, Counted, HasWork, Filling, Passed, At, Queue, Cursor,
                GetSessionReviews
        <3> QED BY <1>2, <3>2, <3>3, <3>4 DEF Next, RequestStep
    <2> QED BY <2>1, <2>2 DEF ProgressInv, Undisturbed, Alone
<1> QED BY <1>1, <1>2

\* Undisturbed, an active session always has a card to answer: the answer that
\* drains the queue completes the session and only an undo opens it again, even
\* if the learner completes or abandons the session while a request runs.
THEOREM ActiveSessionsHaveWork == Spec => []ActiveHasWork
<1>1. ProgressInv => ActiveHasWork
    BY DEF ProgressInv, WorkInv, HasWork, Filling, ActiveHasWork, Quiet, At
<1> QED BY <1>1, ProgressInvIsInductive, SessionAssumption, PTL DEF Spec

--------------------------------------------------------------------------------
(* The states of the cards.                                                *)

\* `log` is the set of gradings `ids`, in their order.
IsLogOf(log, ids) ==
    /\ Len(log) = Cardinality(ids)
    /\ \A i \in DOMAIN log : log[i] \in ids
    /\ \A i, j \in DOMAIN log : i < j => log[i] < log[j]

Logged(c) == {r.id : r \in {r \in reviews : r.card = c}}

LoggedBefore(c, id) == {r.id : r \in {r \in reviews : r.card = c /\ r.id < id}}

Writing(p, c) == req[p].stage \in {"log", "revoke", "delete"} /\ req[p].review.card = c

\* What a request that writes a card has written or is about to write.
Written(p) ==
    /\ req[p].stage \in {"update", "log"} =>
          IsLogOf(req[p].review.before, Logged(req[p].review.card))
    /\ At(p, "log") =>
          cards[req[p].review.card] = Append(req[p].review.before, req[p].review.id)
    /\ req[p].stage \in {"revoke", "delete"} =>
          cards[req[p].review.card] = req[p].review.before

\* A snapshot is the log of what came before it; a card is the log of its
\* reviews, but for the one being written or taken back.
CardsInv ==
    /\ \A r \in reviews : r.session \in Sessions /\ IsLogOf(r.before, LoggedBefore(r.card, r.id))
    /\ \A p \in Requests : Written(p)
    /\ \A c \in Cards : (\A p \in Requests : ~Writing(p, c)) => IsLogOf(cards[c], Logged(c))

LEMMA LogAppends ==
    ASSUME NEW ids \in SUBSET Nat, IsFiniteSet(ids), NEW log \in Seq(Nat), NEW id \in Nat,
           IsLogOf(log, ids), \A i \in ids : i < id
    PROVE  IsLogOf(Append(log, id), ids \cup {id})
<1> DEFINE new == Append(log, id)
<1>1. Len(log) \in Nat /\ DOMAIN log = 1..Len(log)
    OBVIOUS
<1>2. /\ Len(new) = Len(log) + 1 /\ DOMAIN new = 1..(Len(log) + 1)
      /\ new[Len(log) + 1] = id /\ \A i \in 1..Len(log) : new[i] = log[i]
    OBVIOUS
<1>3. id \notin ids
    OBVIOUS
<1>4. Cardinality(ids \cup {id}) = Cardinality(ids) + 1
    BY <1>3, FS_AddElement
<1>5. \A i \in 1..Len(log) : log[i] \in ids /\ log[i] < id
    BY <1>1 DEF IsLogOf
<1>6. ASSUME NEW i \in 1..(Len(log) + 1), NEW j \in 1..(Len(log) + 1), i < j
      PROVE  new[i] < new[j]
    <2>1. i \in 1..Len(log)
        BY <1>1, <1>6
    <2>2. CASE j = Len(log) + 1
        BY <1>2, <1>5, <2>1, <2>2
    <2>3. CASE j \in 1..Len(log)
        BY <1>1, <1>2, <1>6, <2>1, <2>3 DEF IsLogOf
    <2> QED BY <1>1, <2>2, <2>3
<1>7. \A i \in 1..(Len(log) + 1) : new[i] \in ids \cup {id}
    <2> TAKE i \in 1..(Len(log) + 1)
    <2>1. CASE i = Len(log) + 1
        BY <1>2, <2>1
    <2>2. CASE i \in 1..Len(log)
        BY <1>2, <1>5, <2>2
    <2> QED BY <1>1, <2>1, <2>2
<1>8. Len(new) = Cardinality(ids \cup {id})
    BY <1>2, <1>4 DEF IsLogOf
<1> HIDE DEF new
<1> QED BY <1>2, <1>6, <1>7, <1>8 DEF IsLogOf, new

LEMMA LoggedIsFinite ==
    ASSUME TypeOK, LogInv, NEW c
    PROVE  Logged(c) \in SUBSET Nat /\ IsFiniteSet(Logged(c))
<1>1. Logged(c) \subseteq 0..clock
    BY DEF Logged, LogInv, TypeOK, Review
<1>2. 0 \in Int /\ clock \in Int /\ 0..clock \subseteq Nat
    BY DEF TypeOK
<1> QED BY <1>1, <1>2, FS_Interval, FS_Subset

\* A step between two statements that write neither a card nor the log.
LEMMA CardsFrame ==
    ASSUME CardsInv, NEW p \in Requests, UNCHANGED <<reviews, cards>>,
           \A q \in Requests \ {p} : req'[q] = req[q] /\ req[q].stage = "idle",
           \A c \in Cards : Writing(p, c) => Writing(p, c)',
           Written(p)'
    PROVE  CardsInv'
<1>1. \A c : Logged(c)' = Logged(c)
    BY DEF Logged
<1>2. \A c, id : LoggedBefore(c, id)' = LoggedBefore(c, id)
    BY DEF LoggedBefore
<1>3. \A r \in reviews' :
          r.session \in Sessions /\ IsLogOf(r.before, LoggedBefore(r.card, r.id)')
    BY <1>2 DEF CardsInv
<1>4. \A q \in Requests : Written(q)'
    BY DEF Written, At
<1>5. ASSUME NEW c \in Cards, \A q \in Requests : ~Writing(q, c)'
      PROVE  IsLogOf(cards'[c], Logged(c)')
    <2>1. \A q \in Requests : ~Writing(q, c)
        BY <1>5 DEF Writing
    <2> QED BY <1>1, <2>1 DEF CardsInv
<1> QED BY <1>3, <1>4, <1>5 DEF CardsInv, IsLogOf

LEMMA RequestsKeepCards ==
    ASSUME SessionAssumption, Inv, SlotInv, Undisturbed, OneSession, OrderInv, WorkInv, CardsInv,
           NEW p \in Requests, RequestStep(p)
    PROVE  CardsInv'
<1>1. TypeOK /\ Alone /\ req[p] \in Request /\ LogInv /\ cards \in [Cards -> Seq(Nat)]
    BY DEF Inv, TypeOK, Undisturbed
<1>2. \A q \in Requests \ {p} : req'[q] = req[q] /\ req[q].stage = "idle"
    BY <1>1, OthersAreIdle
<1>3. \A q \in Requests \ {p} : Written(q)' /\ \A c : ~Writing(q, c) /\ ~Writing(q, c)'
    BY <1>2 DEF Written, Writing, At
<1>4. Written(p) /\ Informed(p) /\ Counted(p)
    BY DEF CardsInv, OrderInv, WorkInv
<1>5. \A x \in reviews : x \in Review /\ x.id \in Nat /\ x.card \in Cards
    BY <1>1 DEF TypeOK, Review
<1>6. CASE \/ CheckCursor(p) \/ FindLast(p) \/ Award(p) \/ AwardStreak(p) \/ AwardBonus(p)
           \/ CompleteDrained(p) \/ Reopen(p) \/ (\E s \in Sessions : OpenUndo(p, s))
           \/ (\E s \in Sessions, c \in Cards : OpenAnswer(p, s, c))
    <2>1. /\ UNCHANGED <<reviews, cards>>
          /\ req[p].stage \notin {"log", "revoke", "delete"}
        BY <1>6 DEF CheckCursor, FindLast, Award, AwardStreak, AwardBonus, CompleteDrained, Reopen,
            OpenUndo, OpenAnswer, At, Free
    <2>2. req'[p].stage \notin {"update", "log", "revoke", "delete"}
        <3>1. CASE Award(p) \/ AwardStreak(p) \/ AwardBonus(p) \/ CompleteDrained(p) \/ Reopen(p)
            BY <1>1, <3>1, AfterGoTo, AfterFinish DEF Award, AwardStreak, AwardBonus,
                CompleteDrained, Reopen
        <3>2. CASE CheckCursor(p) \/ FindLast(p)
            <4>1. CASE Finish(p)
                BY <1>1, <4>1, AfterFinish
            <4>2. CASE ~Finish(p)
                BY <1>1, <3>2, <4>2 DEF CheckCursor, FindLast, TypeOK, Request
            <4> QED BY <4>1, <4>2
        <3> QED BY <1>1, <1>6, <3>1, <3>2, AfterOpen
    <2>3. Written(p)'
        BY <2>2 DEF Written, At
    <2> QED BY <1>2, <2>1, <2>3, CardsFrame DEF Writing
<1>7. CASE ReadCard(p)
    <2>1. /\ UNCHANGED <<reviews, cards>> /\ req[p].stage = "grade" /\ req[p].card \in Cards
          /\ req' = [req EXCEPT ![p].stage = "update",
                                ![p].review = [id |-> clock + 1, card |-> req[p].card,
                                               session |-> req[p].session,
                                               before |-> cards[req[p].card]]]
        BY <1>1, <1>7 DEF ReadCard, At, TypeOK, StageOK
    <2>2. /\ req'[p].stage = "update" /\ req'[p].review.card = req[p].card
          /\ req'[p].review.before = cards[req[p].card]
        BY <1>1, <2>1 DEF TypeOK, Request
    <2>3. \A q \in Requests : ~Writing(q, req[p].card)
        BY <1>3, <2>1 DEF Writing
    <2>4. IsLogOf(cards[req[p].card], Logged(req[p].card))
        BY <2>1, <2>3 DEF CardsInv
    <2>5. Written(p)'
        BY <2>1, <2>2, <2>4 DEF Written, At, Logged, IsLogOf
    <2> QED BY <1>2, <2>1, <2>5, CardsFrame DEF Writing
<1>8. CASE UpdateCard(p) \/ RestoreCard(p)
    <2> PICK r : r = req[p].review
        OBVIOUS
    <2>1. /\ r \in Review /\ reviews' = reviews
          /\ \/ req[p].stage = "update" /\ req'[p].stage = "log"
                /\ cards' = [cards EXCEPT ![r.card] = Append(r.before, r.id)]
             \/ req[p].stage = "restore" /\ req'[p].stage = "revoke"
                /\ cards' = [cards EXCEPT ![r.card] = r.before]
          /\ req'[p].review = r
        BY <1>1, <1>8, AfterGoTo DEF UpdateCard, RestoreCard, At, TypeOK, StageOK
    <2>2. r.card \in Cards /\ \A c \in Cards \ {r.card} : cards'[c] = cards[c]
        BY <1>1, <2>1 DEF Review
    <2>3. \A c : Logged(c)' = Logged(c)
        BY <2>1 DEF Logged
    <2>4. \A x \in reviews' :
              x.session \in Sessions /\ IsLogOf(x.before, LoggedBefore(x.card, x.id)')
        BY <2>1 DEF CardsInv, LoggedBefore
    <2>5. Written(p)'
        <3>1. req'[p].stage = "log" => cards'[r.card] = Append(r.before, r.id)
            BY <1>1, <2>1, <2>2
        <3>2. req'[p].stage = "revoke" => cards'[r.card] = r.before
            BY <1>1, <2>1, <2>2
        <3>3. req'[p].stage = "log" => IsLogOf(r.before, Logged(r.card))
            BY <1>4, <2>1 DEF Written
        <3> QED BY <2>1, <2>3, <3>1, <3>2, <3>3 DEF Written, At, IsLogOf
    <2>6. ASSUME NEW c \in Cards, \A q \in Requests : ~Writing(q, c)'
          PROVE  IsLogOf(cards'[c], Logged(c)')
        <3>1. c # r.card
            BY <2>1, <2>6 DEF Writing
        <3>2. \A q \in Requests : ~Writing(q, c)
            BY <1>3, <2>1 DEF Writing
        <3> QED BY <2>2, <2>3, <3>1, <3>2 DEF CardsInv
    <2> QED BY <1>3, <2>4, <2>5, <2>6 DEF CardsInv, IsLogOf
<1>9. CASE RevokeXp(p)
    <2>1. /\ UNCHANGED <<reviews, cards>> /\ req[p].stage = "revoke"
          /\ req'[p].stage = "delete" /\ req'[p].review = req[p].review
        BY <1>1, <1>9, AfterGoTo DEF RevokeXp, At
    <2>2. Written(p)'
        BY <1>4, <2>1 DEF Written, At
    <2> QED BY <1>2, <2>1, <2>2, CardsFrame DEF Writing
<1>10. CASE InsertReview(p)
    <2> PICK r : r = req[p].review
        OBVIOUS
    <2>1. /\ r \in Review /\ req[p].stage = "log" /\ req'[p].stage = "award"
          /\ r.session = req[p].session
          /\ reviews' = reviews \cup {r} /\ cards' = cards
        BY <1>1, <1>10, AfterGoTo DEF InsertReview, Snapshot, At, Inv, TypeOK, StageOK, CarriedInv
    <2>2. /\ r.id \in Nat /\ r.card \in Cards /\ r.before \in Seq(Nat)
          /\ \A x \in reviews : x.id < r.id
        BY <1>4, <2>1 DEF Informed, Review
    <2>3. r.session \in Sessions
        BY <1>1, <1>4, <2>1 DEF Counted, Passed, Request
    <2>4. Logged(r.card)' = Logged(r.card) \cup {r.id}
          /\ \A c : c # r.card => Logged(c)' = Logged(c)
        BY <2>1 DEF Logged
    <2>5. ASSUME NEW x \in reviews PROVE LoggedBefore(x.card, x.id)' = LoggedBefore(x.card, x.id)
        <3>1. ~(r.id < x.id)
            BY <1>5, <2>2
        <3> QED BY <2>1, <3>1 DEF LoggedBefore
    <2>6. LoggedBefore(r.card, r.id)' = Logged(r.card)
        <3>1. ~(r.id < r.id)
            BY <2>2
        <3> QED BY <2>1, <2>2, <3>1 DEF LoggedBefore, Logged
    <2>7. IsLogOf(r.before, Logged(r.card)) /\ cards[r.card] = Append(r.before, r.id)
        BY <1>4, <2>1 DEF Written, At
    <2>8. \A x \in reviews' :
              x.session \in Sessions /\ IsLogOf(x.before, LoggedBefore(x.card, x.id)')
        BY <2>1, <2>3, <2>5, <2>6, <2>7 DEF CardsInv
    <2>9. Written(p)'
        BY <2>1 DEF Written, At
    <2>10. ASSUME NEW c \in Cards PROVE IsLogOf(cards'[c], Logged(c)')
        <3>1. CASE c = r.card
            <4>1. \A i \in Logged(c) : i < r.id
                BY <2>2 DEF Logged
            <4>2. Logged(c) \in SUBSET Nat /\ IsFiniteSet(Logged(c))
                BY <1>1, LoggedIsFinite
            <4>3. IsLogOf(Append(r.before, r.id), Logged(c) \cup {r.id})
                BY <2>2, <2>7, <3>1, <4>1, <4>2, LogAppends
            <4> QED BY <2>1, <2>4, <2>7, <3>1, <4>3
        <3>2. CASE c # r.card
            <4>1. \A q \in Requests : ~Writing(q, c)
                BY <1>3, <3>2 DEF Writing
            <4> QED BY <2>1, <2>4, <3>2, <4>1 DEF CardsInv
        <3> QED BY <3>1, <3>2
    <2> QED BY <1>3, <2>8, <2>9, <2>10 DEF CardsInv, IsLogOf
<1>11. CASE DeleteReview(p)
    <2> PICK r : r = req[p].review
        OBVIOUS
    <2>1. /\ req[p].stage = "delete" /\ req'[p].stage \in {"idle", "reopen"}
          /\ cards' = cards /\ reviews' = reviews \ {r} /\ req[p].session \in Sessions
        BY <1>1, <1>11, AfterGoTo, AfterFinish, DeleteKeepsOrder
            DEF DeleteReview, At, TypeOK, StageOK
    <2>2. r \in reviews /\ \A x \in GetSessionReviews(req[p].session) : x.id <= r.id
        BY <1>4, <2>1 DEF Informed, Undoing, GetSessionReviews
    <2>3. ASSUME NEW x \in reviews' PROVE x.id < r.id
        <3>1. x \in reviews /\ x # r
            BY <2>1
        <3>2. x.session = req[p].session
            BY <2>1, <3>1 DEF CardsInv, OneSession
        <3>3. x.id <= r.id /\ x.id # r.id
            BY <2>2, <3>1, <3>2 DEF OrderInv, UniqueIds, GetSessionReviews
        <3> QED BY <1>5, <2>2, <3>1, <3>3
    <2>4. ASSUME NEW x \in reviews'
          PROVE  LoggedBefore(x.card, x.id)' = LoggedBefore(x.card, x.id)
        <3>1. ~(r.id < x.id)
            BY <1>5, <2>1, <2>2, <2>3
        <3> QED BY <2>1, <3>1 DEF LoggedBefore
    <2>5. Logged(r.card)' = LoggedBefore(r.card, r.id)
        <3>1. ~(r.id < r.id)
            BY <1>5, <2>2
        <3> QED BY <2>1, <2>3, <3>1 DEF LoggedBefore, Logged
    <2>6. \A c : c # r.card => Logged(c)' = Logged(c)
        BY <2>1 DEF Logged
    <2>7. cards[r.card] = r.before
        BY <1>4, <2>1 DEF Written
    <2>8. \A x \in reviews' :
              x.session \in Sessions /\ IsLogOf(x.before, LoggedBefore(x.card, x.id)')
        BY <2>1, <2>4 DEF CardsInv
    <2>9. Written(p)'
        BY <2>1 DEF Written, At
    <2>10. ASSUME NEW c \in Cards PROVE IsLogOf(cards'[c], Logged(c)')
        <3>1. CASE c = r.card
            BY <2>1, <2>2, <2>5, <2>7, <3>1 DEF CardsInv
        <3>2. CASE c # r.card
            <4>1. \A q \in Requests : ~Writing(q, c)
                BY <1>3, <3>2 DEF Writing
            <4> QED BY <2>1, <2>6, <3>2, <4>1 DEF CardsInv
        <3> QED BY <3>1, <3>2
    <2> QED BY <1>3, <2>8, <2>9, <2>10 DEF CardsInv, IsLogOf
<1>12. ~Crash(p) /\ \A c \in Cards : ~OpenGrading(p, c)
    BY DEF Undisturbed, Crash, OpenGrading
<1> QED BY <1>6, <1>7, <1>8, <1>9, <1>10, <1>11, <1>12 DEF RequestStep, Answer, GradeCard, Undo

\* The invariant behind CardsFollowLog.
StateInv == ProgressInv /\ (Undisturbed /\ OneSession => CardsInv)

LEMMA CardsStay ==
    ASSUME CardsInv, UNCHANGED <<reviews, cards, req>>
    PROVE  CardsInv'
BY DEF CardsInv, Written, Writing, At, Logged, LoggedBefore, IsLogOf

LEMMA StateInvIsInductive ==
    ASSUME SessionAssumption
    PROVE  /\ Init => StateInv
           /\ StateInv /\ [Next]_vars => StateInv'
<1>1. Init => StateInv
    <2>1. ASSUME Init PROVE CardsInv
        <3>1. \A c : Logged(c) = {} /\ Cardinality(Logged(c)) = 0
            BY <2>1, FS_EmptySet DEF Init, Logged
        <3>2. \A c \in Cards : IsLogOf(cards[c], Logged(c))
            BY <2>1, <3>1 DEF Init, IsLogOf
        <3>3. \A p \in Requests : Written(p)
            BY <2>1 DEF Init, Written, At, Idle
        <3> QED BY <2>1, <3>2, <3>3 DEF Init, CardsInv
    <2> QED BY <2>1, ProgressInvIsInductive DEF StateInv
<1>2. ASSUME StateInv, [Next]_vars PROVE StateInv'
    <2>1. ProgressInv' /\ env' = env
        BY <1>2, ProgressInvIsInductive, SlotInvIsInductive DEF StateInv, ProgressInv, QueueInv, Inv
    <2>2. ASSUME Undisturbed, OneSession PROVE CardsInv'
        <3>1. Inv /\ SlotInv /\ OrderInv /\ WorkInv /\ CardsInv
            BY <1>2, <2>2 DEF StateInv, ProgressInv, QueueInv, Undisturbed
        <3>2. CASE \E p \in Requests : RequestStep(p)
            BY <2>2, <3>1, <3>2, RequestsKeepCards
        <3>3. CASE \E s \in Sessions : Lifecycle(s)
            BY <3>1, <3>3, StepsOfSessions, CardsStay
        <3>4. CASE UNCHANGED vars
            BY <3>1, <3>4, CardsStay DEF vars
        <3> QED BY <1>2, <3>2, <3>3, <3>4 DEF Next, RequestStep
    <2> QED BY <2>1, <2>2 DEF StateInv, Undisturbed, Alone
<1> QED BY <1>1, <1>2

\* Undisturbed and within one session, the state of a card is the result of
\* exactly the logged reviews in their order, after any answers and undos.
THEOREM CardsAreTheirLog == Spec => []CardsFollowLog
<1>1. StateInv => CardsFollowLog
    <2> SUFFICES ASSUME StateInv, Undisturbed, Quiet, OneSession, NEW c \in Cards
                 PROVE  IsLogOf(cards[c], Logged(c))
        BY DEF CardsFollowLog, IsLogOf, Logged
    <2>1. \A p \in Requests : ~Writing(p, c)
        BY DEF Quiet, At, Writing
    <2> QED BY <2>1 DEF StateInv, CardsInv
<1> QED BY <1>1, StateInvIsInductive, SessionAssumption, PTL DEF Spec
================================================================================
