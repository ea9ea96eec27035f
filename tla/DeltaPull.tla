------------------------------- MODULE DeltaPull -------------------------------
(***************************************************************************)
(* SyncService.pull and snapshot: a device asks for the cards and reviews  *)
(* that changed since its cursor.                                          *)
(*                                                                         *)
(* pull runs in no transaction.  It reads a page of cards by updated_at, a *)
(* page of reviews by reviewed_at, and only then takes the next cursor     *)
(* from the clock.  Gradings and pushes write in between; a grading stamps *)
(* the card with the time it began, and a pushed review carries the time   *)
(* of the device that made it.                                             *)
(***************************************************************************)
EXTENDS DeviceRegistry, FiniteSets

CONSTANTS
    CardRows,
    ReviewRows,
    PageSize,
    MaxTime      \* bound on the clock

VARIABLES
    now,
    stamp,     \* stamp[r]: updated_at or reviewed_at of row r, 0 when it is absent
    grading,   \* grading[c]: when the grading of c in progress began, or 0
    have,      \* have[d][r]: the stamp of r's version on device d, or 0
    cursor,    \* cursor[d]: next_cursor of d's last answer, 0 for none
    pull,      \* pull[d]: the pull of d in progress
    passed     \* passed[d]: versions cut from a page or written too late (history)

pullVars == <<now, stamp, grading, have, cursor, pull, passed>>

Rows == CardRows \cup ReviewRows
Times == 0 .. MaxTime
Versions == Rows \X Times

ASSUME PullAssumption ==
    /\ PageSize \in Nat \ {0}
    /\ MaxTime \in Nat \ {0}
    /\ CardRows \cap ReviewRows = {}

PullStages == {"idle", "cards", "reviews", "cursor", "answer"}

NoPull == [stage |-> "idle", since |-> 0, page |-> {}, skipped |-> {}, next |-> 0]

--------------------------------------------------------------------------------
(***************************************************************************)
(* The tables.                                                             *)
(***************************************************************************)
Tick ==
    /\ now < MaxTime
    /\ now' = now + 1
    /\ UNCHANGED <<stamp, grading, have, cursor, pull, passed>>

\* The pulls in progress that have read the table of r.
HasRead(d, r) ==
    \/ pull[d].stage \in {"cursor", "answer"}
    \/ pull[d].stage = "reviews" /\ r \in CardRows

WriteRow(r, t) ==
    /\ stamp' = [stamp EXCEPT ![r] = t]
    /\ pull' = [d \in Tablets |-> IF HasRead(d, r)
                                  THEN [pull[d] EXCEPT !.skipped = @ \cup {<<r, t>>}]
                                  ELSE pull[d]]
    /\ passed' = [d \in Tablets |-> IF t <= cursor[d] THEN passed[d] \cup {<<r, t>>}
                                    ELSE passed[d]]

\* gradeCard and push take the time before they write the card.
BeginGrading(c) ==
    /\ grading[c] = 0
    /\ grading' = [grading EXCEPT ![c] = now]
    /\ UNCHANGED <<now, stamp, have, cursor, pull, passed>>

WriteCard(c) ==
    /\ grading[c] # 0
    /\ WriteRow(c, grading[c])
    /\ grading' = [grading EXCEPT ![c] = 0]
    /\ UNCHANGED <<now, have, cursor>>

LogReview(r, t) ==
    /\ stamp[r] = 0
    /\ t <= now
    /\ WriteRow(r, t)
    /\ UNCHANGED <<now, grading, have, cursor>>

--------------------------------------------------------------------------------
(***************************************************************************)
(* A pull.                                                                 *)
(***************************************************************************)
StartPull(d, snapshot) ==
    /\ pull[d].stage = "idle"
    /\ MayBeAdmitted(d)
    /\ pull' = [pull EXCEPT ![d] = [NoPull EXCEPT !.stage = "cards",
                                    !.since = IF snapshot THEN 0 ELSE cursor[d]]]
    /\ UNCHANGED <<now, stamp, grading, have, cursor, passed>>

\* Strictly after the cursor.
Changed(table, since) == {r \in table : stamp[r] > since}

VersionsOf(rows) == {<<r, stamp[r]>> : r \in rows}

\* The oldest PageSize of the changed rows; rows with equal stamps in any order.
Pages(rows) ==
    {page \in SUBSET rows :
        /\ Cardinality(page) <= PageSize
        /\ page # rows => Cardinality(page) = PageSize
        /\ \A r \in page, s \in rows \ page : stamp[r] <= stamp[s]}

ReadPage(d, table, stage) ==
    LET rows == Changed(table, pull[d].since)
    IN  /\ \E page \in Pages(rows) :
              pull' = [pull EXCEPT ![d].stage = stage,
                                   ![d].page = @ \cup VersionsOf(page),
                                   ![d].skipped = @ \cup VersionsOf(rows \ page)]
        /\ UNCHANGED <<now, stamp, grading, have, cursor, passed>>

ReadCardPage(d) == pull[d].stage = "cards" /\ ReadPage(d, CardRows, "reviews")

ReadReviewPage(d) == pull[d].stage = "reviews" /\ ReadPage(d, ReviewRows, "cursor")

\* The cursor, the device row and the log.
TakeCursor(d) ==
    /\ pull[d].stage = "cursor"
    /\ pull' = [pull EXCEPT ![d].stage = "answer", ![d].next = now]
    /\ UNCHANGED <<now, stamp, grading, have, cursor, passed>>

\* The device keeps the cursor of the answer, cut or not.
ApplyAnswer(d) ==
    LET q == pull[d]
    IN  /\ q.stage = "answer"
        /\ have' = [have EXCEPT ![d] =
                      [r \in Rows |-> IF \E t \in Times : <<r, t>> \in q.page
                                      THEN CHOOSE t \in Times : <<r, t>> \in q.page
                                      ELSE @[r]]]
        /\ cursor' = [cursor EXCEPT ![d] = q.next]
        /\ passed' = [passed EXCEPT ![d] = IF q.since = 0 THEN q.skipped ELSE @ \cup q.skipped]
        /\ pull' = [pull EXCEPT ![d] = NoPull]
        /\ UNCHANGED <<now, stamp, grading>>

\* Mutant: the cursor is kept with the device on the server, answer or not.
LoseAnswerAfterCursor(d) ==
    /\ pull[d].stage = "answer"
    /\ cursor' = [cursor EXCEPT ![d] = pull[d].next]
    /\ pull' = [pull EXCEPT ![d] = NoPull]
    /\ UNCHANGED <<now, stamp, grading, have, passed>>

\* The request fails or its answer is lost: the device keeps its old cursor.
LoseAnswer(d) ==
    /\ pull[d].stage # "idle"
    /\ pull' = [pull EXCEPT ![d] = NoPull]
    /\ UNCHANGED <<now, stamp, grading, have, cursor, passed>>

--------------------------------------------------------------------------------
PullInit ==
    /\ now = 1
    /\ stamp = [r \in Rows |-> 0]
    /\ grading = [c \in CardRows |-> 0]
    /\ have = [d \in Tablets |-> [r \in Rows |-> 0]]
    /\ cursor = [d \in Tablets |-> 0]
    /\ pull = [d \in Tablets |-> NoPull]
    /\ passed = [d \in Tablets |-> {}]

PullStep(d) ==
    \/ \E snapshot \in BOOLEAN : StartPull(d, snapshot)
    \/ ReadCardPage(d)
    \/ ReadReviewPage(d)
    \/ TakeCursor(d)
    \/ ApplyAnswer(d)
    \/ LoseAnswer(d)

PullNext ==
    \/ Tick
    \/ \E c \in CardRows : BeginGrading(c) \/ WriteCard(c)
    \/ \E r \in ReviewRows, t \in Times \ {0} : LogReview(r, t)
    \/ \E d \in Tablets : PullStep(d)

\* Pulls and registrations of one server.
SyncInit == RegistryInit /\ PullInit

SyncNext ==
    \/ PullNext /\ UNCHANGED registryVars
    \/ RegistryNext /\ UNCHANGED pullVars

SyncSpec == SyncInit /\ [][SyncNext]_<<registryVars, pullVars>>

--------------------------------------------------------------------------------
(***************************************************************************)
(* Properties                                                              *)
(***************************************************************************)

Pull == [stage : PullStages, since : Times, page : SUBSET Versions,
         skipped : SUBSET Versions, next : Times]

\* The tables, the devices and the pulls have their types.
PullTypeOK ==
    /\ now \in Times \ {0}
    /\ stamp \in [Rows -> Times]
    /\ grading \in [CardRows -> Times]
    /\ have \in [Tablets -> [Rows -> Times]]
    /\ cursor \in [Tablets -> Times]
    /\ pull \in [Tablets -> Pull]
    /\ passed \in [Tablets -> SUBSET Versions]

\* A delta pull loses a change in two ways only: the page was cut at its limit,
\* or the row was written behind the cursor, which is one that was already
\* given out or one taken after the page was read.  A snapshot makes up for all
\* that was lost before it.
OnlyPassedIsMissed ==
    \A d \in Tablets, r \in Rows :
        (stamp[r] # 0 /\ stamp[r] <= cursor[d] /\ have[d][r] # stamp[r])
            => <<r, stamp[r]>> \in passed[d]
================================================================================
