# NihongoBridge: verification project

NihongoBridge is a Next.js application over PostgreSQL (Drizzle ORM) for
learning Japanese: a dictionary and kanji reference with an editorial workflow,
spaced-repetition reviews on several devices, JLPT tests, and an experience
ledger. This directory holds formal models of the parts of it that keep state:
TLA+ modules translated from the code under `src/`, TLC configurations that
check them on small instances, and theorems that TLAPS proves for every value of
the constants. Paths below are relative to the repository.

Contents: [inventory](#1-inventory) · [plan](#2-plan) · [modules](#3-modules) ·
[runs](#4-runs-and-bounds) · [fairness](#5-fairness) · [proofs](#6-proofs) ·
[findings](#7-what-the-runs-found) · [limits](#8-what-is-not-covered)

## 1. Inventory

The server is stateless: every request handler is an async function that sends
SQL statements one at a time, and all state is in PostgreSQL. Two handlers
interleave wherever one of them awaits. Of the services only the CMS opens
database transactions (READ COMMITTED, the default); every other request is a
sequence of autocommitted statements, so a crash, a lost connection or another
request can fall between any two of them. There are no background jobs and no
queues. Beside the requests there are scripts an operator starts: they fill the
dictionary and kanji tables in transactions of a batch or of a whole dataset,
and keep checkpoints and derived artifacts in files. The rest of the state
outside the database is in the clients: the page that runs an exam, the page
that searches the dictionary, the devices that review offline.

| component | code | state | operations |
|---|---|---|---|
| Editorial workflow | `src/services/cms/` | `cms_content_items`, `cms_content_versions`, `cms_audit_log`, verified rows of `entity_translations` | createDraft, updateDraft, submitForReview, requestChanges, approve, approveWithAdminOverride, verifyTranslationProposal, schedule, publish, archive, rollback |
| Review sessions | `src/services/srs/sessionService.ts`, `srsService.ts` | `srs_review_sessions`, `srs_cards`, `srs_reviews` | planSession, answer, undo, completeSession, abandonSession, gradeCard |
| Offline push | `src/services/srs/syncService.ts` | `srs_cards`, `srs_reviews`; the outbox of a device | push |
| Device registry, delta pull | `src/services/srs/syncService.ts`, the sync page | `srs_sync_devices`; the rows and the cursor of a device | registerDevice, requireDevice, revokeDevice, pull, snapshot |
| XP ledger | `src/services/gamification/` | `xp_events` | award, awardSafe, revokeByDedupeKey, awardDailyStreak |
| JLPT tests | `src/services/jlpt/testService.ts`, the exam page | `test_sessions`, `test_answers`, `user_analytics`; the page's answers | startSession, saveAnswer, submitSession |
| Schedulers | `src/services/srs/scheduler.ts`, `strategies/` | the columns of a card that all of them share; the deck's choice | review of SM-2, FSRS-lite, Leitner box and fixed ladder; updateDeck |
| Review session page | `src/app/review/session/[id]/page.tsx` | what the screen shows, the requests under way | load, reveal, answer, undo, exit |
| Daily queue | `dailyQueueService.ts`, the planner in `sessionService.ts`, the pages that plan | a settings row; otherwise derived from cards and log | getDailyQueue, planSession, settings |
| Personalization | `personalizationService.ts` | a settings row | order cards by weakness |
| Publication overlay | `src/services/publication/` | none (pure merge at read time) | overlay published payloads on canonical rows |
| Dictionary ETL | `scripts/ingest-full-jmdict.ts`, `src/etl/dictionary/` | `dictionary_entries`, `knowledge_sources`; the checkpoint file | executeIngestion: full, pilot and resumed runs |
| Canonical knowledge | `scripts/ingest-kanjidic2.ts`, `src/services/knowledge/` | `kanji_entries`, `kanji_radicals`, `kanji_composition` | ensureSeeded, executeProvisioning, executeKanjidicIngestion |
| Derived publications | `scripts/ingest-kanji-jmdict-graph.ts`, `ingest-kanjivg.ts`, `ingest-kanji-decomposition.ts` | the published, staged and previous directory of each artifact | derive, stage, swap, restore |
| Search, reads, AI answers | `src/services/search/`, `dictionary/`, `ai/` | none | ranking, citation checks |
| Client state of dictionary search | `src/lib/dictionary/`, the dictionary page | the URL, the requests in flight, what is shown | submit, cancel, retry, suggest, drop stale answers |
| Identity | `src/lib/auth/` | `users` with their roles | authenticate, resolveApplicationUser |
| Seeding | `srsService.ts`, `testService.ts` | the starter decks and questions | ensureSeeded |

PROJECT.json lists every component, also those left out, with the reason.

**How they interact.** `answer` and `POST /api/srs/review` share `gradeCard`,
which writes the card, logs the review, awards XP and the daily streak; `undo`
writes the card back, revokes the XP by its key and deletes the review. `push`
replays reviews through the same schedulers and writes the same two tables.
`submitSession` awards XP per exam and per question. Each award goes through the
ledger's dedupe key, `<what>:<id>`, which ties the ledger to the row that earned
it. The CMS writes `entity_translations` and its published payloads are overlaid
on the canonical rows that the read routes serve.

**What is hard, and what correctness means.**

- *Editorial workflow.* Editors work on one item at the same time; the service
  checks `expectedVersion` on a row that may change before its UPDATE, which has
  no version in its WHERE clause. Correct: no lost update; item, version and
  audit event stand or fall together; nothing reaches the public without an
  approval by somebody other than its author (or the recorded override),
  whatever returns, rollbacks and republications happened; a verified
  translation row exists exactly when its verification is recorded.
- *Review sessions.* Progress is derived from the log, so the log has to follow
  the queue; undo restores a snapshot. Correct: answers are a prefix of the
  queue; cards reflect the log; undone XP is not standing; drained sessions
  complete.
- *Offline push.* Devices retry what may have been applied. Correct: an event
  counts once; what is acknowledged is applied; nothing applied is taken back;
  a device that retries gets rid of its events.
- *Delta pull.* A pull reads two tables and then takes its cursor, pages are cut,
  reviews are filed under the clock of the device that made them, answers get
  lost, and first contacts of one device overlap. Correct: what was last done
  about a device counts; a device misses only rows that passed behind its cursor
  in one of the ways the protocol has no answer to.
- *Dictionary ETL.* Batches are transactions, the checkpoint is a file written
  after the commit, and runs stop, resume and overlap. Correct: no entry that a
  checkpoint covers is missing; nothing committed is taken back; a run reports
  success only when the whole source is in the table.
- *Canonical knowledge.* Three writers plan on what they read in an earlier
  statement. Correct: rows that were found stay; the rows a row refers to exist;
  what a writer reported is true and stays true.
- *Derived publications.* A swap of directories is two renames. Correct: what is
  published is one whole version, the last one; a stop in the swap leaves a whole
  version on disk.
- *Dictionary page.* Answers arrive late and out of order, among renders, timers
  and aborts. Correct: at rest the page and the popup answer what was asked; no
  view waits for a request that was aborted.
- *Schedulers.* Four algorithms keep their state in the same columns, and a deck
  may change its algorithm or its parameters under its cards. Correct: passing
  answers bring every card past its learning steps, whatever it went through.
- *Review session page.* Answers, undos, the first load, the exit and reloads
  overlap with replies that are late or lost. Correct: cards are graded in the
  order of the queue unless one was left behind, the page never locks, and at rest
  it shows where the session is.
- *Daily queue.* Two clocks, the cutoff of the study day and the server's
  midnight, and numbers that are shown now and used later. Correct: the budget of
  new cards is kept, a session has the size its button said, the balanced
  forecast only defers.
- *First uses.* Requests look whether something is there and insert it later.
  Correct: one user for an identity and one seed, whoever came first; roles and
  answers stay.
- *XP ledger.* A check, a sum and an insert with nothing held in between.
  Correct: one payment per key and learner, no refusal for somebody else's key,
  daily cap.
- *JLPT tests.* Autosaves race the submission, submissions are retried, totals
  are read-modify-write. Correct: results belong to the answers the learner saw,
  totals are sums over completed exams, XP follows the grading.

## 2. Plan

| step | modules | state |
|---|---|---|
| 1 | `CmsWorkflow` (atomic), `CmsTransactions` (statements; implements it) | done |
| 2 | `CmsWorkflowProofs`: types, complete history, approval lineage; `CmsTransactionsProofs`: the refinement, no lost update | done |
| 3 | `ReviewSession`, `ReviewSessionProofs` | done |
| 4 | `DeviceSync`, `DeviceSyncProofs` | done; `OutboxDrains` by TLC only |
| 5 | `XpLedger`, `LearnerDaysProofs` | done |
| 6 | `ExamSession`, `LearnerDaysProofs` | done |
| 7 | `DeviceRegistry`, `DeltaPull`, `DeltaPullProofs` | done |
| 8 | `DictionaryLoad` (abstract), `DictionaryIngestion` (implements it), `ScriptsProofs` | done |
| 9 | `DerivedPublication`, `ScriptsProofs` | done |
| 10 | `KanjiFoundation`, `ScriptsProofs` | done |
| 11 | `DictionarySearch`, `ServicesProofs` | done |
| 12 | `Scheduling`, `ServicesProofs` | done |
| 13 | `StudyPage`, `ServicesProofs` | done |
| 14 | `FirstUse`, `ServicesProofs` | done |
| 15 | `DailyQueue`, `LearnerDaysProofs` | done |
| 16 | `LearnerDays`, `Services`: the components of a run together | done |
| 17 | the publication overlay against a reference definition | open |

Abstract specifications: `CmsWorkflow` for the transactions of the CMS and
`DictionaryLoad` for the ingestion of a dictionary. For the components without
transactions there is no atomic specification they implement; their promises are
stated as invariants with the conditions under which they hold.

## 3. Modules

| module | models | extends |
|---|---|---|
| `CmsWorkflow` | every mutation of `CmsService` as one atomic step | |
| `CmsTransactions` | the statements of each CMS transaction, interleaved | `CmsWorkflow` |
| `CmsWorkflowProofs` | theorems about `CmsWorkflow` | `CmsWorkflow` |
| `CmsTransactionsProofs` | the proof that `CmsTransactions` implements `CmsWorkflow` | `CmsTransactions`, `CmsWorkflowProofs` |
| `ReviewSession` | `SessionService` and `gradeCard`, statement by statement | |
| `ReviewSessionProofs` | theorems about `ReviewSession` | `ReviewSession` |
| `DeviceSync` | `SyncService.push`, statement by statement, and its devices | |
| `DeviceSyncProofs` | theorems about it | `DeviceSync` |
| `XpLedger` | `award` and `revokeByDedupeKey` for one rule with a cap | |
| `ExamSession` | `TestService`'s sessions, the exam page and the network between | |
| `DailyQueue` | the daily queue, the planner, answers and undos of a day | |
| `LearnerDays` | the three together, a scene each | `ExamSession`, `XpLedger`, `DailyQueue` |
| `LearnerDaysProofs` | laws of sums, theorems about the ledger, the exams and the plan of a day, and about the three together | `LearnerDays` |
| `DeviceRegistry` | registration, admission and revocation of devices, statement by statement | |
| `DeltaPull` | pull and snapshot against gradings and pushes, and what a device keeps | `DeviceRegistry` |
| `DeltaPullProofs` | theorems about both | `DeltaPull` |
| `DictionaryLoad` | what a load of a dictionary promises | |
| `DictionaryIngestion` | `executeIngestion`: batches, checkpoints, stops and overlapping runs | |
| `DerivedPublication` | the swap of directories of the three derivation scripts | |
| `KanjiFoundation` | bootstrap, provisioning and KANJIDIC2 ingestion | |
| `ScriptsProofs` | theorems about ingestion, the refinement among them, publication and foundation | the three modules before |
| `DictionarySearch` | the dictionary page: results, suggestions, URL, timers, requests | |
| `Scheduling` | the four schedulers on one card, and changes of its deck | |
| `StudyPage` | the page of a review session, its requests and the session it shows | |
| `FirstUse` | first sign-ins and the seeding of an empty database | |
| `Services` | the components from `DeviceRegistry` to `FirstUse` together, a scene each | their modules |
| `ServicesProofs` | theorems about the last four, and about all of them together | `Services`, `DeltaPullProofs`, `ScriptsProofs` |
| `MC...` | the constants, and where needed the initial states, of the instances TLC checks | the module they name |

Definitions commented "Mutant:" are plausible wrong versions of the definition
that follows them. No specification uses them; PROJECT.json pairs each with the
property that finds it out.

### CmsWorkflow

`items`, `versions`, `audit` and `translations` are the four tables. An item
row keeps the columns that a guard reads: content type, entity, status, version,
payload, author, reviewer. An operation is a record `[kind, actor, payload,
target]`; `RowGuard` collects the permission (`rolePermissions`), the surface
(`Exposed`) and the checks of the method, and `Perform` applies the three writes
that every method ends with: row, snapshot, audit event. Status changes follow
`CmsTransitions` (`stateMachine.ts`), rollback its own rule (`draft`, or
`published` for an archived item). Payloads are model values: the empty one,
and those that are valid proposals. `ServiceSurface` chooses between the HTTP
routes (two content types, no archive or rollback of proposals) and any caller
of the service.

### CmsTransactions

A request slot goes through `Open` (the caller reads a version), `Begin` (the
row is read and checked), `List` (rollback reads the versions in a statement of
its own and so sees later commits), `Translate` (the upsert and its row lock),
`Update` (waits for the row lock, then lands on the newest committed row:
`WHERE id`), `AppendVersion` (the unique index decides), `Commit`. `Abort` at
any stage is a refused check, a conflict, a lost connection or a crash.
Uncommitted writes live in `tx`. `ImplementsWorkflow == Spec`: the committed
tables behave as the atomic workflow, the refinement mapping being the identity
on them.

### ReviewSession

One action per SQL statement. A scheduler is a function of the card's state and
the rating, so a card is the sequence of gradings its columns reflect; a grading
is named by the instant it reads, which is also the order of the reviews. `req`
holds the locals of the handlers in flight: what they read before an await and
use after it. `CheckCursor` reads the cursor, `ReadCard` the card, `UpdateCard`
writes absolute values computed from it, `InsertReview` logs it,
`CompleteDrained` writes the status whatever it has become; `OpenUndo` to
`Reopen` are the statements of undo. An award may do nothing (key taken, cap
reached, failure swallowed by `awardSafe`).

### DeviceSync

Cards are sequences of gradings again. A device grades on its own view and keeps
the events it made (`made`, which only grows); the positions of those that are not
acknowledged are its `outbox`, and it sends all of them, again and again. A batch,
what is new in it and what is left of a card are sets of positions, and the order of
the device is the order of the numbers. The server reads the card rows (`ReadCards`), the client ids it has
(`ReadExisting`), then per card inserts one review per event (`InsertReview`)
and writes the card once (`UpdateCard`). `ReplayFrom` is the conflict rule: the
first snapshot a device sent, if any, wins over the row. A unique violation
fails the push; `Fail` stops it at any stage that `env.failing` names. `Pull`
hands over all cards at once: what a pull can miss is the subject of
`DeltaPull`.

### XpLedger

`FindExisting`, `Score` (sum of the day, clipping by the cap) and `Insert` (the
unique index) are the three statements of `award`. `RevokeByDedupeKey` is one
UPDATE, for one learner or, as undo calls it, for all that have the key. The
rules' scores are inputs (`RawPoints`).

### ExamSession

The page sends each choice as it is made (`Choose`, `mail`), and all of them
again with the submission (`Submit`). `DeliverSave` and `LoseSave` are the
network: any order, or never. The server saves the final answers one by one
(`SaveFinal`), reloads and grades (`Reload`), writes the result (`Complete`),
updates the totals by read (`FindAnalytics`) and write (`WriteAnalytics`: a
collision of two first rows is swallowed), awards (`AwardXp`) and answers
(`Respond`). An answer is right or wrong, a score the number of right ones.
`LoseResponse` lets the page go on while the server still works; the learner may
change answers and submit again.

### DeviceRegistry

`registry` is the table: the rows of a device, each revoked or not. There is no
unique index on the device, so registration looks for a row (`LookForDevice`)
and updates it or inserts one in a later statement (`WriteDevice`); overlapping
first contacts leave several rows. `MayBeAdmitted` is `requireDevice`, which
finds any of them. `lastWord` is what was last done about the device.

### DeltaPull

Rows of the two tables have a version: the instant they were written, or, for a
review, the instant its device claims. `ReadCardPage`, `ReadReviewPage` and
`TakeCursor` are the three statements of a pull, in the order of the code: the
cursor is the time after the reads. `ApplyAnswer` and `LoseAnswer` are the page
on the device. Gradings (`BeginGrading`, `WriteCard`, `LogReview`) and pushed
reviews are what goes on meanwhile. `passed` collects the versions that got behind a
cursor unseen: cut from a page, or written too late.

### DictionaryLoad and DictionaryIngestion

`DictionaryLoad` has a table that only grows by whole batches, and runs that
report success only over the whole source. `DictionaryIngestion` has the file
(`Truncated` while it is written), the batch in memory, the registration of the
source (`RegisterSource`, `OpenSource`), the plan and the commit of a batch
(`PlanBatch`, `CommitBatch`: one transaction; a foreign row stops the run), the
checkpoint after it, and the comparison of a sample at the end. Runs start in
any mode that `validateIngestionOptions` admits, stop anywhere (`StopLoad`), and
several may use the same file. Entries are numbers, valid or not, and the table
of a target is a set of them; `IngestionLoads == DL!Spec` maps the committed
entries to the table of the abstract load.

### DerivedPublication

A directory is the versions of the files in it. The two kinds of script differ
in when they remove the directory moved aside and in what a failure does:
`Restoring` names those that put it back. `StopRun` is the end of the process,
`FailRun` an error the script handles.

### KanjiFoundation

`rows` are the rows of the three kanji tables, each with the rows it refers to
(`Needs`). The bootstrap asks whether its tables are empty, inserts row by row
and counts, in the one transaction its only caller opens
(`seedDictionaryFixturesForDisposableDatabase`); provisioning assesses both datasets and inserts in
one transaction that verifies them; the KANJIDIC2 run checks its baseline, plans
outside the transaction, inserts inside and verifies afterwards. `Strangers`
are rows that hold a character of a dataset under another id.

### DictionarySearch

`Ask` gives a request a number and aborts the one before; an answer counts when
its number is the last. Results follow the URL through an effect
(`RunRefresh`), suggestions follow the input through a timer (`RunSuggest`), and
`requests` holds those that are on their way, answered, failed or timed out in
any order. The handler's and the cleanup's cancellation of one request are one
step. A suggestion refused because its query is too long, the status
`invalid-query`, is an error like others.

### Scheduling

`Sm2`, `FsrsLite`, `Leitner` and `FixedLadder` are the four `review` functions,
`ToStep`, `ToReview` and `Lapse` the outcomes they share. A card has the columns
that decide a later branch: `stepIndex` (a step, a box or a rung, by scheduler),
the box, the learning flag, the phase, whether there are repetitions and whether
FSRS has a stability. A due time is `minutes` or `days`. `GradeCard` is an answer
with any rating, `UpdateDeck` any other scheduler and parameters; it does not
touch the cards. `streak` counts the passing answers in a row.

### StudyPage

`screen` is the React state: the card, whether it is revealed, the summary and
`busy`. A call has a purpose (the first load, an answer, an undo, the exit) and
asks for one thing after another, as the handlers do between their awaits; it
carries what its callback captured (`knew`: was the summary set when undo was
called) and where it is on the server (`stage`). `session.log` is the reviews of
the session in the order of their instants, from which the server derives its
cursor.

`Serve` is one SQL statement of one request. An answer reads the status
(`ReadSession`), compares its card with the cursor (`CheckCursor`), reads the card and
the clock (`StampReview`), inserts the review (`FileReview`) and, at the last card,
completes the session (`WriteStatus`); an undo reads the status, finds the last
review (`FindLast`), deletes it (`DeleteReview`) and opens the session again if it had
read that it was completed. `FailServer` is an error at any of them. `Receive` is the
continuation of a handler, `FailCall` its catch, `LeftBehind` the requests of a page
that was reloaded or gave up, which run on. What happens to the cards is
`ReviewSession`'s.

`doubt` remembers what may have come between the page and the session: requests
that overlapped, a reply or statement that was lost, a summary that an undo left on
the screen because it came after U was pressed (all three until the page is
opened again, or loaded again by an undo with nothing else under way), and, for ever, an answer or an undo that
was left behind.

### FirstUse

`FindUser`, `InsertUser` and `Reread` are the statements of
`resolveApplicationUser`; `CountRows` and `InsertSeed` those of `ensureSeeded` in
the SRS and the test service, which count the first table only. Inserts that
conflict do nothing. `StopRequest` is a crash or an error at any of them.

### DailyQueue

Instants are numbered; a day has `DayLength` of them and begins with midnight,
the study day `Cutoff` later. `Overdue`, `DueToday`, `LaterToday` and
`NewAvailable` are the buckets, `Suggestion` the numbers of the page, `Buttons`
what its buttons ask for. `PlanSession` is the planner, for an up-to-date page
(`StartToday`) and for the other page or an out-of-date one (`StartOther`). Both
count the new cards of a day from the log, the page since the cutoff and the
planner since midnight (`NewSince`), by the repetitions the card had, so that a
card on its learning steps counts again at each answer. `Balanced` is
`applyLoadBalancing`, written with what each day passes on to the next: the loop
moves the surplus of a day to the nearest room after it, so a day passes on what it
and the days before it have above the ceiling. `UndoInSession` and answers outside any session are there because the log is
what the budget is counted from.

### LearnerDays

`ExamSession`, `XpLedger` and `DailyQueue` share no state either; `scene` chooses
the one that runs.

### Services

But for the table of devices, which pulls read, these components share no state, so
one run checks them all:
`scene` chooses one of nine that runs while the others stay in an initial state.
The scene of pulls begins with registered devices, the other scenes with none.
`MCServices` leaves the components that rest one initial state.

### Environments

`ReviewSession`, `DeviceSync` and `ExamSession` have a variable `env`, chosen in
`Init` and never changed, that says what the behaviour has to cope with: how
many requests overlap, whether the server may crash, whether messages arrive
late. The code makes different promises in different environments. A property
names the one it needs (`Alone`, `Undisturbed`, `Orderly`, `~env.faults`), one
run checks all of them, and a reader sees which assumption carries which
promise. Properties without such a condition hold in every environment.

## 4. Runs and bounds

| run | module, cfg | question |
|---|---|---|
| `cms_workflow` | `MCCmsWorkflow`, `CmsWorkflow.cfg` | Do history, approval lineage, canonical link and verified translations survive every order of operations? |
| `cms_transactions` | `MCCmsTransactions`, `CmsTransactions.cfg` | Do interleaved transactions implement the atomic workflow, without lost updates? |
| `cms_requests_end` | `MCCmsTransactions`, `CmsTransactionsLive.cfg` | Does every request end, or can row locks block each other? |
| `cms_rollback_payload` | `MCCmsWorkflow`, `CmsRollbackPayload.cfg` | Is what is published always valid? (violated) |
| `srs_sessions` | `MCReviewSession`, `ReviewSession.cfg` | Do answers follow the queue, undo restore, drained sessions complete, and how far can overlap exceed a queue? |
| `srs_duplicate_answer` | `MCReviewSession`, `SrsDuplicateAnswer.cfg` | Can a duplicated client desync a session? (violated) |
| `sync_push` | `MCDeviceSync`, `DeviceSync.cfg` | Does each event count once, is what is acknowledged applied, do outboxes drain? |
| `sync_partial_push` | `MCDeviceSync`, `SyncPartialPush.cfg` | Is a repeated push a no-op only for what was applied? (violated) |
| `learner_days` | `MCLearnerDays`, `LearnerDays.cfg` | Exams: are results those of the page's answers, totals those of the completed exams, XP that of the grading? Ledger: is each event paid once, nobody refused for another's key, the cap nearly kept? Daily queue: are the budget, the sizes of sessions and the forecast right? |
| `jlpt_answers_locked` | `MCExamSession`, `ExamAnswersLocked.cfg` | Are the answers locked by the submission? (violated) |
| `services` | `MCServices`, `Services.cfg` | One question for each scene, below. |
| `daily_buckets` | `DailyQueue`, `DailyBuckets.cfg` | Is every card that was due before today in a bucket? (violated) |

What the passing runs show, property by property:

- **cms_workflow.** `HistoryComplete`: versions `1..currentVersion` without a
  gap, the newest equal to the row, one audit event each. `ApprovalLineage`:
  an approved, scheduled, published or archived item has an approval by somebody
  other than its author, or the recorded override, of a payload that is valid for
  promotion; since then it was never back
  in draft or review, and its payload changed only by an administrator's
  rollback. `TranslationsVerified` ties rows of `entity_translations` to
  recorded verifications in both directions. `PublishedOverlayExists`: the check
  that `publish` makes still covers the item after archiving and republication.
  That a published proposal is stored, the second half of
  `TranslationsVerified`, is stated for the routes (`~ServiceSurface`) only: it is
  true because they keep proposals away from archive and rollback.
- **cms_transactions.** The refinement, and directly on the statements:
  `NoLostUpdate` (who saw version n replaces version n or nothing),
  `HistoryImmutable`, `OneWriterPastIndex` (losers of a race stop at the unique
  index, before the commit).
- **cms_requests_end.** `RequestsEnd`: two verifications with the same
  translation row and two item rows never wait for each other in a circle.
- **srs_sessions.** `AnswersFollowQueue`: however requests overlap, a session
  logs only cards of its queue, and in the order of the queue if they do not.
  `UndoneXpIsRevoked` for requests that do not overlap, through crashes anywhere; `CardsFollowLog` and
  `ActiveHasWork` for one that is undisturbed, the first within one session (the
  run has one): an undo in an earlier session restores a snapshot from before a
  later session's answers. `OvershootBounded` for everyone.
- **sync_push.** `AppliedAtMostOnce` and `OutboxDrains` in every environment;
  `AckedIsApplied`: whatever is acknowledged is in the log, in every environment,
  and in the state of a card where pushes do not overlap, carry no snapshots and
  lose only their answers; `NothingClobbered` for pushes that do not overlap and
  carry no snapshots.
- **learner_days.** `ServedAsSubmitted`: whoever sees results was graded on the
  answers on the page, and those are stored, although saves were reordered or
  lost and earlier submissions with other answers failed half way (submissions
  one at a time, or no failures). `AnalyticsMatchSessions`: totals equal the sums
  between submissions that do not overlap, and never exceed them for those that
  do.
  `XpFollowsGrading`: XP only for completed exams, everywhere; paid outcomes
  equal stored ones where nothing arrives late and nothing is retried.
  `PaidOnce`: one payment per key, and nobody is called a duplicate for a key of
  somebody else. `CapNearlyHolds`: overlap exceeds the cap by less than one award
  for each other request. `DailyPlanHolds`: while new cards are answered in the
  latest session only, no day sees more of them than its budget, whatever is
  undone, left unfinished or carried over midnight; a session launched from an
  up-to-date page has as many cards as the button said, unless the two clocks
  count different answers; and balancing never plans more cards up to a day than
  are due by then. `LearnerTypeOK` is the type invariant.
- **services.** `LastWordCounts`: after registrations and revocations that
  overlap in any order a device is admitted exactly when it was registered last.
  `OnlyPassedIsMissed`: what a device lacks is newer than its cursor, or passed
  it in a recorded way. `CheckpointCovered`: no checkpoint, not even a truncated
  or another run's, covers an entry that is not in the table; `IngestionLoads`:
  ingestion implements `DictionaryLoad`. `PublicationSurvives`: one whole
  version is published, the last one outside a swap, and scripts that restore
  survive one torn swap. `FoundationHolds`: what was found stays, references
  resolve, reports are true. `SearchIsAnswered`: at rest the page and the popup
  show the answer to what is asked now, and who waits has a request, a timer or
  a render to wait for. `PassesGraduate`: as many passing answers in a row as
  there are steps bring any card into review, from whatever an earlier scheduler
  left in it. `PageFollowsSession`: the page sends one answer or undo at a time, so
  cards are graded in the order of the queue, each once, until one is left behind
  (from then on `srs_duplicate_answer` is what may happen); it is busy exactly while
  it waits for one, whatever gets lost; at rest it is not blank unless a reply was
  lost, and if no requests overlapped since it was loaded it shows the card the
  session is at, and the summary when there is none, unless an undo missed that
  summary. `FirstUseHolds`: requests
  of one identity get one user, seedings that overlap add up to one, and neither
  takes back what an operator or a learner did since. `ServicesTypeOK` is the
  type invariant of all of them.

**Bounds and why they are enough.**

- `cms_workflow`: one item (operations touch one item; the translation row
  shared by two is in `cms_requests_end`), an administrator, whose permissions
  include an editor's, and a reviewer, two interchangeable texts and the empty
  payload, eight versions: create, edit, submit, approve, publish, archive,
  rollback and one more step. `ServiceSurface` is FALSE: the routes.
- `cms_transactions`: two requests suffice for a race at each statement; five
  versions reach approval and publication under it. `cms_requests_end`: two
  items and one translation row, the smallest circle of locks.
- `srs_sessions`: queues of zero, one and two cards, two slots, three gradings:
  answer, undo and answer again, a surplus answer, a grading outside. The bound
  on overlap for any number of requests is a theorem.
- `sync_push`: two devices, two cards, two events, one failure: a batch of two
  cards cut in the middle, two devices on one card, a retry that overlaps.
- `learner_days`, ledger: two learners sharing keys, one event without a key, a cap of 3
  with awards of 2 (one award fits, the second is clipped), two days, three
  events, two slots. Events are dated by the server (`Dated` is FALSE).
- `learner_days`, exams: two exams of one learner with one or two of the level's two
  questions, so that a drill leaves one unasked; two saves in transit, the least
  that can be reordered; no submission once two are in the totals
  (`MaxGraded`), which leaves room for a retry of a counted exam. With failures
  or late answers, one exam: exams share only the totals, and those are
  compared without failures.
- `learner_days`, daily queue: two new cards and a due one, days of two instants
  with the cutoff between them, two midnights, a budget of one new card, sessions
  of at most two cards, two sessions and two answers: a budget used before
  midnight and counted after it, an answer taken back, a session cut at its cap;
  a forecast of three days, the fewest that are balanced.
- `services`: registry with one device (rows of different devices never meet) and
  three registrations, the least in which two overlap and a third finds their
  rows. Pull with two cards and one review, pages of one row so that a page is
  cut, and a clock of two, which puts a write before, between and after the
  reads. Ingestion with two targets and two runs over a source of three entries
  of which the second is invalid, batches of one valid entry, a sample that has
  an invalid one, and a pilot of two entries; one target holds a row of another
  source. Publication with an artifact of each kind, two files and three
  derivations: publish, tear, and derive again. Foundation with a kanji, a
  radical and an edge in each dataset, two upstream characters, one stranger and
  two writers. Search with two words, one filter and four request numbers:
  results and suggestions, each replaced once. Scheduling with decks of one to
  three steps, four boxes and four rungs: an index left by a box or a rung can lie
  past the steps of the next scheduler, and every sequence of answers and changes
  is covered, since the state of a card is finite. The study page with a queue of two,
  a first and a last card, three gradings (both cards, and one again after an undo or
  by a second copy of an answer) and two requests at a time: an undo during the first
  load, an exit during an answer, two copies of one answer; how often requests are
  sent is not bounded, and the theorem is about any number at a time. First uses with two
  identities, two requests, a seed of three rows of which one is counted, and
  three ids. The runs of a load are symmetric, and the requests of the study page.

`CHECK_DEADLOCK` is FALSE where the system may rest: items at their last
version, exams that are over, learners who stop.

## 5. Fairness

Only two runs check liveness, and nothing else assumes fairness.

- `CmsTransactions`, `RequestsEnd`: strong fairness of each request's next
  statement. The service sends it without waiting for anything but the database,
  and PostgreSQL queues waiters for a row lock and grants it in order, so a
  statement that is possible again and again is executed. Weak fairness of
  `Abort` where the request is refused: the error is returned. Opening a request
  and choosing an operation is up to the users.
- `DeviceSync`, `OutboxDrains`: strong fairness of sending (a client with a
  non-empty outbox tries again whenever it can), weak fairness of each request's
  next step (a running handler goes on). Failures are bounded by `MaxFailures`:
  they stop eventually.

## 6. Proofs

| theorem | says | inductive invariant |
|---|---|---|
| `CmsWorkflowProofs!TypeCorrect` | `TypeOK` | `TypeInv` |
| `CmsWorkflowProofs!HistoriesAreComplete` | `HistoryComplete` | `HistoryInv` |
| `CmsWorkflowProofs!ApprovedContentHasLineage` | `ApprovalLineage` | `HistoryInv /\ ApprovalLineage` |
| `CmsWorkflowProofs!InvalidContentNeedsRollback` | approved content is valid unless rolled back from the archive | follows from the two before |
| `CmsWorkflowProofs!OverlaysAreCanonical` | `PublishedOverlayExists` | `HistoryInv /\ PublishedOverlayExists` |
| `CmsWorkflowProofs!VerifiedTranslationsAreRecorded` | `TranslationsVerified` | `HistoryInv` and its three parts |
| `CmsTransactionsProofs!TransactionsImplementWorkflow` | `ImplementsWorkflow` | `TxInv` |
| `CmsTransactionsProofs!OneWriter` | `OneWriterPastIndex` | `TxInv` |
| `CmsTransactionsProofs!NoUpdateIsLost` | `NoLostUpdate` | `TxInv` |
| `CmsTransactionsProofs!HistoriesAreImmutable` | `HistoryImmutable` | `TxInv` |
| `CmsTransactionsProofs!TransactionTypes` | `TxTypeOK` | `TxInv` |
| `CmsTransactionsProofs!NoRequestIsStuck` | chains of waits for locks have at most two links | `TxTypeOK` |
| `ReviewSessionProofs!SessionTypes` | `TypeOK` | `Inv` |
| `ReviewSessionProofs!OvershootIsBounded` | `OvershootBounded` | `Inv` |
| `ReviewSessionProofs!UndoTakesPointsBack` | `UndoneXpIsRevoked` | `XpInv` |
| `ReviewSessionProofs!AnswersAreAPrefix` | `AnswersFollowQueue` | `QueuedInv`, `QueueInv` |
| `ReviewSessionProofs!ActiveSessionsHaveWork` | `ActiveHasWork` | `ProgressInv` |
| `ReviewSessionProofs!CardsAreTheirLog` | `CardsFollowLog` | `StateInv` |
| `DeviceSyncProofs!PushesAreTyped` | `TypeOK` | `TypeOK /\ NothingChosen` |
| `DeviceSyncProofs!EventsCountOnce` | `AppliedAtMostOnce` | these and `OnceInv` |
| `DeviceSyncProofs!PushesAddOnly` | `NothingClobbered` | these and `OrderInv` |
| `DeviceSyncProofs!AckedEventsAreApplied` | `AckedIsApplied` | these, `LoggedInv` and `AckInv` |
| `DeviceSyncProofs!GradingsReachTheLog` | a grading is in its outbox or has exactly one row in the log | `OnceInv`, `LoggedInv`, `SentOnlyIfAcked` |
| `LearnerDaysProofs!LedgerIsTyped` | `LedgerTypeOK` | itself |
| `LearnerDaysProofs!KeysArePaidOnce` | `PaidOnce` | `LedgerTypeOK /\ PaidOnce` |
| `LearnerDaysProofs!CapIsNearlyKept` | `CapNearlyHolds`, where events are dated by the server | `CapInv` |
| `LearnerDaysProofs!ExamsAreTyped` | `TypeOK` of `ExamSession` | `ExamInv` |
| `LearnerDaysProofs!ResultsAreOfTheSheet` | `ServedAsSubmitted` | `ExamInv` |
| `LearnerDaysProofs!ExamXpIsEarned` | `XpFollowsGrading` | `ExamInv` |
| `LearnerDaysProofs!TotalsStandForExams` | `AnalyticsMatchSessions` | `ExamInv` |
| `LearnerDaysProofs!GradedAnswersAreLocked` | answers of a completed exam stay, without failures and late answers | `ExamInv` |
| `LearnerDaysProofs!DaysAreTyped` | `DailyTypeOK` | `BudgetInv` |
| `LearnerDaysProofs!DayPlanHolds` | `DailyPlanHolds`: the budget, launches and balancing | `BudgetInv` |
| `LearnerDaysProofs!LearnersAreTyped` | `LearnerTypeOK` | those of the three |
| `LearnerDaysProofs!LearnersKeepTheirPromises` | the properties of all three, run together | those of the three |
| `DeltaPullProofs!DevicesObeyTheLastWord` | `LastWordCounts` | `RegistryInv` |
| `DeltaPullProofs!PullsMissOnlyWhatPassed` | `OnlyPassedIsMissed` | `PullInv` |
| `ScriptsProofs!CheckpointsAreCovered` | `CheckpointCovered` | `IngestionInv` |
| `ScriptsProofs!IngestionImplementsLoad` | `IngestionLoads` | `IngestionInv` |
| `ScriptsProofs!PublishedVersionsSurvive` | `PublicationSurvives` | `PublicationInv` |
| `ScriptsProofs!KanjiFoundationHolds` | `FoundationHolds` | `FoundationInv` |
| `ServicesProofs!SearchesAreAnswered` | `SearchIsAnswered` | `SearchInv` |
| `ServicesProofs!StreaksGraduate` | `PassesGraduate` | `SchedulingInv` |
| `ServicesProofs!FirstUsesAgree` | `FirstUseHolds` | `FirstUseInv` |
| `ServicesProofs!PageShowsItsSession` | `PageFollowsSession` | `StudyInv` |
| `ServicesProofs!ServicesAreTyped` | `ServicesTypeOK` | those of the components |
| `ServicesProofs!ServicesKeepTheirPromises` | the properties of all nine, run together | those of the components |

They hold for any sets of items, actors, payloads, entities, cards, sessions,
plans, environments, devices, events, users, keys, questions, rows, sources, files
and words, any number of requests, runs and writers (a finite one where they are
counted), and any of the bounds.

**Assumptions.** Each module names what its constants have to satisfy, and TLC
evaluates all of it in the passing runs:

- `ConstantsAssumption`: roles are roles, the empty payload is no proposal,
  canonical pairs are pairs, `None` is none of the others.
- `SessionAssumption`: plans are sequences of cards, slots are finite and at least
  one, environments have their fields.
- `SyncAssumption`: environments have their fields, the bound on failures is a
  number, `None` is no device, card or snapshot.
- `LedgerAssumption`: points and caps are numbers, the rule has a greatest score, events
  without a key are named among the keys, and awards have slots, finitely many and at
  least one.
- `ExamAssumption`: questions, exams and slots are finite, selections are sets of
  questions, environments have their fields, `None` is none of the others and no
  row of totals.
- `DailyAssumption`: the cards are finitely many, a day has a positive length and the
  study day begins within it, targets and bounds are numbers, a session and the
  forecast have room for one, failures name what a scheduler does with a miss.
- `FirstUseAssumption`: there is an identity, the guard counts one of the seeds or
  more, identities are not numbers of seeds.
- In the other modules bounds are natural numbers and page and batch sizes positive
  (`PullAssumption`, `IngestionAssumption`, `PublicationAssumption`,
  `SchedulingAssumption`, `StudyAssumption`), there is a device, a target or a file
  (`RegistryAssumption` and the first two), the text cleared from a search is no
  word (`SearchAssumption`), and the rows of the kanji tables lie to one another as
  `FoundationAssumption` says: they are finitely many, upstream characters and
  strangers are kanji outside the datasets, and upstream characters refer to nothing.

Besides, `CapIsNearlyKept` assumes `~Dated`: an event that carries its own time is
capped against today's sum and counted on its own day, and for those no cap holds
(a hazard in PROJECT.json). The run has `Dated = FALSE` as well.

**CmsWorkflow.** `TypeOK` alone is not inductive: the writes of an operation use
the author, payload and version of the stored row, so `TypeInv` adds that a
stored item has them (`StoredItems`). Ten operations share one shape; the lemma
`NextIsCreateOrPerform` reduces `Next` to "create" and "perform an operation",
and `PerformStep` says what a performed operation writes: version n+1 with the
new snapshot and one event for it. `PerformKeepsHistory` needs no more. For the
lineage a step either starts one, when the operation approves
(`ApproveStartsLineage`: the guard excludes the author), or extends the one
there is (`LineageExtends`: the new version is neither draft nor review, and a
payload that differs comes from a rollback, whose event is in the audit of that
version). Both argue over version numbers, which is why `HistoryComplete`,
events and versions matching one to one, is part of the invariant.

**CmsTransactions.** Rows are read without a lock, so a request may hold an old
row when it writes. `TxInv` says how old: what it read has the version its
caller saw, that version is at most the present one, and if it is the present
one the row read is the row there is (`ReadOK`); the versions a rollback listed
are still stored (`ListOK`); between its UPDATE and its end the item is locked,
so the pending row stays what the UPDATE made of the present row (`RowOK`,
`ItemLocked`). The steps of others keep this because the version of a stored item
only grows (`StoredItemsGrow`, from the atomic steps). `IndexRefusesOldRows` is
the heart: versions are numbered without a gap, so the number after an old one
is taken, and whoever passes the unique index holds the present row
(`IndexOK`). A commit is then `Perform` on that row (`CommitIsPerform`), every
other step of a request leaves the tables alone, and the refinement follows. The
theorems of the workflow hold for the transactions through it.

*Locks.* A verification locks its translation before its item, all others lock an item
only, and who holds an item waits for nothing. Hence a request waits for a lock whose
holder can go on or is refused, or for one that waits for such a holder
(`NoRequestIsStuck`).

**ReviewSession.** `OvershootBounded` bounds the reviews of a session by the
queue and the other requests. It is not inductive: a request that passed the
cursor check inserts its review whatever the log has become meanwhile. `Room`
counts the reviews together with the requests past the check (`InFlight`); the
check itself, made when fewer reviews than cards are there, cannot exceed it
because a request is not in flight twice. `LogInv`, `CarriedInv` and `PlanInv`
say that review ids come from the clock, that a review in flight is new and
belongs to its session, and that sessions without a row have no queue. Most
statements only move a request along or touch one table: the lemmas
`TablesStay`, `MovesKeepTypes` and `MovesKeepInv` treat those alike, and each
remaining statement has a lemma of its own.

A session logs only cards of its queue, because what a request carries was compared
with the queue and queues do not change (`QueuedInv`); this holds under any overlap.

The other properties are about one client, and their invariants say what its
request may rely on while no other runs (`SlotInv`: a request that is not idle is in
a slot in use). Points: an award comes after the insert of its review, a delete after
the revocation (`StandingInv`), and so points never stand for a review that is gone,
wherever the server stops. Order: a grading past the check still finds the session as
it was checked, its review is newer than all others, and an undo works on the last
review of its session (`Informed`), so inserts and deletes are at the end of the log
and keep it a prefix of the queue. Work: an answer that filled the log has not ended
before it completed the session (`Filling`), and an undo that reopens has made room
(`Counted`). Cards: `CardsInv` says that a card is the log of its reviews but for the
one being written or taken back, and that the snapshot in each review is the log of
what came before it. That is why an undo restores what the log says, and why it does
so within one session only: the snapshot of a review knows nothing of later reviews
of its card, and only within a session is the review undone the last one.

**DeviceSync.** *At most once.* A second insert of a client id is stopped by the
index; that the id is not in the state of a card a second time needs more. Every
state, of a card, of a push, of a view of a device or in a snapshot, is `Grounded`:
without repetition, and of events that are in the log (without snapshots, when
states come from the server) or that a device has made (with them). A push has not
yet replayed what it has left (`ReplayInv`): without snapshots because an event that
is not in the log is in no row that was read; with them because replay starts from
what the device saw at the first event, which saw no event from there on (`Saw`).
Snapshots of different devices may lose events, and still count none twice.
*One push at a time.* `CurrentRows`: the rows a push has read are those of the table
for all cards it has yet to reach, and the state it carries has all that its card
reflects. Hence a write adds only. *What is acknowledged.* `NewOrLogged`: an event of
the batch is in the log or still to be replayed, never both, and what is in the log
is applied or in the state of the push that is replaying (`AckInv`). The hypothesis
that only answers get lost is where a stop in the middle of a push would break it,
as the run `sync_partial_push` shows. That what is acknowledged is in the log needs no
hypothesis: each event of a batch is in the log or still ahead of its push
(`Accounted`), and rows of the log stay. With `SentOnlyIfAcked`, a device removes
from its outbox only what was acknowledged, this reaches from the grading on the
device to its one row in the log (`GradingsReachTheLog`).

**XpLedger.** `PaidOnce` is inductive together with the types: whatever a request
found, its insert asks the index. `CapNearlyHolds` is not: awards are scored against
a sum to which others are still to be added. `Room` bounds the sum by the cap and one
greatest award for each slot that is neither about to insert nor the last to have
been scored; a score opens such room, an insert uses its own, a revocation gives
some back. The sum over a set of rows is a fold, which no backend knows; the first
part of `LearnerDaysProofs` derives its laws (a sum unfolds at any member, is
monotone, depends on the summed values only) from the definition, by taking the
smallest set for which a law would fail.

**ExamSession.** `ExamInv` has six parts besides the types. `AskedInv`: only asked
questions have answers on the page, in the table or in transit. `SlotInv`: where one
submission runs at a time, or none fails, no two of one exam overlap and none runs
after its page was left. `OnceInv`: without failures an exam is completed once.
`SheetInv`: what a submission has saved so far, graded, or is about to show is what
the sheet says, and nothing is in transit once it runs, which gives
`ServedAsSubmitted`. `XpFollowsGrading` follows because a completed exam's stored
answers stay. `TotalsInv`: the totals are those of the exams whose submission is done
with them (`Tallied`), exactly so when submissions are alone, and at most so when a
write may rest on an older read.

**DailyQueue.** The budget of new cards is an invariant only with what the latest
session was promised: a planner subtracts the answers since midnight, and the cards
it then adds are answered later, some after midnight and some never. `PromiseInv`
says that the first answers of earlier sessions on a date, of today or later, and all
new cards of the latest session fit in the budget of that date together; the planner
establishes it from `SpentInv`, an answer moves a card within it, an undo takes one
away, and a new date starts with no answers of earlier sessions. `FirstInv` (no card
has two first answers) is what lets cards be counted for answers. `LaunchMatchesCount`
is about the step that plans: both counts of new cards differ only in where the day
begins, and cutting a list at the most a session may have commutes with the sums
of the buttons. `BalancingOnlyDefers` holds of every forecast: with `Surplus` for what a
day passes on, the balanced sum up to a day and the surplus of that day make the sum of
the forecast (`PlannedAndPassed`), so it is never ahead, and the surplus is positive
only when the ceiling is the mean rounded up.

**DeviceRegistry and DeltaPull.** `LastWordCounts` is inductive together with the
types, which say that a row a registration found is still there: revocations
keep the rows, so its write makes one of them good whatever else happened. For
pulls, `OnlyPassedIsMissed` has to be said of the pulls under way as well: what a
request has read (`Knows`), or noted as skipped, covers every version of the
tables it has read, so taking the time as the cursor loses no more than that
(`MissedInv`).

**DictionaryIngestion.** `IngestionInv` has a part per run (`LoadInv`: what the
run has committed and what its batch holds, between the entry it began at and
the one it reads) and one for the files (`CheckpointInv`: all valid entries up
to the checkpoint are in the table). `ResumableAnywhere` is the mutant that
breaks the link: a checkpoint of another target. The batches are intervals of
the valid entries; that an interval has a least entry comes from the
well-foundedness of the natural numbers. A commit is the abstract load's commit
of the same entries, success its success because a sample that agrees with an
unbounded run over the whole source leaves no gap.

**DerivedPublication.** `StagedWhole`: past the writes the staged directory is
the version of the run. `Kept`: during the swap the last version is in the
previous directory. `Recoverable`: one torn swap leaves a whole directory
somewhere, the next run's own staged one taking over when it is whole.

**KanjiFoundation.** `WriterInv` says of each writer that what it planned on is
still there, because rows are never removed, and that a run which ingests adds
either all upstream characters or none because they are there. The script
compares counts; the invariant needs none.

**DictionarySearch.** A view waits for the request with the last number, and
`PageInv` and `PopupInv` say of that request that it was never aborted and is
about what is shown now, unless a refresh or a timer is due that will replace
it. What is shown was then answered by it.

**Scheduling.** `PassesGraduate` has a clause for streaks that are long enough; the
invariant has one for every length: after n passes in a row a card is in review, or
at the n-th step of its deck or a later one (`GoesOn`). Each scheduler's lemma shows
that one more pass goes one further whatever columns it was handed, and a deck that
changes starts the count anew.

**FirstUse.** `AccountsAgree`: whoever was given a user was given the one that is
there, because a request that lost the race reads again only when a row is there.
`SeedsAgree`: a seeding has inserted, or found, all rows before the one it is at, so
a finished one leaves all.

**StudyPage.** `OneDecides`: one answer or undo of the page at a time, and it is busy
exactly while there is one. `InOrder`: until an answer or undo is left behind, that
one is the only call that writes reviews, so what its statements read of the reviews
is still so when it writes (`Staged` says at which stage a call knows what); `Filed`
then appends and `Without` removes the last. `NeverBlank`: without a loss the page
shows something or waits for a call that will bring it. `Follows`: if nothing
overlapped either, there is at most one call, and `Fits` says for each stage of it
what the session is, what the page shows meanwhile and what the reply will bring.

**CmsWorkflow, translations.** A step keeps all verifications on record and adds one
exactly when it verifies a proposal, in the step that writes the row
(`PerformVerifies`). That a published proposal is in the table with its very text
needs the routes: on them a published proposal is changed by nothing.

**Composition.** A step of `LearnerDays` or `Services` is a step of one component or
leaves its variables alone, so a behaviour of the composition is one of each component
(`ScenesOfLearners`, `ScenesOfEach`) and all their theorems hold in it. One case is
different: pulls and the registry share the table of devices, and the scene of pulls
begins with devices registered. There both invariants are proved together
(`DevicesTogether`).

**Only model-checked.** Liveness under fairness (`RequestsEnd`, `OutboxDrains`), which
TLAPS does not support; `NoRequestIsStuck` and `GradingsReachTheLog` are their safety
sides. Operators that take an
operator (`SelectSeq`, induction theorems with a predicate) cannot be reasoned about;
where the models need such a thing they use sets of positions, and inductions take the
smallest counterexample.

## 7. What the runs found

The five violation runs are disagreements between the code and what the
repository says about it:

1. **A rollback publishes an empty payload** (`cms_rollback_payload`). A draft
   created with `{}`, filled in, approved, published and archived can be rolled
   back to version 1: `rollback` sets `published` without the promotion checks.
   `src/services/cms/validation.ts` says invalid or incomplete content can never
   advance toward publication.
2. **A duplicated answer is graded twice** (`srs_duplicate_answer`). Both copies
   read the same cursor before either inserts its review. The answer route says
   a duplicated client cannot desync the session.
3. **A repeated push loses a grading** (`sync_partial_push`). A push that stops
   between the inserted review and the card is acknowledged on retry: the event
   is in the log, and the card never moves. The push route says a retry is a
   no-op for already-applied events.
4. **Answers change after the submission** (`jlpt_answers_locked`). `saveAnswer`
   does not look at the session, and the results are computed from the stored
   answers again. The dialog says they will be locked.
5. **A learning card is in no bucket** (`daily_buckets`). Cards on their learning
   steps are left out of overdue and due today, and later today takes only those
   whose step is still ahead, so a card whose step has passed is counted nowhere,
   although a session would serve it. The comment says that laterToday handles
   them.

Theorems say how far the broken promises hold. Content that is approved is valid
unless it was rolled back from the archive (`InvalidContentNeedsRollback`). A duplicated
answer adds at most one review for each other request, and only of cards in the
queue (`OvershootIsBounded`, `AnswersAreAPrefix`). What a push acknowledges is in the log
even where its card never moves (`AckedEventsAreApplied`). The answers of a completed
exam stay where nothing fails and no answer comes after the submission
(`GradedAnswersAreLocked`).

Promises that hold under a condition only are in PROJECT.json's hazards with the
condition: undo against an answer in flight, overlapping gradings of one card,
snapshots from two devices, overlapping submissions, events dated by the
client.

What else the models show about the code, where no document says otherwise:

- A delta pull never delivers rows that were cut from its page, written between
  its reads and its cursor, or reviews pushed later than the cursor with an
  older `reviewedAt`; only a snapshot does (`passed` in `DeltaPull`).
- A device that registers again is no longer revoked (`WriteDevice`).
- The decomposition script removes the directory an earlier run moved aside
  before it derives anything, so a stop in the swap followed by another stop
  leaves no published version (`PublicationSurvives` promises it for the
  restoring scripts only).
- A bounded pilot run on an empty table ends in the comparison of its sample,
  which asks for entries beyond the pilot's (`CompareSample`).
- Provisioning one dataset into an empty database rolls back, because the
  verification in its transaction asks for both (`Provision`).
- The U key undoes while the page still loads, so the older reply may be shown
  last; and when the session was complete and the summary is still on its way, the
  undo's callback does not know of it (`page.tsx:204`): the page stays on the
  summary of a session that is open again, until U is pressed once more or the page
  is loaded (`"kept"` in `StudyPage`).
- After an answer whose reply was lost the page keeps a card that the server has
  passed, or is about to pass: then the second click is checked against the old
  cursor and the card is graded twice (`"orphan"`; `srs_duplicate_answer`).
- A push acknowledges with success, and drops, events of a card the server does not
  know (`syncService.ts:324-340`) or with a rating that does not exist (`:291`).
- A seeding that stops after its first deck, or its first question, is never
  completed (`interrupted` in `FirstUse`).
- The budget of new cards is read when a session is planned: two sessions planned
  before either is studied get it twice (`loose` in `DailyQueue`). It counts every
  answer to a card without repetitions, so a new card that fails uses it again.
- Hard counts as a failure in SM-2 and, after first contact, in FSRS-lite before
  their branches for Hard are reached. A deck that changes to FSRS-lite treats a
  card that SM-2 has matured as new and may send it back to a learning step. On
  first contact in FSRS-lite Hard goes to review where Good goes to a step.

## 8. What is not covered

- **Planned**: the publication overlay as an algorithm.
- **Abstracted**: the intervals, easiness and difficulty a scheduler computes
  (`Scheduling` has its steps and phases), what a rule scores, titles, notes,
  timestamps other than the order they give, section scores and recommendations.
- **Left out**: rendering and presentation helpers; dictionary, kanji and
  grammar reads and the static mind tree, which change no state; the ETL
  parsers, batch programs over files; the language model behind its provider
  interface; authentication against the external provider.
- Reviews pushed into a session (`sessionId` on a pushed event) and sessions
  graded by several devices at once: `ReviewSession` and `DeviceSync` are not
  composed.
- **Of the modelled components**: pulls that ask for no reviews; the verify,
  dry-run and preflight modes of the scripts, which write nothing; the kana
  tables; `runKanjiETLPipeline`, which only tests call; rows of a dataset that
  keep their id and differ in a field (`Strangers` cover those with another id);
  the three statements that count the baseline are one step; pushed events of
  unknown cards or with a rating that does not exist.
