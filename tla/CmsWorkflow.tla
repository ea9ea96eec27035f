------------------------------ MODULE CmsWorkflow ------------------------------
(***************************************************************************)
(* The editorial workflow of services/cms: what each operation of          *)
(* CmsService does to the content item, its version history, its audit     *)
(* trail and the verified translations, with every operation one atomic    *)
(* step.  This is the abstract specification; CmsTransactions gives the    *)
(* statements of each database transaction as separate steps and is        *)
(* checked to implement this one.                                          *)
(*                                                                         *)
(* Left out: titles, notes, summaries and timestamps.  No guard reads      *)
(* scheduledAt, publishedAt or archivedAt.                                 *)
(***************************************************************************)
EXTENDS Naturals

CONSTANTS
    Items,          \* ids generateId("item") can hand out
    Actors,         \* authenticated users
    Role,           \* their CMS roles: [Actors -> CmsRoles]
    ContentTypes,   \* the content types in use, a subset of AllContentTypes
    Entities,       \* ids of canonical entities
    Canonical,      \* <<content type, entity id>> pairs the canonical tables hold
    Payloads,       \* staged payloads
    EmptyPayload,   \* the payload {}
    Proposals,      \* payloads that are valid translation proposals
    ProposalType,   \* a proposal's own entityType: [Proposals -> AllContentTypes]
    ServiceSurface, \* TRUE: any caller of CmsService; FALSE: only the HTTP routes
    MaxVersion,     \* bound on the versions of one item
    None            \* null

AllContentTypes == {"dictionary", "kanji", "radical", "grammar", "sentence",
                    "jlpt", "article", "learning_resource", "translation"}

CmsRoles == {"admin", "editor", "reviewer", "learner"}

Statuses == {"draft", "review", "approved", "scheduled", "published", "archived"}

\* Every operation but createDraft, by the audit action it records; the admin
\* override records "approve" with adminOverride set.
Kinds == {"edit", "submit_review", "request_changes", "approve",
          "approve_override", "verify_translation", "schedule", "publish",
          "archive", "rollback"}

ASSUME ConstantsAssumption ==
    /\ Role \in [Actors -> CmsRoles]
    /\ ContentTypes \subseteq AllContentTypes
    /\ EmptyPayload \in Payloads
    /\ Proposals \subseteq Payloads \ {EmptyPayload}
    /\ Canonical \subseteq AllContentTypes \X Entities
    /\ ProposalType \in [Proposals -> AllContentTypes]
    /\ MaxVersion \in Nat
    /\ None \notin Actors \cup Payloads \cup Entities \cup AllContentTypes

VARIABLES
    items,          \* cms_content_items, by id; status "absent" when there is no row
    versions,       \* cms_content_versions: for each item, version number -> snapshot
    audit,          \* cms_audit_log: for each item, its events
    translations    \* verified rows of entity_translations: <<entity id, payload>>

vars == <<items, versions, audit, translations>>

Row == [contentType : ContentTypes \cup {None}, entityId : Entities \cup {None},
        status : Statuses \cup {"absent"}, currentVersion : Nat,
        stagedPayload : Payloads \cup {None}, authorId : Actors \cup {None},
        reviewerId : Actors \cup {None}]

Snapshot == [snapshotPayload : Payloads, statusAtSnapshot : Statuses]

AuditEvent == [action : Kinds \cup {"create_draft"}, actorId : Actors,
               versionNumber : Nat, adminOverride : BOOLEAN]

Op == [kind : Kinds, actor : Actors, payload : Payloads, target : Nat]

(***************************************************************************)
(* Authorization and validation.                                           *)
(***************************************************************************)
RolePermissions ==
    [learner  |-> {},
     editor   |-> {"cms.read", "cms.create", "cms.edit", "cms.submit_review"},
     reviewer |-> {"cms.read", "cms.approve", "cms.verify_translation"},
     admin    |-> {"cms.read", "cms.create", "cms.edit", "cms.submit_review",
                   "cms.approve", "cms.schedule", "cms.publish", "cms.archive",
                   "cms.rollback", "cms.verify_translation"}]

Permission ==
    [edit |-> "cms.edit", submit_review |-> "cms.submit_review",
     request_changes |-> "cms.approve", approve |-> "cms.approve",
     approve_override |-> "cms.approve",
     verify_translation |-> "cms.verify_translation",
     schedule |-> "cms.schedule", publish |-> "cms.publish",
     archive |-> "cms.archive", rollback |-> "cms.rollback"]

RequirePermission(actor, permission) == permission \in RolePermissions[Role[actor]]

CmsTransitions ==
    {<<"draft", "review">>, <<"review", "draft">>, <<"review", "approved">>,
     <<"approved", "scheduled">>, <<"approved", "published">>,
     <<"scheduled", "published">>, <<"published", "archived">>,
     <<"archived", "published">>}

CanTransition(from, to) == <<from, to>> \in CmsTransitions

RollbackTargetStatus(from) == IF from = "archived" THEN "published" ELSE "draft"

\* The HTTP routes serve dictionary items and translation proposals only, and
\* give proposals no archive, rollback, schedule or publish.
TranslationRoutes == {"edit", "submit_review", "request_changes", "approve",
                      "approve_override", "verify_translation"}

DictionaryRoutes == Kinds \ {"verify_translation"}

\* Mutant: the routes do not check the item's content type.
ExposedToAll(contentType) == Kinds

Exposed(contentType) ==
    CASE ServiceSurface -> Kinds
      [] ~ServiceSurface /\ contentType = "dictionary" -> DictionaryRoutes
      [] ~ServiceSurface /\ contentType = "translation" -> TranslationRoutes
      [] OTHER -> {}

ValidPayload(contentType, payload) ==
    /\ payload # EmptyPayload
    /\ contentType = "translation" => payload \in Proposals

\* validateStoredItemForPromotion
ValidForPromotion(row) ==
    /\ row.contentType = "translation" => row.entityId # None
    /\ ValidPayload(row.contentType, row.stagedPayload)

ValidEntity(contentType, entityId) ==
    /\ contentType \in {"article", "learning_resource"} => entityId = None
    /\ contentType = "translation" => entityId # None

(***************************************************************************)
(* The guard of each operation on the row its transaction has read, after  *)
(* the permission and the expectedVersion check.                           *)
(***************************************************************************)
UpdateDraftGuard(row) == row.status = "draft"

SubmitGuard(row) == CanTransition(row.status, "review") /\ ValidForPromotion(row)

RequestChangesGuard(row) == CanTransition(row.status, "draft")

\* Mutant: authors may approve their own work.
ApproveGuardAnyone(actor, row) ==
    CanTransition(row.status, "approved") /\ ValidForPromotion(row)

ApproveGuard(actor, row) ==
    /\ CanTransition(row.status, "approved")
    /\ row.authorId # actor
    /\ ValidForPromotion(row)

ApproveOverrideGuard(actor, row) ==
    /\ Role[actor] = "admin"
    /\ CanTransition(row.status, "approved")
    /\ ValidForPromotion(row)

\* A proposal that is already published is returned as it is: no step.
VerifyTranslationGuard(row) ==
    /\ row.contentType = "translation"
    /\ CanTransition(row.status, "published")
    /\ row.stagedPayload \in Proposals
    /\ <<ProposalType[row.stagedPayload], row.entityId>> \in Canonical

ScheduleGuard(row) ==
    /\ row.contentType # "translation"
    /\ CanTransition(row.status, "scheduled")
    /\ ValidForPromotion(row)

\* Mutant: the canonical entity is not looked up.
PublishGuardUnlinked(row) ==
    /\ row.contentType # "translation"
    /\ CanTransition(row.status, "published")
    /\ ValidForPromotion(row)
    /\ row.reviewerId # None

PublishGuard(row) ==
    /\ row.contentType # "translation"
    /\ CanTransition(row.status, "published")
    /\ ValidForPromotion(row)
    /\ row.reviewerId # None
    /\ row.entityId # None => <<row.contentType, row.entityId>> \in Canonical

ArchiveGuard(row) == CanTransition(row.status, "archived")

RollbackGuard(op, row) == op.target >= 1 /\ op.target # row.currentVersion

RowGuard(op, row) ==
    /\ row.status # "absent"
    /\ op.kind \in Exposed(row.contentType)
    /\ RequirePermission(op.actor, Permission[op.kind])
    /\ \/ op.kind = "edit" /\ UpdateDraftGuard(row)
       \/ op.kind = "submit_review" /\ SubmitGuard(row)
       \/ op.kind = "request_changes" /\ RequestChangesGuard(row)
       \/ op.kind = "approve" /\ ApproveGuard(op.actor, row)
       \/ op.kind = "approve_override" /\ ApproveOverrideGuard(op.actor, row)
       \/ op.kind = "verify_translation" /\ VerifyTranslationGuard(row)
       \/ op.kind = "schedule" /\ ScheduleGuard(row)
       \/ op.kind = "publish" /\ PublishGuard(row)
       \/ op.kind = "archive" /\ ArchiveGuard(row)
       \/ op.kind = "rollback" /\ RollbackGuard(op, row)

\* Rollback also needs the target version to exist.
TargetGuard(op, history) == op.kind = "rollback" => op.target \in DOMAIN history

(***************************************************************************)
(* What each operation writes.  `read` is the row the operation read and   *)
(* `history` the versions it listed; `row` is the row its UPDATE lands on. *)
(***************************************************************************)
ToStatus(op, from) ==
    CASE op.kind \in {"edit", "request_changes"} -> "draft"
      [] op.kind = "submit_review" -> "review"
      [] op.kind \in {"approve", "approve_override"} -> "approved"
      [] op.kind = "schedule" -> "scheduled"
      [] op.kind \in {"publish", "verify_translation"} -> "published"
      [] op.kind = "archive" -> "archived"
      [] op.kind = "rollback" -> RollbackTargetStatus(from)

\* Mutant: rollback restores the version record instead of its payload.
NextPayloadWhole(op, current, history) ==
    CASE op.kind = "edit" -> op.payload
      [] op.kind = "rollback" -> history[op.target]
      [] OTHER -> current

\* Edit replaces the payload, rollback restores the target's, the rest keep it.
NextPayload(op, current, history) ==
    CASE op.kind = "edit" -> op.payload
      [] op.kind = "rollback" -> history[op.target].snapshotPayload
      [] OTHER -> current

\* A review decision records its reviewer; a rollback to draft clears it.
NextReviewer(op, from, current) ==
    CASE op.kind \in {"request_changes", "approve", "approve_override"} -> op.actor
      [] op.kind = "rollback" /\ RollbackTargetStatus(from) = "draft" -> None
      [] OTHER -> current

UpdatedRow(op, read, history, row) ==
    [row EXCEPT !.status = ToStatus(op, read.status),
                !.currentVersion = read.currentVersion + 1,
                !.stagedPayload = NextPayload(op, @, history),
                !.reviewerId = NextReviewer(op, read.status, @)]

\* Mutant: every operation snapshots the payload it read, as appendVersion does.
NewSnapshotOfRead(op, read, history) ==
    [snapshotPayload |-> read.stagedPayload,
     statusAtSnapshot |-> ToStatus(op, read.status)]

NewSnapshot(op, read, history) ==
    [snapshotPayload |-> NextPayload(op, read.stagedPayload, history),
     statusAtSnapshot |-> ToStatus(op, read.status)]

NewAuditEvent(op, read) ==
    [action |-> IF op.kind = "approve_override" THEN "approve" ELSE op.kind,
     actorId |-> op.actor,
     versionNumber |-> read.currentVersion + 1,
     adminOverride |-> op.kind = "approve_override"]

\* Mutant: verification publishes the item without writing the translation.
NewTranslationsLost(op, read) == {}

\* upsertVerifiedTranslation: one row per (entity, text), whoever wrote it first.
NewTranslations(op, read) ==
    IF op.kind = "verify_translation"
    THEN {<<read.entityId, read.stagedPayload>>}
    ELSE {}

AddVersion(history, number, snapshot) ==
    [n \in DOMAIN history \cup {number} |->
        IF n = number THEN snapshot ELSE history[n]]

(***************************************************************************)
(* The operations.                                                         *)
(***************************************************************************)
AbsentRow ==
    [contentType |-> None, entityId |-> None, status |-> "absent",
     currentVersion |-> 0, stagedPayload |-> None, authorId |-> None,
     reviewerId |-> None]

NewRow(actor, contentType, entityId, payload) ==
    [contentType |-> contentType, entityId |-> entityId, status |-> "draft",
     currentVersion |-> 1, stagedPayload |-> payload, authorId |-> actor,
     reviewerId |-> None]

CreateDraft(i, actor, contentType, entityId, payload) ==
    /\ RequirePermission(actor, "cms.create")
    /\ Exposed(contentType) # {}
    /\ ValidEntity(contentType, entityId)
    /\ contentType = "translation" => payload \in Proposals
    /\ MaxVersion >= 1
    /\ items[i].status = "absent"
    /\ items' = [items EXCEPT ![i] = NewRow(actor, contentType, entityId, payload)]
    /\ versions' = [versions EXCEPT ![i] =
            AddVersion(@, 1, [snapshotPayload |-> payload, statusAtSnapshot |-> "draft"])]
    /\ audit' = [audit EXCEPT ![i] = @ \cup
            {[action |-> "create_draft", actorId |-> actor,
              versionNumber |-> 1, adminOverride |-> FALSE]}]
    /\ UNCHANGED translations

Perform(i, op) ==
    /\ items[i].currentVersion < MaxVersion
    /\ RowGuard(op, items[i])
    /\ TargetGuard(op, versions[i])
    /\ items' = [items EXCEPT ![i] = UpdatedRow(op, items[i], versions[i], items[i])]
    /\ versions' = [versions EXCEPT ![i] =
            AddVersion(@, items[i].currentVersion + 1,
                       NewSnapshot(op, items[i], versions[i]))]
    /\ audit' = [audit EXCEPT ![i] = @ \cup {NewAuditEvent(op, items[i])}]
    /\ translations' = translations \cup NewTranslations(op, items[i])

\* A request with no payload and no target version.
Plain(kind, actor) ==
    [kind |-> kind, actor |-> actor, payload |-> EmptyPayload, target |-> 0]

UpdateDraft(i, a, p) ==
    Perform(i, [kind |-> "edit", actor |-> a, payload |-> p, target |-> 0])
SubmitForReview(i, a) == Perform(i, Plain("submit_review", a))
RequestChanges(i, a) == Perform(i, Plain("request_changes", a))
Approve(i, a) == Perform(i, Plain("approve", a))
ApproveWithAdminOverride(i, a) == Perform(i, Plain("approve_override", a))
VerifyTranslationProposal(i, a) == Perform(i, Plain("verify_translation", a))
Schedule(i, a) == Perform(i, Plain("schedule", a))
Publish(i, a) == Perform(i, Plain("publish", a))
Archive(i, a) == Perform(i, Plain("archive", a))
Rollback(i, a, n) ==
    Perform(i, [kind |-> "rollback", actor |-> a, payload |-> EmptyPayload, target |-> n])

Init ==
    /\ items = [i \in Items |-> AbsentRow]
    /\ versions = [i \in Items |-> [n \in {} |-> None]]
    /\ audit = [i \in Items |-> {}]
    /\ translations = {}

Next ==
    \E i \in Items, a \in Actors :
        \/ \E t \in ContentTypes, e \in Entities \cup {None}, p \in Payloads :
               CreateDraft(i, a, t, e, p)
        \/ \E p \in Payloads : UpdateDraft(i, a, p)
        \/ SubmitForReview(i, a)
        \/ RequestChanges(i, a)
        \/ Approve(i, a)
        \/ ApproveWithAdminOverride(i, a)
        \/ VerifyTranslationProposal(i, a)
        \/ Schedule(i, a)
        \/ Publish(i, a)
        \/ Archive(i, a)
        \/ \E n \in 1..MaxVersion : Rollback(i, a, n)

Spec == Init /\ [][Next]_vars

(***************************************************************************)
(* Properties.                                                             *)
(***************************************************************************)

\* Every table holds rows of its declared shape, whatever order the operations run in.
TypeOK ==
    /\ items \in [Items -> Row]
    /\ DOMAIN versions = Items
    /\ \A i \in Items : /\ DOMAIN versions[i] \subseteq Nat
                       /\ versions[i] \in [DOMAIN versions[i] -> Snapshot]
    /\ audit \in [Items -> SUBSET AuditEvent]
    /\ translations \subseteq Entities \X Payloads

NumberedWithoutGap(i) == DOMAIN versions[i] = 1..items[i].currentVersion

NewestSnapshotIsStored(i) ==
    items[i].status # "absent" =>
        versions[i][items[i].currentVersion] =
            [snapshotPayload |-> items[i].stagedPayload,
             statusAtSnapshot |-> items[i].status]

OneEventPerVersion(i) ==
    /\ \A e \in audit[i] : e.versionNumber \in DOMAIN versions[i]
    /\ \A n \in DOMAIN versions[i] : \E e \in audit[i] : e.versionNumber = n
    /\ \A e, f \in audit[i] : e.versionNumber = f.versionNumber => e = f

\* The history of an item is complete: its versions are numbered 1 to
\* currentVersion without a gap, the newest snapshot is the stored payload and
\* status, and every version has exactly one audit event (the three writes of
\* each CmsService mutation stay together).
HistoryComplete ==
    \A i \in Items : /\ NumberedWithoutGap(i)
                     /\ NewestSnapshotIsStored(i)
                     /\ OneEventPerVersion(i)

\* `e` approved the item, by someone other than its author or by the admin
\* override, what was approved was valid, the item has not returned to draft or
\* review since, and what was approved is unchanged unless an administrator
\* rolled back later.
ApprovedBy(i, e) ==
    /\ e.action = "approve"
    /\ e.actorId # items[i].authorId \/ e.adminOverride
    /\ items[i].reviewerId = e.actorId
    /\ ValidPayload(items[i].contentType, versions[i][e.versionNumber].snapshotPayload)
    /\ \A n \in e.versionNumber..items[i].currentVersion :
          /\ versions[i][n].statusAtSnapshot \notin {"draft", "review"}
          /\ \/ versions[i][n].snapshotPayload =
                   versions[i][e.versionNumber].snapshotPayload
             \/ \E r \in audit[i] : r.action = "rollback" /\ r.versionNumber \in e.versionNumber..n

\* Nothing is approved, scheduled, published or archived without an unbroken
\* lineage back to an approval (the author may not approve, cmsService.ts:431;
\* publication must follow the approval path, stateMachine.ts:16-19; a
\* republication keeps its approval lineage, cmsService.ts:871).
ApprovalLineage ==
    \A i \in Items :
        items[i].status \in {"approved", "scheduled", "published", "archived"} =>
            \E e \in audit[i] : ApprovedBy(i, e)

\* A verified translation row and the record of its verification exist
\* together: each row was written by a verification of exactly that payload,
\* and no verification is recorded without its row.  While only the HTTP routes
\* are used, a published proposal is in entity_translations with the very text on
\* the item (cmsService.ts:529-537).
TranslationsVerified ==
    LET VerifiedAt(i, n) ==
            \E e \in audit[i] : e.action = "verify_translation" /\ e.versionNumber = n
    IN  /\ \A t \in translations :
              \E i \in Items : \E n \in DOMAIN versions[i] :
                  /\ VerifiedAt(i, n)
                  /\ t = <<items[i].entityId, versions[i][n].snapshotPayload>>
        /\ \A i \in Items : \A n \in DOMAIN versions[i] :
              VerifiedAt(i, n) =>
                  <<items[i].entityId, versions[i][n].snapshotPayload>> \in translations
        /\ \A i \in Items :
              ~ServiceSurface /\ items[i].contentType = "translation"
                  /\ items[i].status = "published" =>
                      <<items[i].entityId, items[i].stagedPayload>> \in translations

\* An item that is public overlays a canonical entity that exists: the check
\* of publish() still covers the item after archiving and republication.
PublishedOverlayExists ==
    \A i \in Items :
        (/\ items[i].status \in {"published", "archived"}
         /\ items[i].entityId # None
         /\ items[i].contentType # "translation")
            => <<items[i].contentType, items[i].entityId>> \in Canonical

\* Claimed at validation.ts:286-291: "invalid or incomplete content can never
\* advance toward publication".
PublishedPayloadIsValid ==
    \A i \in Items :
        items[i].status = "published" =>
            ValidPayload(items[i].contentType, items[i].stagedPayload)
================================================================================
