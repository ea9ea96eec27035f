--------------------------- MODULE CmsWorkflowProofs ---------------------------
(***************************************************************************)
(* Proofs about CmsWorkflow for every set of items, actors, payloads and   *)
(* entities and every bound on the versions.                               *)
(***************************************************************************)
EXTENDS CmsWorkflow, TLAPS

\* What type correctness rests on: a stored item has an author, a type, a
\* payload and at least one version; an absent one has no version.
StoredItems ==
    \A i \in Items :
        IF items[i].status = "absent"
        THEN items[i].currentVersion = 0
        ELSE /\ items[i].contentType \in ContentTypes
             /\ items[i].stagedPayload \in Payloads
             /\ items[i].authorId \in Actors
             /\ items[i].currentVersion \in Nat \ {0}

TypeInv == TypeOK /\ StoredItems

--------------------------------------------------------------------------------
(* What the helpers return.                                                *)

LEMMA ToStatusType ==
    ASSUME NEW op \in Op, NEW from
    PROVE  ToStatus(op, from) \in Statuses
BY DEF Op, Kinds, ToStatus, Statuses, RollbackTargetStatus

LEMMA NextPayloadType ==
    ASSUME NEW op \in Op, NEW current \in Payloads, NEW S, NEW history \in [S -> Snapshot],
           op.kind = "rollback" => op.target \in S
    PROVE  NextPayload(op, current, history) \in Payloads
BY DEF Op, Kinds, NextPayload, Snapshot

LEMMA NextReviewerType ==
    ASSUME NEW op \in Op, NEW from, NEW current \in Actors \cup {None}
    PROVE  NextReviewer(op, from, current) \in Actors \cup {None}
BY DEF Op, Kinds, NextReviewer

LEMMA UpdatedRowType ==
    ASSUME NEW row \in Row, NEW s \in Statuses, NEW n \in Nat, NEW p \in Payloads,
           NEW r \in Actors \cup {None}
    PROVE  [row EXCEPT !.status = s, !.currentVersion = n, !.stagedPayload = p,
                       !.reviewerId = r] \in Row
BY DEF Row

LEMMA NewAuditEventType ==
    ASSUME NEW op \in Op, NEW read \in Row
    PROVE  NewAuditEvent(op, read) \in AuditEvent
BY DEF Op, Kinds, NewAuditEvent, AuditEvent, Row

LEMMA AddVersionType ==
    ASSUME NEW S \in SUBSET Nat, NEW history \in [S -> Snapshot],
           NEW number \in Nat, NEW snapshot \in Snapshot
    PROVE  /\ AddVersion(history, number, snapshot) \in [S \cup {number} -> Snapshot]
           /\ DOMAIN AddVersion(history, number, snapshot) = S \cup {number}
           /\ AddVersion(history, number, snapshot)[number] = snapshot
           /\ \A n \in S \ {number} :
                 AddVersion(history, number, snapshot)[n] = history[n]
BY DEF AddVersion

\* Every operation on a stored item is Perform with some request.
LEMMA NextIsCreateOrPerform ==
    ASSUME ConstantsAssumption, Next
    PROVE  \E i \in Items :
             \/ \E a \in Actors, t \in ContentTypes, e \in Entities \cup {None},
                   p \in Payloads : CreateDraft(i, a, t, e, p)
             \/ \E op \in Op : Perform(i, op)
<1> PICK i \in Items, a \in Actors :
        \/ \E t \in ContentTypes, e \in Entities \cup {None}, p \in Payloads :
               CreateDraft(i, a, t, e, p)
        \/ \E p \in Payloads : UpdateDraft(i, a, p)
        \/ SubmitForReview(i, a)
        \/ RequestChanges(i, a)
        \/ Approve(i, a)
        \/ ApproveWithAdminOverride(i, a)
        \/ VerifyTranslationProposal(i, a)
        \/ Schedule(i, a)
        \/ Publish(i, a)
        \/ Archive(i, a)
        \/ \E n \in 1..MaxVersion : Rollback(i, a, n)
    BY DEF Next
<1>1. \A kind \in Kinds : Plain(kind, a) \in Op
    BY DEF Plain, Op, ConstantsAssumption
<1>2. \A p \in Payloads, n \in Nat, kind \in Kinds :
         [kind |-> kind, actor |-> a, payload |-> p, target |-> n] \in Op
    BY DEF Op
<1>3. CASE \E t \in ContentTypes, e \in Entities \cup {None}, p \in Payloads :
              CreateDraft(i, a, t, e, p)
    BY <1>3
<1>4. CASE \E p \in Payloads : UpdateDraft(i, a, p)
    BY <1>2, <1>4 DEF UpdateDraft, Kinds
<1>5. CASE \E n \in 1..MaxVersion : Rollback(i, a, n)
    <2>1. PICK n \in 1..MaxVersion : Rollback(i, a, n)
        BY <1>5
    <2>2. n \in Nat /\ EmptyPayload \in Payloads /\ "rollback" \in Kinds
        BY DEF ConstantsAssumption, Kinds
    <2> QED BY <1>2, <2>1, <2>2 DEF Rollback
<1>6. CASE SubmitForReview(i, a) \/ RequestChanges(i, a) \/ Approve(i, a)
           \/ ApproveWithAdminOverride(i, a) \/ VerifyTranslationProposal(i, a)
           \/ Schedule(i, a) \/ Publish(i, a) \/ Archive(i, a)
    BY <1>1, <1>6 DEF SubmitForReview, RequestChanges, Approve, ApproveWithAdminOverride,
        VerifyTranslationProposal, Schedule, Publish, Archive, Kinds
<1> QED BY <1>3, <1>4, <1>5, <1>6

--------------------------------------------------------------------------------
(* Type correctness.                                                       *)

LEMMA CreateDraftKeepsType ==
    ASSUME ConstantsAssumption, TypeInv, NEW i \in Items, NEW a \in Actors,
           NEW t \in ContentTypes, NEW e \in Entities \cup {None}, NEW p \in Payloads,
           CreateDraft(i, a, t, e, p)
    PROVE  TypeInv'
<1> DEFINE snap == [snapshotPayload |-> p, statusAtSnapshot |-> "draft"]
<1>1. NewRow(a, t, e, p) \in Row
    BY DEF NewRow, Row, Statuses
<1>2. snap \in Snapshot
    BY DEF Snapshot, Statuses
<1>3. items' \in [Items -> Row]
    BY <1>1 DEF TypeInv, TypeOK, CreateDraft
<1>4. /\ DOMAIN versions' = Items
      /\ \A j \in Items : /\ DOMAIN versions'[j] \subseteq Nat
                          /\ versions'[j] \in [DOMAIN versions'[j] -> Snapshot]
    <2>1. AddVersion(versions[i], 1, snap) \in [DOMAIN versions[i] \cup {1} -> Snapshot]
        BY <1>2, AddVersionType DEF TypeInv, TypeOK
    <2> QED BY <2>1 DEF TypeInv, TypeOK, CreateDraft
<1>5. audit' \in [Items -> SUBSET AuditEvent]
    <2>1. [action |-> "create_draft", actorId |-> a, versionNumber |-> 1,
           adminOverride |-> FALSE] \in AuditEvent
        BY DEF AuditEvent
    <2> QED BY <2>1 DEF TypeInv, TypeOK, CreateDraft
<1>6. StoredItems'
    BY DEF TypeInv, TypeOK, StoredItems, CreateDraft, NewRow
<1> QED BY <1>3, <1>4, <1>5, <1>6 DEF TypeInv, TypeOK, CreateDraft

LEMMA PerformTypes ==
    ASSUME ConstantsAssumption, TypeInv, NEW i \in Items, NEW op \in Op, Perform(i, op)
    PROVE  /\ items[i].status \in Statuses
           /\ items[i].stagedPayload \in Payloads
           /\ UpdatedRow(op, items[i], versions[i], items[i]) \in Row
           /\ NextPayload(op, items[i].stagedPayload, versions[i]) \in Payloads
           /\ NewSnapshot(op, items[i], versions[i]) \in Snapshot
<1>1. items[i] \in Row /\ items[i].status # "absent"
    BY DEF TypeInv, TypeOK, Perform, RowGuard
<1>2. items[i].stagedPayload \in Payloads /\ items[i].status \in Statuses
    BY <1>1 DEF TypeInv, StoredItems, Row
<1>3. NextPayload(op, items[i].stagedPayload, versions[i]) \in Payloads
    BY <1>2, NextPayloadType DEF TypeInv, TypeOK, Perform, TargetGuard
<1>4. NextReviewer(op, items[i].status, items[i].reviewerId) \in Actors \cup {None}
    BY <1>1, NextReviewerType DEF Row
<1>5. ToStatus(op, items[i].status) \in Statuses
    BY ToStatusType
<1>6. UpdatedRow(op, items[i], versions[i], items[i]) \in Row
    <2>1. items[i].currentVersion + 1 \in Nat
        BY <1>1 DEF Row
    <2> QED BY <1>1, <1>3, <1>4, <1>5, <2>1, UpdatedRowType DEF UpdatedRow
<1> QED BY <1>2, <1>3, <1>5, <1>6 DEF NewSnapshot, Snapshot

LEMMA PerformKeepsType ==
    ASSUME ConstantsAssumption, TypeInv, NEW i \in Items, NEW op \in Op, Perform(i, op)
    PROVE  TypeInv'
<1> DEFINE row == UpdatedRow(op, items[i], versions[i], items[i])
           snap == NewSnapshot(op, items[i], versions[i])
           next == items[i].currentVersion + 1
<1>1. /\ items[i] \in Row
      /\ items[i].status # "absent"
      /\ next \in Nat \ {0}
    BY DEF TypeInv, TypeOK, Row, Perform, RowGuard
<1>2. row \in Row /\ snap \in Snapshot
    BY PerformTypes
<1>3. items' \in [Items -> Row]
    BY <1>2 DEF TypeInv, TypeOK, Perform
<1>4. /\ DOMAIN versions' = Items
      /\ \A j \in Items : /\ DOMAIN versions'[j] \subseteq Nat
                          /\ versions'[j] \in [DOMAIN versions'[j] -> Snapshot]
    <2>1. AddVersion(versions[i], next, snap) \in [DOMAIN versions[i] \cup {next} -> Snapshot]
        BY <1>1, <1>2, AddVersionType DEF TypeInv, TypeOK
    <2> QED BY <1>1, <2>1 DEF TypeInv, TypeOK, Perform
<1>5. audit' \in [Items -> SUBSET AuditEvent]
    BY <1>1, NewAuditEventType DEF TypeInv, TypeOK, Perform
<1>6. translations' \subseteq Entities \X Payloads
    BY DEF TypeInv, TypeOK, Perform, NewTranslations, RowGuard, VerifyTranslationGuard,
        ConstantsAssumption, Op, Kinds
<1>7. StoredItems'
    <2>1. /\ row.contentType = items[i].contentType
          /\ row.authorId = items[i].authorId
          /\ row.currentVersion = next
          /\ row.status = ToStatus(op, items[i].status)
          /\ row.stagedPayload = NextPayload(op, items[i].stagedPayload, versions[i])
        BY <1>1 DEF UpdatedRow, Row
    <2>2. row.status # "absent"
        BY <2>1, ToStatusType DEF Statuses
    <2>3. row.stagedPayload \in Payloads
        BY <2>1, PerformTypes
    <2>4. items' = [items EXCEPT ![i] = row]
        BY DEF Perform
    <2> QED BY <1>1, <2>1, <2>2, <2>3, <2>4 DEF TypeInv, TypeOK, StoredItems
<1> QED BY <1>3, <1>4, <1>5, <1>6, <1>7 DEF TypeInv, TypeOK

\* The tables of the workflow hold rows of their declared shape in every
\* reachable state.
THEOREM TypeCorrect == ConstantsAssumption /\ Spec => []TypeOK
<1> SUFFICES ASSUME ConstantsAssumption PROVE Spec => []TypeOK
    OBVIOUS
<1>1. Init => TypeInv
    BY DEF Init, TypeInv, TypeOK, StoredItems, AbsentRow, Row
<1>2. TypeInv /\ [Next]_vars => TypeInv'
    <2>1. ASSUME TypeInv, Next PROVE TypeInv'
        BY <2>1, NextIsCreateOrPerform, CreateDraftKeepsType, PerformKeepsType
    <2>2. ASSUME TypeInv, UNCHANGED vars PROVE TypeInv'
        BY <2>2 DEF vars, TypeInv, TypeOK, StoredItems
    <2> QED BY <2>1, <2>2
<1>3. TypeInv => TypeOK
    BY DEF TypeInv
<1> QED BY <1>1, <1>2, <1>3, PTL DEF Spec

--------------------------------------------------------------------------------
(* Complete histories.                                                     *)

\* An update leaves the content type, the entity and the author alone.
LEMMA UpdatedRowFields ==
    ASSUME NEW op, NEW history, NEW row \in Row
    PROVE  LET new == UpdatedRow(op, row, history, row)
           IN  /\ new.contentType = row.contentType
               /\ new.entityId = row.entityId
               /\ new.authorId = row.authorId
               /\ new.status = ToStatus(op, row.status)
               /\ new.currentVersion = row.currentVersion + 1
               /\ new.stagedPayload = NextPayload(op, row.stagedPayload, history)
               /\ new.reviewerId = NextReviewer(op, row.status, row.reviewerId)
BY DEF UpdatedRow, Row

\* What a step of an operation does to the item it names.
LEMMA PerformStep ==
    ASSUME ConstantsAssumption, TypeInv, HistoryComplete,
           NEW i \in Items, NEW op \in Op, Perform(i, op)
    PROVE  LET last == items[i].currentVersion
           IN  /\ last \in Nat \ {0}
               /\ DOMAIN versions[i] = 1..last
               /\ items[i].status \in Statuses
               /\ items'[i].authorId = items[i].authorId
               /\ items'[i].contentType = items[i].contentType
               /\ items'[i].status = ToStatus(op, items[i].status)
               /\ items'[i].currentVersion = last + 1
               /\ items'[i].stagedPayload
                    = NextPayload(op, items[i].stagedPayload, versions[i])
               /\ items'[i].reviewerId
                    = NextReviewer(op, items[i].status, items[i].reviewerId)
               /\ DOMAIN versions'[i] = 1..(last + 1)
               /\ versions'[i][last + 1] = NewSnapshot(op, items[i], versions[i])
               /\ \A n \in 1..last : versions'[i][n] = versions[i][n]
               /\ audit'[i] = audit[i] \cup {NewAuditEvent(op, items[i])}
<1> DEFINE last == items[i].currentVersion
<1>1. items[i] \in Row /\ items[i].status \in Statuses
    BY PerformTypes DEF TypeInv, TypeOK
<1>2. last \in Nat \ {0} /\ DOMAIN versions[i] = 1..last
    BY DEF TypeInv, StoredItems, HistoryComplete, NumberedWithoutGap, Perform, RowGuard
<1>3. items'[i] = UpdatedRow(op, items[i], versions[i], items[i])
    BY DEF TypeInv, TypeOK, Perform
<1>4. versions'[i] = AddVersion(versions[i], last + 1, NewSnapshot(op, items[i], versions[i]))
    BY DEF TypeInv, TypeOK, Perform
<1>5. audit'[i] = audit[i] \cup {NewAuditEvent(op, items[i])}
    BY DEF TypeInv, TypeOK, Perform
<1>6. 1..last \cup {last + 1} = 1..(last + 1) /\ last + 1 \notin 1..last
    BY <1>2
<1>7. /\ DOMAIN versions'[i] = 1..(last + 1)
      /\ versions'[i][last + 1] = NewSnapshot(op, items[i], versions[i])
      /\ \A n \in 1..last : versions'[i][n] = versions[i][n]
    BY <1>2, <1>4, <1>6 DEF AddVersion
<1> QED BY <1>1, <1>2, <1>3, <1>5, <1>7, UpdatedRowFields

LEMMA PerformFrame ==
    ASSUME TypeInv, NEW i \in Items, NEW op \in Op, Perform(i, op), NEW j \in Items \ {i}
    PROVE  items'[j] = items[j] /\ versions'[j] = versions[j] /\ audit'[j] = audit[j]
BY DEF TypeInv, TypeOK, Perform

LEMMA PerformKeepsHistory ==
    ASSUME ConstantsAssumption, TypeInv, HistoryComplete,
           NEW i \in Items, NEW op \in Op, Perform(i, op)
    PROVE  HistoryComplete'
<1> DEFINE last == items[i].currentVersion
           event == NewAuditEvent(op, items[i])
<1>1. NumberedWithoutGap(i)'
    BY PerformStep DEF NumberedWithoutGap
<1>2. NewestSnapshotIsStored(i)'
    <2>1. /\ items'[i].currentVersion = last + 1
          /\ items'[i].status = ToStatus(op, items[i].status)
          /\ items'[i].stagedPayload = NextPayload(op, items[i].stagedPayload, versions[i])
          /\ versions'[i][last + 1] = NewSnapshot(op, items[i], versions[i])
        BY PerformStep
    <2> QED BY ONLY <2>1 DEF NewestSnapshotIsStored, NewSnapshot
<1>3. OneEventPerVersion(i)'
    <2>1. event.versionNumber = last + 1
        BY DEF NewAuditEvent
    <2>2. /\ last \in Nat \ {0}
          /\ DOMAIN versions[i] = 1..last
          /\ DOMAIN versions'[i] = 1..(last + 1)
          /\ audit'[i] = audit[i] \cup {event}
        BY PerformStep
    <2>3. \A e \in audit[i] : e.versionNumber \in 1..last
        BY <2>2 DEF HistoryComplete, OneEventPerVersion
    <2>4. \A e \in audit'[i] : e.versionNumber \in 1..(last + 1)
        BY <2>1, <2>2, <2>3
    <2>5. ASSUME NEW n \in 1..(last + 1) PROVE \E e \in audit'[i] : e.versionNumber = n
        <3>1. CASE n = last + 1
            BY <2>1, <2>2, <3>1
        <3>2. CASE n \in 1..last
            BY <2>2, <3>2 DEF HistoryComplete, OneEventPerVersion
        <3> QED BY <2>2, <3>1, <3>2
    <2>6. ASSUME NEW e \in audit'[i], NEW f \in audit'[i], e.versionNumber = f.versionNumber
          PROVE  e = f
        <3>1. CASE e \in audit[i] /\ f \in audit[i]
            BY <2>6, <3>1 DEF HistoryComplete, OneEventPerVersion
        <3>2. CASE e = event \/ f = event
            BY <2>1, <2>2, <2>3, <2>6, <3>2
        <3> QED BY <2>2, <3>1, <3>2
    <2> QED BY <2>2, <2>4, <2>5, <2>6 DEF OneEventPerVersion
<1>4. ASSUME NEW j \in Items \ {i}
      PROVE  NumberedWithoutGap(j)' /\ NewestSnapshotIsStored(j)' /\ OneEventPerVersion(j)'
    BY PerformFrame DEF HistoryComplete, NumberedWithoutGap, NewestSnapshotIsStored,
        OneEventPerVersion
<1> QED BY <1>1, <1>2, <1>3, <1>4 DEF HistoryComplete

LEMMA CreateDraftKeepsHistory ==
    ASSUME ConstantsAssumption, TypeInv, HistoryComplete, NEW i \in Items, NEW a \in Actors,
           NEW t \in ContentTypes, NEW e \in Entities \cup {None}, NEW p \in Payloads,
           CreateDraft(i, a, t, e, p)
    PROVE  HistoryComplete'
<1> DEFINE snap == [snapshotPayload |-> p, statusAtSnapshot |-> "draft"]
           event == [action |-> "create_draft", actorId |-> a, versionNumber |-> 1,
                     adminOverride |-> FALSE]
<1>1. items[i].status = "absent" /\ items[i].currentVersion = 0
    BY DEF CreateDraft, TypeInv, StoredItems
<1>2. DOMAIN versions[i] = {} /\ audit[i] = {}
    BY <1>1 DEF HistoryComplete, NumberedWithoutGap, OneEventPerVersion
<1>3. items'[i] = NewRow(a, t, e, p)
    BY DEF TypeInv, TypeOK, CreateDraft
<1>4. DOMAIN versions'[i] = {1} /\ versions'[i][1] = snap
    <2>1. versions'[i] = AddVersion(versions[i], 1, snap)
        BY DEF TypeInv, TypeOK, CreateDraft
    <2> QED BY <1>2, <2>1 DEF AddVersion
<1>5. audit'[i] = {event}
    BY <1>2 DEF TypeInv, TypeOK, CreateDraft
<1>6. NumberedWithoutGap(i)' /\ NewestSnapshotIsStored(i)' /\ OneEventPerVersion(i)'
    BY <1>3, <1>4, <1>5 DEF NumberedWithoutGap, NewestSnapshotIsStored, OneEventPerVersion,
        NewRow
<1>7. ASSUME NEW j \in Items \ {i}
      PROVE  NumberedWithoutGap(j)' /\ NewestSnapshotIsStored(j)' /\ OneEventPerVersion(j)'
    <2>1. items'[j] = items[j] /\ versions'[j] = versions[j] /\ audit'[j] = audit[j]
        BY DEF TypeInv, TypeOK, CreateDraft
    <2> QED BY <2>1 DEF HistoryComplete, NumberedWithoutGap, NewestSnapshotIsStored,
        OneEventPerVersion
<1> QED BY <1>6, <1>7 DEF HistoryComplete

\* The inductive invariant behind the safety theorems.
HistoryInv == TypeInv /\ HistoryComplete

LEMMA HistoryInvIsInductive ==
    ASSUME ConstantsAssumption
    PROVE  /\ Init => HistoryInv
           /\ HistoryInv /\ [Next]_vars => HistoryInv'
<1>1. Init => TypeInv
    BY DEF Init, TypeInv, TypeOK, StoredItems, AbsentRow, Row
<1>2. Init => HistoryComplete
    <2> SUFFICES ASSUME Init, NEW i \in Items
                 PROVE  NumberedWithoutGap(i) /\ NewestSnapshotIsStored(i)
                        /\ OneEventPerVersion(i)
        BY DEF HistoryComplete
    <2>1. /\ items[i].status = "absent"
          /\ items[i].currentVersion = 0
          /\ DOMAIN versions[i] = {}
          /\ audit[i] = {}
        BY DEF Init, AbsentRow
    <2> QED BY <2>1 DEF NumberedWithoutGap, NewestSnapshotIsStored, OneEventPerVersion
<1>3. ASSUME HistoryInv, Next PROVE HistoryInv'
    BY <1>3, NextIsCreateOrPerform, CreateDraftKeepsType, PerformKeepsType,
        CreateDraftKeepsHistory, PerformKeepsHistory DEF HistoryInv
<1>4. ASSUME HistoryInv, UNCHANGED vars PROVE HistoryInv'
    BY <1>4 DEF vars, HistoryInv, TypeInv, TypeOK, StoredItems, HistoryComplete,
        NumberedWithoutGap, NewestSnapshotIsStored, OneEventPerVersion
<1> QED BY <1>1, <1>2, <1>3, <1>4 DEF HistoryInv

\* In every reachable state an item's versions are numbered without a gap, the
\* newest is what is stored and each has exactly one audit event.
THEOREM HistoriesAreComplete == ConstantsAssumption /\ Spec => []HistoryComplete
<1> SUFFICES ASSUME ConstantsAssumption PROVE Spec => []HistoryComplete
    OBVIOUS
<1>1. HistoryInv => HistoryComplete
    BY DEF HistoryInv
<1>2. Init => HistoryInv
    BY HistoryInvIsInductive
<1>3. HistoryInv /\ [Next]_vars => HistoryInv'
    BY HistoryInvIsInductive
<1> QED BY <1>1, <1>2, <1>3, PTL DEF Spec

--------------------------------------------------------------------------------
(* Approval lineage.                                                       *)

Approved == {"approved", "scheduled", "published", "archived"}

LEMMA ApproveStartsLineage ==
    ASSUME ConstantsAssumption, HistoryInv, NEW i \in Items, NEW op \in Op, Perform(i, op),
           op.kind \in {"approve", "approve_override"}
    PROVE  \E e \in audit'[i] : ApprovedBy(i, e)'
<1> DEFINE last == items[i].currentVersion
<1> PICK event : event = NewAuditEvent(op, items[i])
    OBVIOUS
<1>1. /\ event.action = "approve"
      /\ event.versionNumber = last + 1
      /\ event.actorId = op.actor
      /\ event.adminOverride = (op.kind = "approve_override")
    BY DEF NewAuditEvent
<1>2. /\ last \in Nat \ {0}
      /\ items'[i].authorId = items[i].authorId
      /\ items'[i].contentType = items[i].contentType
      /\ items'[i].currentVersion = last + 1
      /\ items'[i].reviewerId = NextReviewer(op, items[i].status, items[i].reviewerId)
      /\ versions'[i][last + 1] = NewSnapshot(op, items[i], versions[i])
      /\ event \in audit'[i]
    BY PerformStep DEF HistoryInv
<1>3. items'[i].reviewerId = event.actorId
    BY <1>1, <1>2 DEF NextReviewer
<1>4. event.actorId # items'[i].authorId \/ event.adminOverride
    BY <1>1, <1>2 DEF Perform, RowGuard, ApproveGuard
<1>5. versions'[i][last + 1].statusAtSnapshot \notin {"draft", "review"}
    BY <1>2 DEF NewSnapshot, ToStatus
<1>6. \A n \in event.versionNumber..items'[i].currentVersion : n = last + 1
    BY <1>1, <1>2
<1>7. ValidPayload(items'[i].contentType, versions'[i][last + 1].snapshotPayload)
    <2>1. ValidForPromotion(items[i])
        BY DEF Perform, RowGuard, ApproveGuard, ApproveOverrideGuard
    <2>2. versions'[i][last + 1].snapshotPayload = items[i].stagedPayload
        BY <1>2 DEF NewSnapshot, NextPayload
    <2> QED BY <1>2, <2>1, <2>2 DEF ValidForPromotion
<1>8. ApprovedBy(i, event)'
    BY <1>1, <1>3, <1>4, <1>5, <1>6, <1>7 DEF ApprovedBy, ValidPayload
<1> QED BY <1>2, <1>8

LEMMA LineageExtends ==
    ASSUME ConstantsAssumption, HistoryInv, NEW i \in Items, NEW op \in Op, Perform(i, op),
           NEW e \in audit[i], ApprovedBy(i, e),
           items'[i].status \notin {"draft", "review"},
           items'[i].reviewerId = items[i].reviewerId,
           \/ NextPayload(op, items[i].stagedPayload, versions[i]) = items[i].stagedPayload
           \/ op.kind = "rollback"
    PROVE  \E f \in audit'[i] : ApprovedBy(i, f)'
<1> DEFINE last == items[i].currentVersion
           event == NewAuditEvent(op, items[i])
<1>1. /\ last \in Nat \ {0}
      /\ items'[i].authorId = items[i].authorId
      /\ items'[i].contentType = items[i].contentType
      /\ items'[i].status = ToStatus(op, items[i].status)
      /\ items'[i].currentVersion = last + 1
      /\ versions'[i][last + 1] = NewSnapshot(op, items[i], versions[i])
      /\ \A n \in 1..last : versions'[i][n] = versions[i][n]
      /\ audit'[i] = audit[i] \cup {event}
    BY PerformStep DEF HistoryInv
<1>2. e.versionNumber \in 1..last
    <2>1. NumberedWithoutGap(i) /\ OneEventPerVersion(i)
        BY DEF HistoryInv, HistoryComplete
    <2> QED BY <2>1 DEF NumberedWithoutGap, OneEventPerVersion
<1>3. versions[i][last].snapshotPayload = items[i].stagedPayload
    <2>1. NewestSnapshotIsStored(i) /\ items[i].status # "absent"
        BY DEF HistoryInv, HistoryComplete, Perform, RowGuard
    <2> QED BY <2>1 DEF NewestSnapshotIsStored
<1>4. ASSUME NEW n \in e.versionNumber..(last + 1)
      PROVE  /\ versions'[i][n].statusAtSnapshot \notin {"draft", "review"}
             /\ \/ versions'[i][n].snapshotPayload
                      = versions'[i][e.versionNumber].snapshotPayload
                \/ \E r \in audit'[i] :
                      r.action = "rollback" /\ r.versionNumber \in e.versionNumber..n
    <2>1. versions'[i][e.versionNumber] = versions[i][e.versionNumber]
        BY <1>1, <1>2
    <2>2. CASE n \in e.versionNumber..last
        <3>1. versions'[i][n] = versions[i][n]
            BY <1>1, <1>2, <2>2
        <3> QED BY <1>1, <2>1, <2>2, <3>1 DEF ApprovedBy
    <2>3. CASE n = last + 1
        <3>1. versions'[i][n].statusAtSnapshot \notin {"draft", "review"}
            BY <1>1, <2>3 DEF NewSnapshot
        <3>2. versions'[i][n].snapshotPayload
                = NextPayload(op, items[i].stagedPayload, versions[i])
            BY <1>1, <2>3 DEF NewSnapshot
        <3>3. CASE op.kind = "rollback"
            <4>1. event.action = "rollback" /\ event.versionNumber = last + 1
                BY <3>3 DEF NewAuditEvent
            <4>2. last + 1 \in e.versionNumber..(last + 1)
                BY <1>1, <1>2
            <4> QED BY <1>1, <2>3, <3>1, <4>1, <4>2
        <3>4. CASE NextPayload(op, items[i].stagedPayload, versions[i])
                     = items[i].stagedPayload
            <4>1. last \in e.versionNumber..last
                BY <1>1, <1>2
            <4>2. CASE versions[i][last].snapshotPayload
                         = versions[i][e.versionNumber].snapshotPayload
                BY <1>3, <2>1, <3>1, <3>2, <3>4, <4>2
            <4>3. ASSUME NEW r \in audit[i], r.action = "rollback",
                         r.versionNumber \in e.versionNumber..last
                  PROVE  r \in audit'[i] /\ r.versionNumber \in e.versionNumber..n
                BY <1>1, <1>2, <2>3, <4>3
            <4> QED BY <3>1, <4>1, <4>2, <4>3 DEF ApprovedBy
        <3> QED BY <3>3, <3>4
    <2> QED BY <1>1, <1>2, <2>2, <2>3
<1>5. versions'[i][e.versionNumber] = versions[i][e.versionNumber]
    BY <1>1, <1>2
<1>6. ApprovedBy(i, e)'
    BY <1>1, <1>4, <1>5 DEF ApprovedBy, ValidPayload
<1> QED BY <1>1, <1>6

LEMMA PerformKeepsLineage ==
    ASSUME ConstantsAssumption, HistoryInv, ApprovalLineage,
           NEW i \in Items, NEW op \in Op, Perform(i, op)
    PROVE  ApprovalLineage'
<1>1. ASSUME items'[i].status \in Approved
      PROVE  \E e \in audit'[i] : ApprovedBy(i, e)'
    <2> DEFINE from == items[i].status
    <2>1. items'[i].status = ToStatus(op, from) /\ from \in Statuses
        BY PerformStep DEF HistoryInv
    <2>2. items'[i].reviewerId = NextReviewer(op, from, items[i].reviewerId)
        BY PerformStep DEF HistoryInv
    <2>3. CASE op.kind \in {"approve", "approve_override"}
        BY <2>3, ApproveStartsLineage
    <2>4. CASE op.kind \in {"schedule", "publish", "verify_translation", "archive"}
        <3>1. from \in Approved
            BY <2>4 DEF Perform, RowGuard, ScheduleGuard, PublishGuard,
                VerifyTranslationGuard, ArchiveGuard, CanTransition, CmsTransitions, Approved
        <3>2. PICK e \in audit[i] : ApprovedBy(i, e)
            BY <3>1 DEF ApprovalLineage, Approved
        <3>3. /\ NextPayload(op, items[i].stagedPayload, versions[i])
                   = items[i].stagedPayload
              /\ items'[i].reviewerId = items[i].reviewerId
              /\ items'[i].status \notin {"draft", "review"}
            BY <1>1, <2>2, <2>4 DEF NextPayload, NextReviewer, Approved
        <3> QED BY <3>2, <3>3, LineageExtends
    <2>5. CASE op.kind = "rollback"
        <3>1. from = "archived"
            BY <1>1, <2>1, <2>5 DEF ToStatus, RollbackTargetStatus, Approved
        <3>2. PICK e \in audit[i] : ApprovedBy(i, e)
            BY <3>1 DEF ApprovalLineage
        <3>3. /\ items'[i].reviewerId = items[i].reviewerId
              /\ items'[i].status \notin {"draft", "review"}
            BY <1>1, <2>2, <2>5, <3>1 DEF NextReviewer, RollbackTargetStatus, Approved
        <3> QED BY <2>5, <3>2, <3>3, LineageExtends
    <2>6. CASE op.kind \in {"edit", "submit_review", "request_changes"}
        BY <1>1, <2>1, <2>6 DEF ToStatus, Approved
    <2> QED BY <2>3, <2>4, <2>5, <2>6 DEF Op, Kinds
<1>2. ASSUME NEW j \in Items \ {i}, items'[j].status \in Approved
      PROVE  \E e \in audit'[j] : ApprovedBy(j, e)'
    <2>1. items'[j] = items[j] /\ versions'[j] = versions[j] /\ audit'[j] = audit[j]
        BY PerformFrame DEF HistoryInv
    <2> QED BY <1>2, <2>1 DEF ApprovalLineage, ApprovedBy, ValidPayload, Approved
<1> QED BY <1>1, <1>2 DEF ApprovalLineage, Approved

LEMMA CreateDraftKeepsLineage ==
    ASSUME ConstantsAssumption, HistoryInv, ApprovalLineage, NEW i \in Items,
           NEW a \in Actors, NEW t \in ContentTypes, NEW e \in Entities \cup {None},
           NEW p \in Payloads, CreateDraft(i, a, t, e, p)
    PROVE  ApprovalLineage'
<1>1. items'[i].status = "draft"
    BY DEF HistoryInv, TypeInv, TypeOK, CreateDraft, NewRow
<1>2. ASSUME NEW j \in Items \ {i}, items'[j].status \in Approved
      PROVE  \E f \in audit'[j] : ApprovedBy(j, f)'
    <2>1. items'[j] = items[j] /\ versions'[j] = versions[j] /\ audit'[j] = audit[j]
        BY DEF HistoryInv, TypeInv, TypeOK, CreateDraft
    <2> QED BY <1>2, <2>1 DEF ApprovalLineage, ApprovedBy, ValidPayload, Approved
<1> QED BY <1>1, <1>2 DEF ApprovalLineage, Approved

\* Nothing is approved, scheduled, published or archived without an unbroken
\* lineage back to an approval by somebody else than its author or by the
\* recorded admin override.
THEOREM ApprovedContentHasLineage == ConstantsAssumption /\ Spec => []ApprovalLineage
<1> SUFFICES ASSUME ConstantsAssumption PROVE Spec => []ApprovalLineage
    OBVIOUS
<1> DEFINE Inv == HistoryInv /\ ApprovalLineage
<1>1. Init => Inv
    <2>1. Init => HistoryInv
        BY HistoryInvIsInductive
    <2>2. Init => ApprovalLineage
        BY DEF Init, ApprovalLineage, AbsentRow
    <2> QED BY <2>1, <2>2
<1>2. Inv /\ [Next]_vars => Inv'
    <2>1. Inv /\ [Next]_vars => HistoryInv'
        BY HistoryInvIsInductive
    <2>2. ASSUME Inv, Next PROVE ApprovalLineage'
        BY <2>2, NextIsCreateOrPerform, CreateDraftKeepsLineage, PerformKeepsLineage
    <2>3. ASSUME Inv, UNCHANGED vars PROVE ApprovalLineage'
        BY <2>3 DEF vars, ApprovalLineage, ApprovedBy, ValidPayload
    <2> QED BY <2>1, <2>2, <2>3
<1>3. Inv => ApprovalLineage
    OBVIOUS
<1> QED BY <1>1, <1>2, <1>3, PTL DEF Spec

\* An item was rolled back without returning to draft: from the archive.
RolledBackFromArchive(i) ==
    \E r \in audit[i] : /\ r.action = "rollback"
                        /\ versions[i][r.versionNumber].statusAtSnapshot \notin {"draft", "review"}

\* Approved content is valid, or the item was rolled back from the archive.
ValidUnlessRolledBack ==
    \A i \in Items :
        items[i].status \in Approved =>
            \/ ValidPayload(items[i].contentType, items[i].stagedPayload)
            \/ RolledBackFromArchive(i)

\* Where the promise of validation.ts:286-291 ends: what advances toward
\* publication is valid content, but for items rolled back from the archive
\* (rollback validates no payload, cmsService.ts:860-886).
THEOREM InvalidContentNeedsRollback == ConstantsAssumption /\ Spec => []ValidUnlessRolledBack
<1> SUFFICES ASSUME ConstantsAssumption PROVE Spec => []ValidUnlessRolledBack
    OBVIOUS
<1>1. TypeOK /\ HistoryComplete /\ ApprovalLineage => ValidUnlessRolledBack
    <2> SUFFICES ASSUME TypeOK, HistoryComplete, ApprovalLineage, NEW i \in Items,
                        items[i].status \in Approved
                 PROVE  \/ ValidPayload(items[i].contentType, items[i].stagedPayload)
                        \/ RolledBackFromArchive(i)
        BY DEF ValidUnlessRolledBack
    <2> DEFINE last == items[i].currentVersion
    <2>1. PICK e \in audit[i] : ApprovedBy(i, e)
        BY DEF ApprovalLineage, Approved
    <2>2. e.versionNumber \in 1..last /\ DOMAIN versions[i] = 1..last
        <3>1. NumberedWithoutGap(i) /\ OneEventPerVersion(i)
            BY DEF HistoryComplete
        <3> QED BY <2>1, <3>1 DEF NumberedWithoutGap, OneEventPerVersion
    <2>3. versions[i][last].snapshotPayload = items[i].stagedPayload
        <3>1. NewestSnapshotIsStored(i) /\ items[i].status # "absent"
            BY DEF HistoryComplete, Approved
        <3> QED BY <3>1 DEF NewestSnapshotIsStored
    <2>4. last \in e.versionNumber..last
        <3>1. last \in Nat
            BY DEF TypeOK, Row
        <3> QED BY <2>2, <3>1
    <2>5. CASE versions[i][last].snapshotPayload = versions[i][e.versionNumber].snapshotPayload
        BY <2>1, <2>3, <2>5 DEF ApprovedBy
    <2>6. ASSUME NEW r \in audit[i], r.action = "rollback",
                 r.versionNumber \in e.versionNumber..last
          PROVE  RolledBackFromArchive(i)
        BY <2>1, <2>6 DEF ApprovedBy, RolledBackFromArchive
    <2> QED BY <2>1, <2>4, <2>5, <2>6 DEF ApprovedBy
<1> QED BY <1>1, TypeCorrect, HistoriesAreComplete, ApprovedContentHasLineage, PTL

--------------------------------------------------------------------------------
(* Public overlays and verified translations.                              *)

\* What a step of an operation leaves of the item's identity.
LEMMA PerformKeepsIdentity ==
    ASSUME ConstantsAssumption, TypeInv, NEW i \in Items, NEW op \in Op, Perform(i, op)
    PROVE  /\ items'[i].contentType = items[i].contentType
           /\ items'[i].entityId = items[i].entityId
           /\ items'[i].status = ToStatus(op, items[i].status)
           /\ items[i].status \in Statuses
<1>1. items[i] \in Row /\ items'[i] = UpdatedRow(op, items[i], versions[i], items[i])
    BY DEF TypeInv, TypeOK, Perform
<1> QED BY <1>1, UpdatedRowFields, PerformTypes

LEMMA PerformKeepsOverlays ==
    ASSUME ConstantsAssumption, TypeInv, PublishedOverlayExists,
           NEW i \in Items, NEW op \in Op, Perform(i, op)
    PROVE  PublishedOverlayExists'
<1> DEFINE Overlay(row) == (/\ row.status \in {"published", "archived"}
                            /\ row.entityId # None
                            /\ row.contentType # "translation")
                               => <<row.contentType, row.entityId>> \in Canonical
<1>1. /\ items'[i].contentType = items[i].contentType
      /\ items'[i].entityId = items[i].entityId
      /\ items'[i].status = ToStatus(op, items[i].status)
      /\ items[i].status \in Statuses
    BY PerformKeepsIdentity
<1>2. Overlay(items'[i])
    <2>1. CASE op.kind = "publish"
        BY <1>1, <2>1 DEF Perform, RowGuard, PublishGuard
    <2>2. CASE op.kind = "verify_translation"
        BY <1>1, <2>2 DEF Perform, RowGuard, VerifyTranslationGuard
    <2>3. CASE op.kind = "archive"
        <3>1. items[i].status = "published"
            BY <2>3 DEF Perform, RowGuard, ArchiveGuard, CanTransition, CmsTransitions
        <3> QED BY <1>1, <3>1 DEF PublishedOverlayExists
    <2>4. CASE op.kind = "rollback"
        <3>1. items'[i].status \in {"published", "archived"} => items[i].status = "archived"
            BY <1>1, <2>4 DEF ToStatus, RollbackTargetStatus
        <3> QED BY <1>1, <3>1 DEF PublishedOverlayExists
    <2>5. CASE op.kind \in {"edit", "submit_review", "request_changes", "approve",
                            "approve_override", "schedule"}
        BY <1>1, <2>5 DEF ToStatus
    <2> QED BY <2>1, <2>2, <2>3, <2>4, <2>5 DEF Op, Kinds
<1>3. ASSUME NEW j \in Items \ {i} PROVE Overlay(items'[j])
    <2>1. items'[j] = items[j]
        BY PerformFrame
    <2> QED BY <2>1 DEF PublishedOverlayExists
<1> QED BY <1>2, <1>3 DEF PublishedOverlayExists

LEMMA CreateDraftKeepsOverlays ==
    ASSUME ConstantsAssumption, TypeInv, PublishedOverlayExists, NEW i \in Items,
           NEW a \in Actors, NEW t \in ContentTypes, NEW e \in Entities \cup {None},
           NEW p \in Payloads, CreateDraft(i, a, t, e, p)
    PROVE  PublishedOverlayExists'
<1>1. items'[i].status = "draft"
    BY DEF TypeInv, TypeOK, CreateDraft, NewRow
<1>2. \A j \in Items \ {i} : items'[j] = items[j]
    BY DEF TypeInv, TypeOK, CreateDraft
<1> QED BY <1>1, <1>2 DEF PublishedOverlayExists

\* An item that is published or archived, by whatever route it came there,
\* overlays an entity the canonical tables hold: no later operation loses what
\* publish() looked up.
THEOREM OverlaysAreCanonical == ConstantsAssumption /\ Spec => []PublishedOverlayExists
<1> SUFFICES ASSUME ConstantsAssumption PROVE Spec => []PublishedOverlayExists
    OBVIOUS
<1> DEFINE Inv == HistoryInv /\ PublishedOverlayExists
<1>1. Init => Inv
    <2>1. Init => HistoryInv
        BY HistoryInvIsInductive
    <2>2. Init => PublishedOverlayExists
        BY DEF Init, PublishedOverlayExists, AbsentRow
    <2> QED BY <2>1, <2>2
<1>2. Inv /\ [Next]_vars => Inv'
    <2>1. Inv /\ [Next]_vars => HistoryInv'
        BY HistoryInvIsInductive
    <2>2. ASSUME Inv, Next PROVE PublishedOverlayExists'
        BY <2>2, NextIsCreateOrPerform, CreateDraftKeepsOverlays, PerformKeepsOverlays
        DEF HistoryInv
    <2>3. ASSUME Inv, UNCHANGED vars PROVE PublishedOverlayExists'
        BY <2>3 DEF vars, PublishedOverlayExists
    <2> QED BY <2>1, <2>2, <2>3
<1>3. Inv => PublishedOverlayExists
    OBVIOUS
<1> QED BY <1>1, <1>2, <1>3, PTL DEF Spec

\* The three parts of TranslationsVerified.
VerifiedAt(i, n) == \E e \in audit[i] : e.action = "verify_translation" /\ e.versionNumber = n

RowsAreVerified ==
    \A t \in translations : \E i \in Items : \E n \in DOMAIN versions[i] :
        VerifiedAt(i, n) /\ t = <<items[i].entityId, versions[i][n].snapshotPayload>>

VerificationsHaveRows ==
    \A i \in Items : \A n \in DOMAIN versions[i] :
        VerifiedAt(i, n) => <<items[i].entityId, versions[i][n].snapshotPayload>> \in translations

ProposalIsPublishedText(i) ==
    ~ServiceSurface /\ items[i].contentType = "translation" /\ items[i].status = "published" =>
        <<items[i].entityId, items[i].stagedPayload>> \in translations

LEMMA TranslationParts ==
    TranslationsVerified <=> /\ RowsAreVerified
                             /\ VerificationsHaveRows
                             /\ \A i \in Items : ProposalIsPublishedText(i)
BY DEF TranslationsVerified, RowsAreVerified, VerificationsHaveRows, ProposalIsPublishedText,
    VerifiedAt

\* A step keeps every verification on record, and adds one just when it is
\* the verification of a proposal.
LEMMA PerformVerifies ==
    ASSUME ConstantsAssumption, HistoryInv, NEW i \in Items, NEW op \in Op, Perform(i, op),
           NEW last, last = items[i].currentVersion
    PROVE  /\ \A n \in 1..last : VerifiedAt(i, n)' <=> VerifiedAt(i, n)
           /\ VerifiedAt(i, last + 1)' <=> op.kind = "verify_translation"
<1> DEFINE event == NewAuditEvent(op, items[i])
<1>1. /\ last \in Nat \ {0}
      /\ DOMAIN versions[i] = 1..last
      /\ audit'[i] = audit[i] \cup {event}
    BY PerformStep DEF HistoryInv
<1>2. \A e \in audit[i] : e.versionNumber \in 1..last
    BY <1>1 DEF HistoryInv, HistoryComplete, OneEventPerVersion
<1>3. /\ event.versionNumber = last + 1
      /\ event.action = "verify_translation" <=> op.kind = "verify_translation"
    BY DEF NewAuditEvent, Op, Kinds
<1> HIDE DEF event
<1>4. ASSUME NEW n \in 1..last PROVE VerifiedAt(i, n)' <=> VerifiedAt(i, n)
    <2>1. event.versionNumber # n
        BY <1>1, <1>3
    <2> QED BY <1>1, <2>1 DEF VerifiedAt
<1>5. VerifiedAt(i, last + 1)' <=> op.kind = "verify_translation"
    <2>1. \A e \in audit[i] : e.versionNumber # last + 1
        BY <1>1, <1>2
    <2>2. event \in audit'[i]
        BY <1>1
    <2>3. ASSUME VerifiedAt(i, last + 1)' PROVE op.kind = "verify_translation"
        <3>1. PICK e \in audit'[i] : e.action = "verify_translation" /\ e.versionNumber = last + 1
            BY <2>3 DEF VerifiedAt
        <3>2. e = event
            BY <1>1, <2>1, <3>1
        <3> QED BY <1>3, <3>1, <3>2
    <2>4. ASSUME op.kind = "verify_translation" PROVE VerifiedAt(i, last + 1)'
        <3>1. event.action = "verify_translation" /\ event.versionNumber = last + 1
            BY <1>3, <2>4
        <3> QED BY <2>2, <3>1 DEF VerifiedAt
    <2> QED BY <2>3, <2>4
<1> QED BY <1>4, <1>5

LEMMA PerformKeepsTranslations ==
    ASSUME ConstantsAssumption, HistoryInv, TranslationsVerified,
           NEW i \in Items, NEW op \in Op, Perform(i, op)
    PROVE  TranslationsVerified'
<1> DEFINE row == <<items[i].entityId, items[i].stagedPayload>>
<1> PICK last : last = items[i].currentVersion
    OBVIOUS
<1>1. /\ last \in Nat \ {0}
      /\ DOMAIN versions[i] = 1..last
      /\ DOMAIN versions'[i] = 1..(last + 1)
      /\ versions'[i][last + 1] = NewSnapshot(op, items[i], versions[i])
      /\ \A n \in 1..last : versions'[i][n] = versions[i][n]
      /\ items'[i].stagedPayload = NextPayload(op, items[i].stagedPayload, versions[i])
    BY PerformStep DEF HistoryInv
<1>2. /\ items'[i].contentType = items[i].contentType
      /\ items'[i].entityId = items[i].entityId
      /\ items'[i].status = ToStatus(op, items[i].status)
      /\ items[i].status \in Statuses
    BY PerformKeepsIdentity DEF HistoryInv
<1>3. /\ \A n \in 1..last : VerifiedAt(i, n)' <=> VerifiedAt(i, n)
      /\ VerifiedAt(i, last + 1)' <=> op.kind = "verify_translation"
    BY PerformVerifies
<1>4. translations' = IF op.kind = "verify_translation" THEN translations \cup {row}
                                                       ELSE translations
    BY DEF Perform, NewTranslations
<1>5. op.kind = "verify_translation" =>
          <<items'[i].entityId, versions'[i][last + 1].snapshotPayload>> = row
    BY <1>1, <1>2 DEF NewSnapshot, NextPayload
<1>6. ASSUME NEW j \in Items \ {i}
      PROVE  /\ items'[j] = items[j] /\ versions'[j] = versions[j]
             /\ \A n : VerifiedAt(j, n)' <=> VerifiedAt(j, n)
    BY PerformFrame DEF HistoryInv, VerifiedAt
<1>7. RowsAreVerified'
    <2> SUFFICES ASSUME NEW t \in translations'
                 PROVE  \E j \in Items : \E n \in DOMAIN versions'[j] :
                           /\ VerifiedAt(j, n)'
                           /\ t = <<items'[j].entityId, versions'[j][n].snapshotPayload>>
        BY DEF RowsAreVerified
    <2>1. CASE t \in translations
        <3>1. PICK j \in Items : \E n \in DOMAIN versions[j] :
                  VerifiedAt(j, n) /\ t = <<items[j].entityId, versions[j][n].snapshotPayload>>
            BY <2>1, TranslationParts DEF RowsAreVerified
        <3>2. PICK n \in DOMAIN versions[j] :
                  VerifiedAt(j, n) /\ t = <<items[j].entityId, versions[j][n].snapshotPayload>>
            BY <3>1
        <3>3. CASE j = i
            <4>1. n \in 1..last /\ n \in DOMAIN versions'[i]
                BY <1>1, <3>2, <3>3
            <4> QED BY <1>1, <1>2, <1>3, <3>2, <3>3, <4>1
        <3>4. CASE j # i
            BY <1>6, <3>2, <3>4
        <3> QED BY <3>3, <3>4
    <2>2. CASE t \notin translations
        <3>1. op.kind = "verify_translation" /\ t = row
            BY <1>4, <2>2
        <3>2. last + 1 \in DOMAIN versions'[i] /\ VerifiedAt(i, last + 1)'
            BY <1>1, <1>3, <3>1
        <3>3. t = <<items'[i].entityId, versions'[i][last + 1].snapshotPayload>>
            BY <1>5, <3>1
        <3> QED BY <3>2, <3>3
    <2> QED BY <2>1, <2>2
<1>8. VerificationsHaveRows'
    <2> SUFFICES ASSUME NEW j \in Items, NEW n \in DOMAIN versions'[j], VerifiedAt(j, n)'
                 PROVE  <<items'[j].entityId, versions'[j][n].snapshotPayload>> \in translations'
        BY DEF VerificationsHaveRows
    <2>1. translations \subseteq translations'
        BY <1>4
    <2>2. CASE j # i
        BY <1>6, <2>1, <2>2, TranslationParts DEF VerificationsHaveRows
    <2>3. CASE j = i /\ n \in 1..last
        BY <1>1, <1>2, <1>3, <2>1, <2>3, TranslationParts DEF VerificationsHaveRows
    <2>4. CASE j = i /\ n = last + 1
        BY <1>3, <1>4, <1>5, <2>4
    <2>5. j = i => n \in 1..last \/ n = last + 1
        BY <1>1
    <2> QED BY <2>2, <2>3, <2>4, <2>5
<1>9. ASSUME NEW j \in Items PROVE ProposalIsPublishedText(j)'
    <2>1. CASE j # i
        BY <1>4, <1>6, <2>1, TranslationParts DEF ProposalIsPublishedText
    <2>2. CASE j = i
        <3> SUFFICES ASSUME ~ServiceSurface, items[i].contentType = "translation",
                            ToStatus(op, items[i].status) = "published"
                     PROVE  op.kind = "verify_translation"
            BY <1>1, <1>2, <1>4, <2>2 DEF ProposalIsPublishedText, NextPayload
        <3>1. op.kind \in TranslationRoutes
            BY DEF Perform, RowGuard, Exposed
        <3> QED BY <3>1 DEF TranslationRoutes, ToStatus
    <2> QED BY <2>1, <2>2
<1> QED
    <2>1. (/\ RowsAreVerified
           /\ VerificationsHaveRows
           /\ \A j \in Items : ProposalIsPublishedText(j))' => TranslationsVerified'
        BY DEF TranslationsVerified, RowsAreVerified, VerificationsHaveRows,
            ProposalIsPublishedText, VerifiedAt
    <2> QED BY <1>7, <1>8, <1>9, <2>1

LEMMA CreateDraftKeepsTranslations ==
    ASSUME ConstantsAssumption, HistoryInv, TranslationsVerified, NEW i \in Items,
           NEW a \in Actors, NEW t \in ContentTypes, NEW e \in Entities \cup {None},
           NEW p \in Payloads, CreateDraft(i, a, t, e, p)
    PROVE  TranslationsVerified'
<1>1. DOMAIN versions[i] = {}
    BY DEF HistoryInv, HistoryComplete, NumberedWithoutGap, TypeInv, StoredItems, CreateDraft
<1>2. items'[i].status = "draft" /\ translations' = translations
    BY DEF HistoryInv, TypeInv, TypeOK, CreateDraft, NewRow
<1>3. ~VerifiedAt(i, 1)' /\ DOMAIN versions'[i] = {1}
    <2>1. audit[i] = {}
        BY <1>1 DEF HistoryInv, HistoryComplete, OneEventPerVersion
    <2>2. \A e1 \in audit'[i] : e1.action = "create_draft"
        BY <2>1 DEF HistoryInv, TypeInv, TypeOK, CreateDraft
    <2>3. DOMAIN versions'[i] = {1}
        BY <1>1 DEF HistoryInv, TypeInv, TypeOK, CreateDraft, AddVersion
    <2> QED BY <2>2, <2>3 DEF VerifiedAt
<1>4. ASSUME NEW j \in Items \ {i}
      PROVE  /\ items'[j] = items[j] /\ versions'[j] = versions[j]
             /\ \A n : VerifiedAt(j, n)' <=> VerifiedAt(j, n)
    BY DEF HistoryInv, TypeInv, TypeOK, CreateDraft, VerifiedAt
<1>5. RowsAreVerified'
    <2> SUFFICES ASSUME NEW r \in translations
                 PROVE  \E j \in Items : \E n \in DOMAIN versions'[j] :
                           /\ VerifiedAt(j, n)'
                           /\ r = <<items'[j].entityId, versions'[j][n].snapshotPayload>>
        BY <1>2 DEF RowsAreVerified
    <2>1. PICK j \in Items : \E n \in DOMAIN versions[j] :
              VerifiedAt(j, n) /\ r = <<items[j].entityId, versions[j][n].snapshotPayload>>
        BY TranslationParts DEF RowsAreVerified
    <2>2. j # i
        BY <1>1, <2>1
    <2> QED BY <1>4, <2>1, <2>2
<1>6. VerificationsHaveRows'
    BY <1>2, <1>3, <1>4, TranslationParts DEF VerificationsHaveRows
<1>7. \A j \in Items : ProposalIsPublishedText(j)'
    BY <1>2, <1>4, TranslationParts DEF ProposalIsPublishedText
<1> QED
    <2>1. (/\ RowsAreVerified
           /\ VerificationsHaveRows
           /\ \A j \in Items : ProposalIsPublishedText(j))' => TranslationsVerified'
        BY DEF TranslationsVerified, RowsAreVerified, VerificationsHaveRows,
            ProposalIsPublishedText, VerifiedAt
    <2> QED BY <1>5, <1>6, <1>7, <2>1

\* The rows of entity_translations and the verifications on record are the same
\* facts, on either surface; and through the HTTP routes the text of a published
\* proposal is the one that was verified.
THEOREM VerifiedTranslationsAreRecorded == ConstantsAssumption /\ Spec => []TranslationsVerified
<1> SUFFICES ASSUME ConstantsAssumption PROVE Spec => []TranslationsVerified
    OBVIOUS
<1> DEFINE Inv == HistoryInv /\ TranslationsVerified
<1>1. Init => Inv
    <2>1. Init => HistoryInv
        BY HistoryInvIsInductive
    <2>2. Init => TranslationsVerified
        BY DEF Init, TranslationsVerified, AbsentRow
    <2> QED BY <2>1, <2>2
<1>2. Inv /\ [Next]_vars => Inv'
    <2>1. Inv /\ [Next]_vars => HistoryInv'
        BY HistoryInvIsInductive
    <2>2. ASSUME Inv, Next PROVE TranslationsVerified'
        BY <2>2, NextIsCreateOrPerform, CreateDraftKeepsTranslations, PerformKeepsTranslations
    <2>3. ASSUME Inv, UNCHANGED vars PROVE TranslationsVerified'
        BY <2>3 DEF vars, TranslationsVerified
    <2> QED BY <2>1, <2>2, <2>3
<1>3. Inv => TranslationsVerified
    OBVIOUS
<1> QED BY <1>1, <1>2, <1>3, PTL DEF Spec
================================================================================
