------------------------- MODULE CmsTransactionsProofs -------------------------
(***************************************************************************)
(* Proofs that the interleaved transactions of CmsTransactions implement   *)
(* the atomic workflow, for any number of requests, items and versions.    *)
(*                                                                         *)
(* The argument is about what a request has read.  Rows are read without a *)
(* lock, so a request may hold an old row; but an item's version only      *)
(* grows, so an old row has an old version number, and the unique index on *)
(* the version numbers refuses exactly those.  The last part is about who  *)
(* waits for whose locks.                                                  *)
(***************************************************************************)
EXTENDS CmsTransactions, CmsWorkflowProofs

Histories == UNION {[S -> Snapshot] : S \in SUBSET Nat}

TxRecord == [stage : Stages, item : Items \cup {None}, expected : Nat,
             op : Ops \cup {None}, read : Row, history : Histories, row : Row]

Begun(q) == tx[q].stage \in Stages \ {"idle", "open"}

\* The request is about a stored item whose versions are not used up.
ItemOK(q) ==
    tx[q].stage # "idle" =>
        /\ tx[q].item \in Items
        /\ items[tx[q].item].status # "absent"
        /\ tx[q].expected < MaxVersion

\* What it read was good for its operation and is the present row, or older.
ReadOK(q) ==
    Begun(q) =>
        /\ tx[q].op \in Ops
        /\ RowGuard(tx[q].op, tx[q].read)
        /\ tx[q].read.currentVersion = tx[q].expected
        /\ tx[q].expected <= items[tx[q].item].currentVersion
        /\ tx[q].expected = items[tx[q].item].currentVersion => tx[q].read = items[tx[q].item]

\* The versions a rollback listed are still there.
ListOK(q) ==
    Begun(q) /\ tx[q].stage # "begun" /\ tx[q].op.kind = "rollback" =>
        /\ tx[q].op.target \in DOMAIN tx[q].history
        /\ \A n \in DOMAIN tx[q].history :
              /\ n \in DOMAIN versions[tx[q].item]
              /\ versions[tx[q].item][n] = tx[q].history[n]

\* The row its UPDATE landed on is locked.
RowOK(q) ==
    tx[q].stage \in {"updated", "appended"} =>
        tx[q].row = UpdatedRow(tx[q].op, tx[q].read, tx[q].history, items[tx[q].item])

\* Past the index, what it read is the present row.
IndexOK(q) == tx[q].stage = "appended" => tx[q].read = items[tx[q].item]

RequestOK(q) == ItemOK(q) /\ ReadOK(q) /\ ListOK(q) /\ RowOK(q) /\ IndexOK(q)

\* At most one request holds an item.
ItemLocked ==
    \A q, r \in Requests :
        q # r /\ HoldsItem(q, tx[q].item) /\ HoldsItem(r, tx[r].item)
            => tx[q].item # tx[r].item

TxInv ==
    /\ HistoryInv
    /\ tx \in [Requests -> TxRecord]
    /\ \A q \in Requests : RequestOK(q)
    /\ ItemLocked

--------------------------------------------------------------------------------
(* The data of a request.                                                  *)

LEMMA IdleIsRequest == Idle \in TxRecord
<1>1. AbsentRow \in Row
    BY DEF AbsentRow, Row
<1>2. [n \in {} |-> None] \in Histories
    BY DEF Histories
<1> QED BY <1>1, <1>2 DEF Idle, TxRecord, Stages

LEMMA OpsAreOperations ==
    ASSUME ConstantsAssumption
    PROVE  Ops \subseteq Op
BY DEF Ops, Op, Kinds, ConstantsAssumption

LEMMA AddVersionKeeps ==
    ASSUME NEW history, NEW number, NEW snapshot
    PROVE  /\ DOMAIN history \subseteq DOMAIN AddVersion(history, number, snapshot)
           /\ \A n \in DOMAIN history \ {number} :
                 AddVersion(history, number, snapshot)[n] = history[n]
BY DEF AddVersion

\* Every operation that a caller may ask for is an action of the workflow.
LEMMA PerformIsNext ==
    ASSUME ConstantsAssumption, NEW i \in Items, NEW op \in Ops, Perform(i, op)
    PROVE  Next
<1>1. CASE op.kind = "edit"
    <2>1. op \in [kind : {"edit"}, actor : Actors, payload : Payloads, target : {0}]
        BY <1>1 DEF Ops, Kinds
    <2>2. op = [kind |-> "edit", actor |-> op.actor, payload |-> op.payload, target |-> 0]
        BY <2>1
    <2>3. UpdateDraft(i, op.actor, op.payload)
        BY <2>2 DEF UpdateDraft
    <2> QED BY <2>1, <2>3 DEF Next
<1>2. CASE op.kind = "rollback"
    <2>1. op \in [kind : {"rollback"}, actor : Actors, payload : {EmptyPayload},
                  target : 1..MaxVersion]
        BY <1>2 DEF Ops, Kinds
    <2>2. op = [kind |-> "rollback", actor |-> op.actor, payload |-> EmptyPayload,
                target |-> op.target]
        BY <2>1
    <2>3. Rollback(i, op.actor, op.target)
        BY <2>2 DEF Rollback
    <2> QED BY <2>1, <2>3 DEF Next
<1>3. CASE op.kind \in Kinds \ {"edit", "rollback"}
    <2>1. op \in [kind : Kinds \ {"edit", "rollback"}, actor : Actors,
                  payload : {EmptyPayload}, target : {0}]
        BY <1>3 DEF Ops
    <2>2. op = Plain(op.kind, op.actor)
        BY <2>1 DEF Plain
    <2>3. Perform(i, Plain(op.kind, op.actor)) /\ op.actor \in Actors
        BY <2>1, <2>2
    <2> QED BY <1>3, <2>3 DEF Kinds, Next, SubmitForReview, RequestChanges, Approve,
        ApproveWithAdminOverride, VerifyTranslationProposal, Schedule, Publish, Archive
<1> QED BY <1>1, <1>2, <1>3 DEF Ops, Kinds
--------------------------------------------------------------------------------
(* What a step of the workflow does to an item that exists.                *)

\* A stored item stays as it is or gets a later version, next to the others.
Grows(i) ==
    \/ items'[i] = items[i] /\ versions'[i] = versions[i]
    \/ /\ items'[i].currentVersion \in Nat
       /\ items'[i].currentVersion > items[i].currentVersion
       /\ items'[i].status # "absent"
       /\ \A n \in DOMAIN versions[i] :
             n \in DOMAIN versions'[i] /\ versions'[i][n] = versions[i][n]

LEMMA StoredItemsGrow ==
    ASSUME ConstantsAssumption, HistoryInv, Next \/ UNCHANGED vars, NEW i \in Items,
           items[i].status # "absent"
    PROVE  Grows(i)
<1>1. CASE UNCHANGED vars
    BY <1>1 DEF vars, Grows
<1>2. ASSUME NEW j \in Items, NEW a \in Actors, NEW t \in ContentTypes,
             NEW e \in Entities \cup {None}, NEW p \in Payloads, CreateDraft(j, a, t, e, p)
      PROVE  Grows(i)
    <2>1. j # i
        BY <1>2 DEF CreateDraft
    <2>2. items'[i] = items[i] /\ versions'[i] = versions[i]
        BY <1>2, <2>1 DEF CreateDraft, HistoryInv, TypeInv, TypeOK
    <2> QED BY <2>2 DEF Grows
<1>3. ASSUME NEW j \in Items, NEW op \in Op, Perform(j, op)
      PROVE  Grows(i)
    <2>1. CASE j # i
        <3>1. items'[i] = items[i] /\ versions'[i] = versions[i]
            BY <1>3, <2>1, PerformFrame DEF HistoryInv
        <3> QED BY <3>1 DEF Grows
    <2>2. CASE j = i
        <3>1. Perform(i, op)
            BY <1>3, <2>2
        <3>2. /\ items'[i].currentVersion = items[i].currentVersion + 1
              /\ items'[i].status = ToStatus(op, items[i].status)
              /\ items[i].currentVersion \in Nat \ {0}
              /\ DOMAIN versions[i] = 1..items[i].currentVersion
              /\ DOMAIN versions'[i] = 1..(items[i].currentVersion + 1)
              /\ \A n \in 1..items[i].currentVersion : versions'[i][n] = versions[i][n]
            BY <3>1, PerformStep DEF HistoryInv
        <3>3. items'[i].status # "absent"
            BY <3>2, ToStatusType DEF Statuses
        <3> QED BY <3>2, <3>3 DEF Grows
    <2> QED BY <2>1, <2>2
<1>4. CASE Next
    BY <1>2, <1>3, <1>4, NextIsCreateOrPerform
<1> QED BY <1>1, <1>4

--------------------------------------------------------------------------------
(* Steps of one request seen by another, and by itself.                    *)

\* What a request knows survives the steps of others: rows it read grow
\* older, and the item it holds is left alone.
LEMMA OthersKeep ==
    ASSUME TxInv, NEW q \in Requests, tx'[q] = tx[q],
           tx[q].stage # "idle" => Grows(tx[q].item),
           tx[q].stage \in {"updated", "appended"} => items'[tx[q].item] = items[tx[q].item]
    PROVE  RequestOK(q)'
<1> DEFINE i == tx[q].item
<1>1. RequestOK(q) /\ tx[q] \in TxRecord /\ HistoryInv
    BY DEF TxInv
<1>2. CASE tx[q].stage = "idle"
    BY <1>2 DEF RequestOK, ItemOK, ReadOK, ListOK, RowOK, IndexOK, Begun
<1>3. CASE tx[q].stage # "idle"
    <2>1. i \in Items /\ items[i].status # "absent" /\ tx[q].expected < MaxVersion
        BY <1>1, <1>3 DEF RequestOK, ItemOK
    <2>2. items[i].currentVersion \in Nat /\ tx[q].expected \in Nat
        BY <1>1, <2>1 DEF HistoryInv, TypeInv, TypeOK, Row, TxRecord
    <2>3. CASE items'[i] = items[i] /\ versions'[i] = versions[i]
        BY <1>1, <2>1, <2>3 DEF RequestOK, ItemOK, ReadOK, ListOK, RowOK, IndexOK, Begun
    <2>4. CASE /\ items'[i].currentVersion \in Nat
               /\ items'[i].currentVersion > items[i].currentVersion
               /\ items'[i].status # "absent"
               /\ \A n \in DOMAIN versions[i] :
                     n \in DOMAIN versions'[i] /\ versions'[i][n] = versions[i][n]
        <3>1. ItemOK(q)'
            BY <2>1, <2>4 DEF ItemOK
        <3>2. tx[q].stage \notin {"updated", "appended"}
            BY <2>2, <2>4
        <3>3. RowOK(q)' /\ IndexOK(q)'
            BY <3>2 DEF RowOK, IndexOK
        <3>4. ListOK(q)'
            BY <1>1, <2>4 DEF RequestOK, ListOK, Begun
        <3>5. ReadOK(q)'
            <4>1. CASE ~Begun(q)
                BY <4>1 DEF ReadOK, Begun
            <4>2. CASE Begun(q)
                <5>1. /\ tx[q].op \in Ops
                      /\ RowGuard(tx[q].op, tx[q].read)
                      /\ tx[q].read.currentVersion = tx[q].expected
                      /\ tx[q].expected <= items[i].currentVersion
                    BY <1>1, <4>2 DEF RequestOK, ReadOK
                <5>2. items'[i].currentVersion >= items[i].currentVersion
                    BY <2>2, <2>4
                <5>3. tx[q].expected <= items'[i].currentVersion
                      /\ tx[q].expected # items'[i].currentVersion
                    BY <2>2, <2>4, <5>1
                <5> QED BY <5>1, <5>3 DEF ReadOK, Begun
            <4> QED BY <4>1, <4>2
        <3> QED BY <3>1, <3>3, <3>4, <3>5 DEF RequestOK
    <2> QED BY <1>3, <2>3, <2>4 DEF Grows
<1> QED BY <1>2, <1>3
\* A step of q that writes no table is judged by what it does to q.
LEMMA OwnStep ==
    ASSUME TxInv, NEW q \in Requests, tx' \in [Requests -> TxRecord],
           \A r \in Requests \ {q} : tx'[r] = tx[r], UNCHANGED vars, RequestOK(q)',
           HoldsItem(q, tx[q].item)' => ItemFree(q, tx'[q].item)
    PROVE  TxInv'
<1>1. HistoryInv'
    BY DEF TxInv, vars, HistoryInv, TypeInv, TypeOK, StoredItems, HistoryComplete,
        NumberedWithoutGap, NewestSnapshotIsStored, OneEventPerVersion
<1>2. ASSUME NEW r \in Requests \ {q} PROVE RequestOK(r)'
    BY <1>2, OthersKeep DEF vars, Grows
<1>3. ItemLocked'
    BY DEF TxInv, ItemLocked, ItemFree, HoldsItem
<1> QED BY <1>1, <1>2, <1>3 DEF TxInv

LEMMA OpenKeeps ==
    ASSUME TxInv, NEW q \in Requests, NEW i \in Items, Open(q, i)
    PROVE  TxInv'
<1> DEFINE t == [Idle EXCEPT !.stage = "open", !.item = i,
                             !.expected = items[i].currentVersion]
<1>1. items[i].currentVersion \in Nat
    BY DEF TxInv, HistoryInv, TypeInv, TypeOK, Row
<1>2. t \in TxRecord /\ t.stage = "open" /\ t.item = i
      /\ t.expected = items[i].currentVersion
    BY <1>1, IdleIsRequest DEF TxRecord, Stages, Idle
<1>3. tx' = [tx EXCEPT ![q] = t] /\ UNCHANGED vars
    BY DEF Open
<1>4. tx' \in [Requests -> TxRecord] /\ tx'[q] = t
      /\ \A r \in Requests \ {q} : tx'[r] = tx[r]
    BY <1>2, <1>3 DEF TxInv
<1>5. RequestOK(q)'
    <2>1. items'[i] = items[i]
        BY <1>3 DEF vars
    <2>2. ItemOK(q)'
        BY <1>2, <1>4, <2>1 DEF ItemOK, Open
    <2> QED BY <1>2, <1>4, <2>2 DEF RequestOK, ReadOK, ListOK, RowOK, IndexOK, Begun
<1> QED BY <1>2, <1>3, <1>4, <1>5, OwnStep DEF HoldsItem

LEMMA BeginKeeps ==
    ASSUME ConstantsAssumption, TxInv, NEW q \in Requests, NEW op \in Ops, Begin(q, op)
    PROVE  TxInv'
<1> DEFINE i == tx[q].item
           t == [tx[q] EXCEPT !.stage = "begun", !.op = op, !.read = items[i]]
<1>1. tx[q] \in TxRecord /\ RequestOK(q) /\ tx[q].stage = "open"
    BY DEF TxInv, Begin
<1>2. i \in Items /\ items[i].status # "absent" /\ tx[q].expected < MaxVersion
    BY <1>1 DEF RequestOK, ItemOK
<1>3. items[i] \in Row /\ tx[q].expected \in Nat /\ tx[q].expected = items[i].currentVersion
    BY <1>1, <1>2 DEF TxInv, HistoryInv, TypeInv, TypeOK, Begin, AssertExpectedVersion, TxRecord
<1>4. UNCHANGED vars /\ RowGuard(op, items[i])
      /\ tx' = [tx EXCEPT ![q].stage = "begun", ![q].op = op, ![q].read = items[i]]
    BY DEF Begin
<1>5. /\ t \in TxRecord
      /\ t.stage = "begun"
      /\ t.op = op
      /\ t.read = items[i]
      /\ t.item = i
      /\ t.expected = tx[q].expected
    BY <1>1, <1>3 DEF TxRecord, Stages
<1>6. tx' = [tx EXCEPT ![q] = t]
    BY <1>4 DEF TxInv
<1>7. tx' \in [Requests -> TxRecord] /\ tx'[q] = t
      /\ \A r \in Requests \ {q} : tx'[r] = tx[r]
    BY <1>5, <1>6 DEF TxInv
<1>8. RequestOK(q)'
    <2>1. items' = items
        BY <1>4 DEF vars
    <2>2. ItemOK(q)'
        BY <1>2, <1>5, <1>7, <2>1 DEF ItemOK
    <2>3. ReadOK(q)'
        BY <1>3, <1>4, <1>5, <1>7, <2>1 DEF ReadOK
    <2> QED BY <1>5, <1>7, <2>2, <2>3 DEF RequestOK, ListOK, RowOK, IndexOK
<1> QED BY <1>4, <1>5, <1>7, <1>8, OwnStep DEF HoldsItem
\* Its later steps leave a request what it read.
LEMMA OwnReadKeeps ==
    ASSUME TxInv, NEW q \in Requests, Begun(q), UNCHANGED vars,
           tx'[q].item = tx[q].item, tx'[q].expected = tx[q].expected,
           tx'[q].op = tx[q].op, tx'[q].read = tx[q].read
    PROVE  ItemOK(q)' /\ ReadOK(q)'
<1>1. items' = items
    BY DEF vars
<1>2. /\ tx[q].stage # "idle"
      /\ ItemOK(q)
      /\ ReadOK(q)
    BY DEF TxInv, RequestOK, Begun
<1> QED BY <1>1, <1>2 DEF ItemOK, ReadOK

LEMMA ListKeeps ==
    ASSUME TxInv, NEW q \in Requests, List(q)
    PROVE  TxInv'
<1> DEFINE i == tx[q].item
           t == [tx[q] EXCEPT !.stage = "listed", !.history = versions[i]]
<1>1. tx[q] \in TxRecord /\ RequestOK(q) /\ tx[q].stage = "begun"
      /\ tx[q].op.kind = "rollback"
    BY DEF TxInv, List
<1>2. i \in Items
    BY <1>1 DEF RequestOK, ItemOK
<1>3. versions[i] \in Histories
    BY <1>2 DEF TxInv, HistoryInv, TypeInv, TypeOK, Histories
<1>4. tx[q].op.target \in DOMAIN versions[i]
    BY <1>1 DEF List, TargetGuard
<1>5. /\ t \in TxRecord
      /\ t.stage = "listed"
      /\ t.item = i
      /\ t.expected = tx[q].expected
      /\ t.op = tx[q].op
      /\ t.read = tx[q].read
      /\ t.history = versions[i]
      /\ t.row = tx[q].row
    BY <1>1, <1>3 DEF TxRecord, Stages
<1>6. tx' = [tx EXCEPT ![q] = t] /\ UNCHANGED vars
    BY DEF List, TxInv
<1>7. tx' \in [Requests -> TxRecord] /\ tx'[q] = t
      /\ \A r \in Requests \ {q} : tx'[r] = tx[r]
    BY <1>5, <1>6 DEF TxInv
<1>8. RequestOK(q)'
    <2>1. items' = items /\ versions' = versions
        BY <1>6 DEF vars
    <2>2. ItemOK(q)' /\ ReadOK(q)'
        BY <1>1, <1>5, <1>6, <1>7, OwnReadKeeps DEF Begun, Stages
    <2>3. ListOK(q)'
        BY <1>4, <1>5, <1>7, <2>1 DEF ListOK
    <2> QED BY <1>5, <1>7, <2>2, <2>3 DEF RequestOK, RowOK, IndexOK
<1> QED BY <1>5, <1>6, <1>7, <1>8, OwnStep DEF HoldsItem

LEMMA TranslateKeeps ==
    ASSUME TxInv, NEW q \in Requests, Translate(q)
    PROVE  TxInv'
<1> DEFINE i == tx[q].item
           t == [tx[q] EXCEPT !.stage = "translated"]
<1>1. tx[q] \in TxRecord /\ RequestOK(q) /\ tx[q].stage = "begun"
      /\ tx[q].op.kind = "verify_translation"
    BY DEF TxInv, Translate
<1>2. /\ t \in TxRecord
      /\ t.stage = "translated"
      /\ t.item = i
      /\ t.expected = tx[q].expected
      /\ t.op = tx[q].op
      /\ t.read = tx[q].read
      /\ t.history = tx[q].history
      /\ t.row = tx[q].row
    BY <1>1 DEF TxRecord, Stages
<1>3. tx' = [tx EXCEPT ![q] = t] /\ UNCHANGED vars
    BY DEF Translate, TxInv
<1>4. tx' \in [Requests -> TxRecord] /\ tx'[q] = t
      /\ \A r \in Requests \ {q} : tx'[r] = tx[r]
    BY <1>2, <1>3 DEF TxInv
<1>5. RequestOK(q)'
    <2>1. items' = items /\ versions' = versions
        BY <1>3 DEF vars
    <2>2. ItemOK(q)' /\ ReadOK(q)'
        BY <1>1, <1>2, <1>3, <1>4, OwnReadKeeps DEF Begun, Stages
    <2> QED BY <1>1, <1>2, <1>4, <2>2 DEF RequestOK, ListOK, RowOK, IndexOK
<1> QED BY <1>2, <1>3, <1>4, <1>5, OwnStep DEF HoldsItem

\* The row an UPDATE writes is a row of the table.
LEMMA PendingRowType ==
    ASSUME ConstantsAssumption, TxInv, NEW q \in Requests, Begun(q),
           tx[q].op.kind = "rollback" => tx[q].stage # "begun"
    PROVE  UpdatedRow(tx[q].op, tx[q].read, tx[q].history, items[tx[q].item]) \in Row
<1> DEFINE i == tx[q].item
           op == tx[q].op
<1>1. tx[q] \in TxRecord /\ RequestOK(q) /\ tx[q].stage # "idle"
    BY DEF TxInv, Begun
<1>2. i \in Items /\ items[i].status # "absent"
    BY <1>1 DEF RequestOK, ItemOK
<1>3. items[i] \in Row /\ items[i].stagedPayload \in Payloads
    BY <1>2 DEF TxInv, HistoryInv, TypeInv, TypeOK, StoredItems
<1>4. op \in Op
    BY <1>1, OpsAreOperations DEF RequestOK, ReadOK
<1>5. PICK S \in SUBSET Nat : tx[q].history \in [S -> Snapshot]
    BY <1>1 DEF TxRecord, Histories
<1>6. op.kind = "rollback" => op.target \in S
    BY <1>1, <1>5 DEF RequestOK, ListOK
<1>7. NextPayload(op, items[i].stagedPayload, tx[q].history) \in Payloads
    BY <1>3, <1>4, <1>5, <1>6, NextPayloadType
<1>8. NextReviewer(op, tx[q].read.status, items[i].reviewerId) \in Actors \cup {None}
    BY <1>3, <1>4, NextReviewerType DEF Row
<1>9. ToStatus(op, tx[q].read.status) \in Statuses /\ tx[q].read.currentVersion + 1 \in Nat
    BY <1>1, <1>4, ToStatusType DEF TxRecord, Row
<1> QED BY <1>3, <1>7, <1>8, <1>9, UpdatedRowType DEF UpdatedRow

LEMMA UpdateKeeps ==
    ASSUME ConstantsAssumption, TxInv, NEW q \in Requests, Update(q)
    PROVE  TxInv'
<1> DEFINE i == tx[q].item
           row == UpdatedRow(tx[q].op, tx[q].read, tx[q].history, items[i])
           t == [tx[q] EXCEPT !.stage = "updated", !.row = row]
<1>1. /\ tx[q] \in TxRecord
      /\ RequestOK(q)
      /\ Begun(q)
      /\ tx[q].op.kind = "rollback" => tx[q].stage # "begun"
    BY DEF TxInv, Update, Begun, Stages
<1>2. row \in Row
    BY <1>1, PendingRowType
<1> HIDE DEF row
<1>3. /\ t \in TxRecord
      /\ t.stage = "updated"
      /\ t.item = i
      /\ t.expected = tx[q].expected
      /\ t.op = tx[q].op
      /\ t.read = tx[q].read
      /\ t.history = tx[q].history
      /\ t.row = row
    BY <1>1, <1>2 DEF TxRecord, Stages
<1>4. tx' = [tx EXCEPT ![q] = t] /\ UNCHANGED vars /\ ItemFree(q, i)
    BY DEF Update, TxInv, row
<1>5. tx' \in [Requests -> TxRecord] /\ tx'[q] = t
      /\ \A r \in Requests \ {q} : tx'[r] = tx[r]
    BY <1>3, <1>4 DEF TxInv
<1>6. RequestOK(q)'
    <2>1. items' = items /\ versions' = versions
        BY <1>4 DEF vars
    <2>2. ItemOK(q)' /\ ReadOK(q)'
        BY <1>1, <1>3, <1>4, <1>5, OwnReadKeeps
    <2>3. ListOK(q)'
        BY <1>1, <1>3, <1>5, <2>1 DEF RequestOK, ListOK, Begun
    <2>4. RowOK(q)'
        BY <1>3, <1>5, <2>1 DEF RowOK, row
    <2> QED BY <1>3, <1>5, <2>2, <2>3, <2>4 DEF RequestOK, IndexOK
<1> QED BY <1>3, <1>4, <1>5, <1>6, OwnStep

\* The unique index lets a request pass only if what it read is the present row.
LEMMA IndexRefusesOldRows ==
    ASSUME TxInv, NEW q \in Requests, AppendVersion(q)
    PROVE  tx[q].read = items[tx[q].item]
<1> DEFINE i == tx[q].item
           last == items[i].currentVersion
<1>1. RequestOK(q) /\ tx[q] \in TxRecord /\ tx[q].stage = "updated"
    BY DEF TxInv, AppendVersion
<1>2. i \in Items
    BY <1>1 DEF RequestOK, ItemOK
<1>3. last \in Nat /\ tx[q].expected \in Nat /\ DOMAIN versions[i] = 1..last
    BY <1>1, <1>2 DEF TxInv, HistoryInv, TypeInv, TypeOK, Row, TxRecord, HistoryComplete,
        NumberedWithoutGap
<1>4. /\ tx[q].read.currentVersion = tx[q].expected
      /\ tx[q].expected <= last
      /\ tx[q].expected = last => tx[q].read = items[i]
    BY <1>1 DEF RequestOK, ReadOK, Begun, Stages
<1>5. tx[q].expected + 1 \notin 1..last
    BY <1>3, <1>4 DEF AppendVersion, VersionIsNew
<1> QED BY <1>3, <1>4, <1>5

LEMMA AppendVersionKeeps ==
    ASSUME TxInv, NEW q \in Requests, AppendVersion(q)
    PROVE  TxInv'
<1> DEFINE i == tx[q].item
           t == [tx[q] EXCEPT !.stage = "appended"]
<1>1. tx[q] \in TxRecord /\ RequestOK(q) /\ tx[q].stage = "updated"
    BY DEF TxInv, AppendVersion
<1>2. /\ t \in TxRecord
      /\ t.stage = "appended"
      /\ t.item = i
      /\ t.expected = tx[q].expected
      /\ t.op = tx[q].op
      /\ t.read = tx[q].read
      /\ t.history = tx[q].history
      /\ t.row = tx[q].row
    BY <1>1 DEF TxRecord, Stages
<1>3. tx' = [tx EXCEPT ![q] = t] /\ UNCHANGED vars
    BY DEF AppendVersion, TxInv
<1>4. tx' \in [Requests -> TxRecord] /\ tx'[q] = t
      /\ \A r \in Requests \ {q} : tx'[r] = tx[r]
    BY <1>2, <1>3 DEF TxInv
<1>5. RequestOK(q)'
    <2>1. items' = items /\ versions' = versions
        BY <1>3 DEF vars
    <2>2. ItemOK(q)' /\ ReadOK(q)'
        BY <1>1, <1>2, <1>3, <1>4, OwnReadKeeps DEF Begun, Stages
    <2>3. ListOK(q)' /\ RowOK(q)'
        BY <1>1, <1>2, <1>4, <2>1 DEF RequestOK, ListOK, RowOK, Begun, Stages
    <2>4. IndexOK(q)'
        BY <1>2, <1>4, <2>1, IndexRefusesOldRows DEF IndexOK
    <2> QED BY <2>2, <2>3, <2>4 DEF RequestOK
<1>6. ItemFree(q, i)
    BY <1>1 DEF TxInv, ItemLocked, ItemFree, HoldsItem
<1> QED BY <1>2, <1>3, <1>4, <1>5, <1>6, OwnStep

LEMMA AbortKeeps ==
    ASSUME TxInv, NEW q \in Requests, Abort(q)
    PROVE  TxInv'
<1>1. tx' = [tx EXCEPT ![q] = Idle] /\ UNCHANGED vars
    BY DEF Abort
<1>2. tx' \in [Requests -> TxRecord] /\ tx'[q] = Idle
      /\ \A r \in Requests \ {q} : tx'[r] = tx[r]
    BY <1>1, IdleIsRequest DEF TxInv
<1>3. Idle.stage = "idle"
    BY DEF Idle
<1>4. RequestOK(q)'
    BY <1>2, <1>3 DEF RequestOK, ItemOK, ReadOK, ListOK, RowOK, IndexOK, Begun
<1> QED BY <1>1, <1>2, <1>3, <1>4, OwnStep DEF HoldsItem
--------------------------------------------------------------------------------
(* Steps that write the tables.                                            *)

\* A commit is one operation of the workflow on the present row.
LEMMA CommitIsPerform ==
    ASSUME ConstantsAssumption, TxInv, NEW q \in Requests, Commit(q)
    PROVE  /\ tx[q].item \in Items
           /\ tx[q].op \in Ops
           /\ items[tx[q].item].currentVersion = tx[q].expected
           /\ Perform(tx[q].item, tx[q].op)
<1> DEFINE i == tx[q].item
           op == tx[q].op
           history == tx[q].history
<1>1. RequestOK(q) /\ Begun(q) /\ tx[q].stage = "appended"
    BY DEF TxInv, Commit, Begun, Stages
<1>2. i \in Items /\ tx[q].expected < MaxVersion
    BY <1>1 DEF RequestOK, ItemOK, Begun
<1>3. tx[q].read = items[i]
    BY <1>1 DEF RequestOK, IndexOK
<1>4. /\ op \in Ops
      /\ RowGuard(op, items[i])
      /\ items[i].currentVersion = tx[q].expected
    BY <1>1, <1>3 DEF RequestOK, ReadOK
<1>5. op.kind = "rollback" =>
        op.target \in DOMAIN versions[i] /\ versions[i][op.target] = history[op.target]
    BY <1>1 DEF RequestOK, ListOK
<1>6. \A current : NextPayload(op, current, history) = NextPayload(op, current, versions[i])
    BY <1>5 DEF NextPayload
<1>7. tx[q].row = UpdatedRow(op, items[i], versions[i], items[i])
    <2>1. tx[q].row = UpdatedRow(op, items[i], history, items[i])
        BY <1>1, <1>3 DEF RequestOK, RowOK
    <2> QED BY <1>6, <2>1 DEF UpdatedRow
<1>8. NewSnapshot(op, items[i], history) = NewSnapshot(op, items[i], versions[i])
    BY <1>6 DEF NewSnapshot
<1>9. TargetGuard(op, versions[i])
    BY <1>5 DEF TargetGuard
<1>10. /\ items' = [items EXCEPT ![i] = UpdatedRow(op, items[i], versions[i], items[i])]
       /\ versions' = [versions EXCEPT ![i] =
               AddVersion(@, items[i].currentVersion + 1,
                          NewSnapshot(op, items[i], versions[i]))]
       /\ audit' = [audit EXCEPT ![i] = @ \cup {NewAuditEvent(op, items[i])}]
       /\ translations' = translations \cup NewTranslations(op, items[i])
    BY <1>3, <1>7, <1>8 DEF Commit
<1> QED BY <1>2, <1>4, <1>9, <1>10 DEF Perform

LEMMA CommitKeeps ==
    ASSUME ConstantsAssumption, TxInv, NEW q \in Requests, Commit(q)
    PROVE  TxInv'
<1> DEFINE i == tx[q].item
<1>1. i \in Items /\ tx[q].op \in Ops /\ Perform(i, tx[q].op)
    BY CommitIsPerform
<1>2. Next /\ HistoryInv
    BY <1>1, PerformIsNext DEF TxInv
<1>3. HistoryInv'
    BY <1>2, HistoryInvIsInductive
<1>4. tx' = [tx EXCEPT ![q] = Idle] /\ tx[q].stage = "appended"
    BY DEF Commit
<1>5. tx' \in [Requests -> TxRecord] /\ tx'[q].stage = "idle"
      /\ \A r \in Requests \ {q} : tx'[r] = tx[r]
    BY <1>4, IdleIsRequest DEF TxInv, Idle
<1>6. RequestOK(q)'
    BY <1>5 DEF RequestOK, ItemOK, ReadOK, ListOK, RowOK, IndexOK, Begun
<1>7. ASSUME NEW r \in Requests \ {q} PROVE RequestOK(r)'
    <2>1. tx[r].stage # "idle" => Grows(tx[r].item)
        BY <1>2, StoredItemsGrow DEF TxInv, RequestOK, ItemOK
    <2>2. ASSUME tx[r].stage \in {"updated", "appended"}
          PROVE  items'[tx[r].item] = items[tx[r].item]
        <3>1. tx[r].item # i /\ tx[r].item \in Items
            BY <1>4, <2>2 DEF TxInv, ItemLocked, HoldsItem, RequestOK, ItemOK
        <3> QED BY <1>1, <1>2, <3>1, PerformFrame, OpsAreOperations DEF HistoryInv
    <2> QED BY <1>5, <2>1, <2>2, OthersKeep
<1>8. ItemLocked'
    BY <1>5 DEF TxInv, ItemLocked, HoldsItem
<1> QED BY <1>3, <1>5, <1>6, <1>7, <1>8 DEF TxInv

LEMMA CreateIsNext ==
    ASSUME Create
    PROVE  Next
BY DEF Create, Next

LEMMA CreateKeeps ==
    ASSUME ConstantsAssumption, TxInv, Create
    PROVE  TxInv'
<1>1. HistoryInv' /\ Next
    BY CreateIsNext, HistoryInvIsInductive DEF TxInv
<1>2. tx' = tx
    BY DEF Create
<1>3. ASSUME NEW r \in Requests PROVE RequestOK(r)'
    <2>1. tx[r].stage # "idle" => tx[r].item \in Items /\ items[tx[r].item].status # "absent"
        BY DEF TxInv, RequestOK, ItemOK
    <2>2. tx[r].stage # "idle" => Grows(tx[r].item)
        BY <1>1, <2>1, StoredItemsGrow DEF TxInv
    <2>3. ASSUME tx[r].stage # "idle" PROVE items'[tx[r].item] = items[tx[r].item]
        BY <2>1, <2>3 DEF Create, CreateDraft, TxInv, HistoryInv, TypeInv, TypeOK
    <2> QED BY <1>2, <2>2, <2>3, OthersKeep
<1> QED BY <1>1, <1>2, <1>3 DEF TxInv, ItemLocked, HoldsItem

--------------------------------------------------------------------------------
(* The theorems.                                                           *)

LEMMA TxInvIsInductive ==
    ASSUME ConstantsAssumption
    PROVE  /\ TxInit => TxInv
           /\ TxInv /\ [TxNext]_txvars => TxInv'
<1>1. ASSUME TxInit PROVE TxInv
    <2>1. HistoryInv
        BY <1>1, HistoryInvIsInductive DEF TxInit
    <2>2. tx \in [Requests -> TxRecord] /\ \A q \in Requests : tx[q].stage = "idle"
        BY <1>1, IdleIsRequest DEF TxInit, Idle
    <2> QED BY <2>1, <2>2 DEF TxInv, RequestOK, ItemOK, ReadOK, ListOK, RowOK, IndexOK,
        Begun, ItemLocked, HoldsItem
<1>2. ASSUME TxInv, TxNext PROVE TxInv'
    <2>1. CASE Create
        BY <1>2, <2>1, CreateKeeps
    <2>2. ASSUME NEW q \in Requests, NEW i \in Items, Open(q, i) PROVE TxInv'
        BY <1>2, <2>2, OpenKeeps
    <2>3. ASSUME NEW q \in Requests, NEW op \in Ops, Begin(q, op) PROVE TxInv'
        BY <1>2, <2>3, BeginKeeps
    <2>4. ASSUME NEW q \in Requests, List(q) PROVE TxInv'
        BY <1>2, <2>4, ListKeeps
    <2>5. ASSUME NEW q \in Requests, Translate(q) PROVE TxInv'
        BY <1>2, <2>5, TranslateKeeps
    <2>6. ASSUME NEW q \in Requests, Update(q) PROVE TxInv'
        BY <1>2, <2>6, UpdateKeeps
    <2>7. ASSUME NEW q \in Requests, AppendVersion(q) PROVE TxInv'
        BY <1>2, <2>7, AppendVersionKeeps
    <2>8. ASSUME NEW q \in Requests, Commit(q) PROVE TxInv'
        BY <1>2, <2>8, CommitKeeps
    <2>9. ASSUME NEW q \in Requests, Abort(q) PROVE TxInv'
        BY <1>2, <2>9, AbortKeeps
    <2> QED BY <1>2, <2>1, <2>2, <2>3, <2>4, <2>5, <2>6, <2>7, <2>8, <2>9 DEF TxNext
<1>3. ASSUME TxInv, UNCHANGED txvars PROVE TxInv'
    <2>1. UNCHANGED vars /\ tx' = tx
        BY <1>3 DEF txvars, vars
    <2>2. HistoryInv'
        BY <1>3, <2>1, HistoryInvIsInductive DEF TxInv
    <2>3. ASSUME NEW r \in Requests PROVE RequestOK(r)'
        BY <1>3, <2>1, <2>3, OthersKeep DEF vars, Grows
    <2> QED BY <1>3, <2>1, <2>2, <2>3 DEF TxInv, ItemLocked, HoldsItem
<1> QED BY <1>1, <1>2, <1>3

\* Every step of a request is a step of the workflow or leaves the tables alone.
LEMMA StepsImplementWorkflow ==
    ASSUME ConstantsAssumption, TxInv, [TxNext]_txvars
    PROVE  Next \/ UNCHANGED vars
<1>1. CASE Create
    BY <1>1, CreateIsNext
<1>2. ASSUME NEW q \in Requests, Commit(q) PROVE Next
    BY <1>2, CommitIsPerform, PerformIsNext
<1>3. ASSUME NEW q \in Requests,
             \/ \E i \in Items : Open(q, i)
             \/ \E op \in Ops : Begin(q, op)
             \/ List(q)
             \/ Translate(q)
             \/ Update(q)
             \/ AppendVersion(q)
             \/ Abort(q)
      PROVE  UNCHANGED vars
    BY <1>3 DEF Open, Begin, List, Translate, Update, AppendVersion, Abort
<1>4. CASE UNCHANGED txvars
    BY <1>4 DEF txvars, vars
<1> QED BY <1>1, <1>2, <1>3, <1>4 DEF TxNext

\* Whatever the interleaving, the committed tables change only by whole
\* operations of the workflow, each performed on the row as it is: READ
\* COMMITTED with expectedVersion and the unique index is as good as one
\* request at a time.
THEOREM TransactionsImplementWorkflow == ConstantsAssumption /\ TxSpec => ImplementsWorkflow
<1> SUFFICES ASSUME ConstantsAssumption PROVE TxSpec => ImplementsWorkflow
    OBVIOUS
<1>1. TxInit => TxInv
    BY TxInvIsInductive
<1>2. TxInv /\ [TxNext]_txvars => TxInv'
    BY TxInvIsInductive
<1>3. TxInit => Init
    BY DEF TxInit
<1>4. TxInv /\ [TxNext]_txvars => [Next]_vars
    BY StepsImplementWorkflow
<1> QED BY <1>1, <1>2, <1>3, <1>4, PTL DEF TxSpec, ImplementsWorkflow, Spec

\* Two requests on one item are never both past the unique index, and the one
\* that is holds the present row.
THEOREM OneWriter == ConstantsAssumption /\ TxSpec => []OneWriterPastIndex
<1> SUFFICES ASSUME ConstantsAssumption PROVE TxSpec => []OneWriterPastIndex
    OBVIOUS
<1>1. TxInit => TxInv
    BY TxInvIsInductive
<1>2. TxInv /\ [TxNext]_txvars => TxInv'
    BY TxInvIsInductive
<1>3. TxInv => OneWriterPastIndex
    BY DEF TxInv, ItemLocked, HoldsItem, RequestOK, IndexOK, OneWriterPastIndex
<1> QED BY <1>1, <1>2, <1>3, PTL DEF TxSpec

\* A commit replaces the version its caller saw, by the next one.
THEOREM NoUpdateIsLost == ConstantsAssumption /\ TxSpec => NoLostUpdate
<1> SUFFICES ASSUME ConstantsAssumption PROVE TxSpec => NoLostUpdate
    OBVIOUS
<1> DEFINE Kept ==
        \A i \in Items, q \in Requests :
          (tx[q].stage = "appended" /\ tx'[q].stage = "idle" /\ items'[i] # items[i]
           /\ tx[q].item = i)
             => /\ items[i].currentVersion = tx[q].expected
                /\ items'[i].currentVersion = tx[q].expected + 1
<1>1. TxInit => TxInv
    BY TxInvIsInductive
<1>2. TxInv /\ [TxNext]_txvars => TxInv'
    BY TxInvIsInductive
<1>3. TxInv /\ [TxNext]_txvars => Kept
    <2> SUFFICES ASSUME TxInv, [TxNext]_txvars, NEW i \in Items, NEW q \in Requests,
                        tx[q].stage = "appended", tx'[q].stage = "idle",
                        items'[i] # items[i], tx[q].item = i
                 PROVE  /\ items[i].currentVersion = tx[q].expected
                        /\ items'[i].currentVersion = tx[q].expected + 1
        OBVIOUS
    <2>1. CASE Commit(q)
        <3>1. items[i].currentVersion = tx[q].expected /\ tx[q].op \in Op
              /\ Perform(i, tx[q].op)
            BY <2>1, CommitIsPerform, OpsAreOperations
        <3> QED BY <3>1, PerformStep DEF TxInv, HistoryInv
    <2>2. CASE ~Commit(q)
        <3>1. CASE \E r \in Requests \ {q} : Commit(r)
            BY <3>1 DEF Commit, TxInv
        <3>2. CASE Create
            BY <3>2 DEF Create
        <3>3. CASE UNCHANGED vars
            BY <3>3 DEF vars
        <3> QED BY <2>2, <3>1, <3>2, <3>3 DEF TxNext, Open, Begin, List, Translate, Update,
            AppendVersion, Abort, txvars, vars
    <2> QED BY <2>1, <2>2
<1> QED BY <1>1, <1>2, <1>3, PTL DEF TxSpec, NoLostUpdate
\* Committed snapshots and audit events are never changed or removed.
THEOREM HistoriesAreImmutable == ConstantsAssumption /\ TxSpec => HistoryImmutable
<1> SUFFICES ASSUME ConstantsAssumption PROVE TxSpec => HistoryImmutable
    OBVIOUS
<1> DEFINE Kept ==
        \A i \in Items :
          /\ \A n \in DOMAIN versions[i] :
                n \in DOMAIN versions'[i] /\ versions'[i][n] = versions[i][n]
          /\ audit[i] \subseteq audit'[i]
<1>1. TxInit => TxInv
    BY TxInvIsInductive
<1>2. TxInv /\ [TxNext]_txvars => TxInv'
    BY TxInvIsInductive
<1>3. TxInv /\ [TxNext]_txvars => Kept
    <2> SUFFICES ASSUME TxInv, [TxNext]_txvars, NEW i \in Items
                 PROVE  /\ \A n \in DOMAIN versions[i] :
                              n \in DOMAIN versions'[i] /\ versions'[i][n] = versions[i][n]
                        /\ audit[i] \subseteq audit'[i]
        OBVIOUS
    <2>1. HistoryInv /\ (Next \/ UNCHANGED vars)
        BY StepsImplementWorkflow DEF TxInv
    <2>2. audit[i] \subseteq audit'[i]
        <3>1. CASE UNCHANGED vars
            BY <3>1 DEF vars
        <3>2. ASSUME NEW j \in Items, NEW a \in Actors, NEW t \in ContentTypes,
                     NEW e \in Entities \cup {None}, NEW p \in Payloads,
                     CreateDraft(j, a, t, e, p)
              PROVE  audit[i] \subseteq audit'[i]
            BY <2>1, <3>2 DEF CreateDraft, HistoryInv, TypeInv, TypeOK
        <3>3. ASSUME NEW j \in Items, NEW op \in Op, Perform(j, op)
              PROVE  audit[i] \subseteq audit'[i]
            BY <2>1, <3>3 DEF Perform, HistoryInv, TypeInv, TypeOK
        <3> QED BY <2>1, <3>1, <3>2, <3>3, NextIsCreateOrPerform
    <2>3. CASE items[i].status = "absent"
        <3>1. items[i].currentVersion = 0 /\ DOMAIN versions[i] = 1..0
            BY <2>1, <2>3 DEF HistoryInv, TypeInv, StoredItems, HistoryComplete,
                NumberedWithoutGap
        <3> QED BY <2>2, <3>1
    <2>4. CASE items[i].status # "absent"
        BY <2>1, <2>2, <2>4, StoredItemsGrow DEF Grows
    <2> QED BY <2>3, <2>4
<1> QED BY <1>1, <1>2, <1>3, PTL DEF TxSpec, HistoryImmutable

\* The private state of a request has its shape in every reachable state.
THEOREM TransactionTypes == ConstantsAssumption /\ TxSpec => []TxTypeOK
<1> SUFFICES ASSUME ConstantsAssumption PROVE TxSpec => []TxTypeOK
    OBVIOUS
<1>1. TxInit => TxInv
    BY TxInvIsInductive
<1>2. TxInv /\ [TxNext]_txvars => TxInv'
    BY TxInvIsInductive
<1>3. ASSUME TxInv PROVE TxTypeOK
    <2>1. TypeOK /\ DOMAIN tx = Requests /\ \A q \in Requests : tx[q] \in TxRecord
        BY <1>3 DEF TxInv, HistoryInv, TypeInv
    <2>2. ASSUME NEW q \in Requests
          PROVE  /\ tx[q].stage # "idle" => tx[q].item \in Items
                 /\ tx[q].stage \notin {"idle", "open"} => tx[q].op \in Op
        BY <1>3, <2>1, OpsAreOperations DEF TxInv, RequestOK, ItemOK, ReadOK, Begun, TxRecord
    <2> QED BY <2>1, <2>2 DEF TxTypeOK, TxRecord
<1> QED BY <1>1, <1>2, <1>3, PTL DEF TxSpec

--------------------------------------------------------------------------------
(***************************************************************************)
(* Locks.  A verification takes the lock of its translation before that of *)
(* its item, every other operation takes only the item's: no request that  *)
(* holds an item waits for anything.                                       *)
(***************************************************************************)
Verifying(q) == tx[q].stage = "begun" /\ tx[q].op.kind = "verify_translation"

AtUpdate(q) ==
    \/ tx[q].stage = "begun" /\ tx[q].op.kind \notin {"rollback", "verify_translation"}
    \/ tx[q].stage \in {"listed", "translated"}

\* The next statement of q waits for a lock that r holds.
WaitsFor(q, r) ==
    /\ r # q
    /\ \/ Verifying(q) /\ \E t \in NewTranslations(tx[q].op, tx[q].read) : HoldsTranslation(r, t)
       \/ AtUpdate(q) /\ HoldsItem(r, tx[q].item)

\* The next statement of q is possible, or q is refused.
GoesOn(q) ==
    \/ Refused(q)
    \/ /\ tx[q].stage = "begun" /\ tx[q].op.kind = "rollback"
       /\ TargetGuard(tx[q].op, versions[tx[q].item])
    \/ Verifying(q) /\ \A t \in NewTranslations(tx[q].op, tx[q].read) : TranslationFree(q, t)
    \/ AtUpdate(q) /\ ItemFree(q, tx[q].item)
    \/ tx[q].stage = "updated" /\ VersionIsNew(tx[q].item, tx[q].read.currentVersion + 1)
    \/ tx[q].stage = "appended"

\* A request in flight goes on, or waits for one that goes on, or for one that
\* waits for such a one.
WaitsEnd ==
    \A q \in Requests : tx[q].stage # "idle" =>
        \/ GoesOn(q)
        \/ \E r \in Requests :
              /\ WaitsFor(q, r)
              /\ GoesOn(r) \/ \E s \in Requests : WaitsFor(r, s) /\ GoesOn(s)

LEMMA ItemHoldersGoOn ==
    ASSUME NEW r \in Requests, NEW i, HoldsItem(r, i)
    PROVE  GoesOn(r)
BY DEF HoldsItem, GoesOn, Refused

LEMMA UpdatesWaitForHolders ==
    ASSUME NEW q \in Requests, AtUpdate(q)
    PROVE  GoesOn(q) \/ \E r \in Requests : WaitsFor(q, r) /\ GoesOn(r)
<1>1. CASE ItemFree(q, tx[q].item)
    BY <1>1 DEF GoesOn
<1>2. CASE ~ItemFree(q, tx[q].item)
    <2>1. PICK r \in Requests \ {q} : HoldsItem(r, tx[q].item)
        BY <1>2 DEF ItemFree
    <2>2. WaitsFor(q, r) /\ GoesOn(r)
        BY <2>1, ItemHoldersGoOn DEF WaitsFor
    <2> QED BY <2>2
<1> QED BY <1>1, <1>2

LEMMA VerificationsWait ==
    ASSUME NEW q \in Requests, Verifying(q)
    PROVE  \/ GoesOn(q)
           \/ \E r \in Requests :
                 /\ WaitsFor(q, r)
                 /\ GoesOn(r) \/ \E s \in Requests : WaitsFor(r, s) /\ GoesOn(s)
<1>1. CASE \A t \in NewTranslations(tx[q].op, tx[q].read) : TranslationFree(q, t)
    BY <1>1 DEF GoesOn
<1>2. CASE \E t \in NewTranslations(tx[q].op, tx[q].read) : ~TranslationFree(q, t)
    <2>1. PICK t \in NewTranslations(tx[q].op, tx[q].read), r \in Requests \ {q} :
              HoldsTranslation(r, t)
        BY <1>2 DEF TranslationFree
    <2>2. WaitsFor(q, r)
        BY <2>1 DEF WaitsFor
    <2>3. CASE tx[r].stage = "translated"
        BY <2>2, <2>3, UpdatesWaitForHolders DEF AtUpdate
    <2>4. CASE tx[r].stage \in {"updated", "appended"}
        BY <2>2, <2>4, ItemHoldersGoOn DEF HoldsItem
    <2> QED BY <2>1, <2>3, <2>4 DEF HoldsTranslation
<1> QED BY <1>1, <1>2

\* Requests never wait for each other in a circle: a chain of waits has at most
\* two links and ends at a request whose next statement is possible or that is
\* refused, for any number of requests, items and translations.
THEOREM NoRequestIsStuck == ConstantsAssumption /\ TxSpec => []WaitsEnd
<1> SUFFICES ASSUME ConstantsAssumption PROVE TxSpec => []WaitsEnd
    OBVIOUS
<1>1. TxTypeOK => WaitsEnd
    <2> SUFFICES ASSUME TxTypeOK, NEW q \in Requests, tx[q].stage # "idle"
                 PROVE  \/ GoesOn(q)
                        \/ \E r \in Requests :
                              /\ WaitsFor(q, r)
                              /\ GoesOn(r) \/ \E s \in Requests : WaitsFor(r, s) /\ GoesOn(s)
        BY DEF WaitsEnd
    <2>1. tx[q].stage \in Stages
        BY DEF TxTypeOK
    <2>2. CASE tx[q].stage \in {"open", "updated", "appended"}
        BY <2>2 DEF GoesOn, Refused
    <2>3. CASE tx[q].stage = "begun" /\ tx[q].op.kind = "rollback"
        BY <2>3 DEF GoesOn, Refused
    <2>4. CASE Verifying(q)
        BY <2>4, VerificationsWait
    <2>5. CASE AtUpdate(q)
        BY <2>5, UpdatesWaitForHolders
    <2> QED BY <2>1, <2>2, <2>3, <2>4, <2>5 DEF Stages, Verifying, AtUpdate
<1> QED BY <1>1, TransactionTypes, PTL
================================================================================
