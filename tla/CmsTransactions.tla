---------------------------- MODULE CmsTransactions ----------------------------
(***************************************************************************)
(* The mutations of CmsService as they run: each request is one PostgreSQL *)
(* transaction at READ COMMITTED, sent one statement at a time, and other  *)
(* requests run between the statements.                                    *)
(*                                                                         *)
(*   Open      the caller GETs the item and keeps its version              *)
(*   Begin     the transaction reads the row and checks it                 *)
(*   List      rollback only: it lists the stored versions                 *)
(*   Translate verify only: it upserts the translation row                 *)
(*   Update    it updates the item row, holding the row's lock             *)
(*   AppendVersion inserts the version; the unique index may refuse it    *)
(*   Commit    it inserts the audit event and commits                      *)
(*                                                                         *)
(* Abort is any failure before the commit: a refused check, a 409, a lost  *)
(* connection or a crash of the server process.  Uncommitted writes are    *)
(* in `tx` and are visible to their own transaction only; `items`,         *)
(* `versions`, `audit` and `translations` are the committed tables.        *)
(***************************************************************************)
EXTENDS CmsWorkflow

CONSTANT Requests   \* request slots: how many requests run at the same time

VARIABLE tx         \* tx[q]: the state of the request in slot q

txvars == <<items, versions, audit, translations, tx>>

Stages == {"idle", "open", "begun", "listed", "translated", "updated", "appended"}

Idle ==
    [stage |-> "idle", item |-> None, expected |-> 0, op |-> None, read |-> AbsentRow,
     history |-> [n \in {} |-> None], row |-> AbsentRow]

\* The operations a caller may ask for.
Ops == [kind : {"edit"}, actor : Actors, payload : Payloads, target : {0}]
       \cup [kind : Kinds \ {"edit", "rollback"}, actor : Actors,
             payload : {EmptyPayload}, target : {0}]
       \cup [kind : {"rollback"}, actor : Actors,
             payload : {EmptyPayload}, target : 1..MaxVersion]

(***************************************************************************)
(* Row locks.  A transaction holds the item row from its UPDATE and the    *)
(* translation row from its upsert until it ends.                          *)
(***************************************************************************)
\* Mutant: the row is already locked when it is read.
HoldsItemFromRead(q, i) ==
    /\ tx[q].stage \in {"begun", "listed", "translated", "updated", "appended"}
    /\ tx[q].item = i

HoldsItem(q, i) == tx[q].stage \in {"updated", "appended"} /\ tx[q].item = i

HoldsTranslation(q, t) ==
    /\ tx[q].stage \in {"translated", "updated", "appended"}
    /\ t \in NewTranslations(tx[q].op, tx[q].read)

ItemFree(q, i) == \A r \in Requests \ {q} : ~HoldsItem(r, i)

TranslationFree(q, t) == \A r \in Requests \ {q} : ~HoldsTranslation(r, t)

(***************************************************************************)
(* The steps of a request.                                                 *)
(***************************************************************************)
\* createDraft writes rows nobody else can name before its commit.
Create ==
    /\ \E i \in Items, a \in Actors, t \in ContentTypes,
          e \in Entities \cup {None}, p \in Payloads : CreateDraft(i, a, t, e, p)
    /\ UNCHANGED tx

Open(q, i) ==
    /\ tx[q].stage = "idle"
    /\ items[i].status # "absent"
    /\ items[i].currentVersion < MaxVersion
    /\ tx' = [tx EXCEPT ![q] = [Idle EXCEPT !.stage = "open", !.item = i,
                                            !.expected = items[i].currentVersion]]
    /\ UNCHANGED vars

\* Mutant: an older expectedVersion is accepted.
AcceptStaleVersion(row, expected) == row.currentVersion >= expected

AssertExpectedVersion(row, expected) == row.currentVersion = expected

Begin(q, op) ==
    LET row == items[tx[q].item]
    IN  /\ tx[q].stage = "open"
        /\ AssertExpectedVersion(row, tx[q].expected)
        /\ RowGuard(op, row)
        /\ tx' = [tx EXCEPT ![q].stage = "begun", ![q].op = op, ![q].read = row]
        /\ UNCHANGED vars

List(q) ==
    /\ tx[q].stage = "begun"
    /\ tx[q].op.kind = "rollback"
    /\ TargetGuard(tx[q].op, versions[tx[q].item])
    /\ tx' = [tx EXCEPT ![q].stage = "listed", ![q].history = versions[tx[q].item]]
    /\ UNCHANGED vars

Translate(q) ==
    /\ tx[q].stage = "begun"
    /\ tx[q].op.kind = "verify_translation"
    /\ \A t \in NewTranslations(tx[q].op, tx[q].read) : TranslationFree(q, t)
    /\ tx' = [tx EXCEPT ![q].stage = "translated"]
    /\ UNCHANGED vars

\* UPDATE ... WHERE id waits for the row's lock and then lands on the newest
\* committed row, without looking at the version again.
Update(q) ==
    /\ \/ tx[q].stage = "begun" /\ tx[q].op.kind \notin {"rollback", "verify_translation"}
       \/ tx[q].stage \in {"listed", "translated"}
    /\ ItemFree(q, tx[q].item)
    /\ tx' = [tx EXCEPT ![q].stage = "updated",
                        ![q].row = UpdatedRow(tx[q].op, tx[q].read, tx[q].history,
                                              items[tx[q].item])]
    /\ UNCHANGED vars

\* Mutant: no unique index; the insert replaces the row.
AnyVersion(i, number) == TRUE

\* unique (content_item_id, version_number) is the final arbiter.
VersionIsNew(i, number) == number \notin DOMAIN versions[i]

AppendVersion(q) ==
    /\ tx[q].stage = "updated"
    /\ VersionIsNew(tx[q].item, tx[q].read.currentVersion + 1)
    /\ tx' = [tx EXCEPT ![q].stage = "appended"]
    /\ UNCHANGED vars

\* Mutant: the audit event is not part of the transaction.
CommitUnaudited(q) ==
    LET i == tx[q].item
    IN  /\ tx[q].stage = "appended"
        /\ items' = [items EXCEPT ![i] = tx[q].row]
        /\ versions' = [versions EXCEPT ![i] =
                AddVersion(@, tx[q].read.currentVersion + 1,
                           NewSnapshot(tx[q].op, tx[q].read, tx[q].history))]
        /\ translations' = translations \cup NewTranslations(tx[q].op, tx[q].read)
        /\ tx' = [tx EXCEPT ![q] = Idle]
        /\ UNCHANGED audit

Commit(q) ==
    LET i == tx[q].item
    IN  /\ tx[q].stage = "appended"
        /\ items' = [items EXCEPT ![i] = tx[q].row]
        /\ versions' = [versions EXCEPT ![i] =
                AddVersion(@, tx[q].read.currentVersion + 1,
                           NewSnapshot(tx[q].op, tx[q].read, tx[q].history))]
        /\ audit' = [audit EXCEPT ![i] = @ \cup {NewAuditEvent(tx[q].op, tx[q].read)}]
        /\ translations' = translations \cup NewTranslations(tx[q].op, tx[q].read)
        /\ tx' = [tx EXCEPT ![q] = Idle]

Abort(q) ==
    /\ tx[q].stage # "idle"
    /\ tx' = [tx EXCEPT ![q] = Idle]
    /\ UNCHANGED vars

\* What the database and the service refuse of their own accord.
Refused(q) ==
    \/ tx[q].stage = "open"
    \/ tx[q].stage = "begun" /\ tx[q].op.kind = "rollback"
       /\ ~TargetGuard(tx[q].op, versions[tx[q].item])
    \/ tx[q].stage = "updated"
       /\ ~VersionIsNew(tx[q].item, tx[q].read.currentVersion + 1)

Statement(q) == List(q) \/ Translate(q) \/ Update(q) \/ AppendVersion(q) \/ Commit(q)

TxInit == Init /\ tx = [q \in Requests |-> Idle]

TxNext ==
    \/ Create
    \/ \E q \in Requests :
        \/ \E i \in Items : Open(q, i)
        \/ \E op \in Ops : Begin(q, op)
        \/ List(q)
        \/ Translate(q)
        \/ Update(q)
        \/ AppendVersion(q)
        \/ Commit(q)
        \/ Abort(q)

\* The service sends the next statement and PostgreSQL grants row locks in the
\* order they were asked for, so a statement that is possible again and again
\* is executed; a refused request is answered.  Nobody has to open a request.
Fairness ==
    \A q \in Requests : SF_txvars(Statement(q)) /\ WF_txvars(Abort(q) /\ Refused(q))

TxSpec == TxInit /\ [][TxNext]_txvars

FairTxSpec == TxSpec /\ Fairness

(***************************************************************************)
(* Properties.                                                             *)
(***************************************************************************)
\* A request's private state has its shape: an operation once it has begun,
\* and a pending row only after its UPDATE.
TxTypeOK ==
    /\ TypeOK
    /\ DOMAIN tx = Requests
    /\ \A q \in Requests :
         /\ tx[q].stage \in Stages
         /\ tx[q].expected \in Nat
         /\ tx[q].stage # "idle" => tx[q].item \in Items
         /\ tx[q].stage \notin {"idle", "open"} => tx[q].op \in Op /\ tx[q].read \in Row
         /\ tx[q].stage \in {"updated", "appended"} => tx[q].row \in Row

\* The interleaved transactions implement the atomic workflow: every commit is
\* one operation on the committed tables and nothing else changes them.
ImplementsWorkflow == Spec

\* A caller that saw version n replaces version n or nothing: no commit lands
\* on an item that was changed after the caller looked at it (409 otherwise).
NoLostUpdate ==
    [][\A i \in Items, q \in Requests :
          (tx[q].stage = "appended" /\ tx'[q].stage = "idle" /\ items'[i] # items[i]
           /\ tx[q].item = i)
             => /\ items[i].currentVersion = tx[q].expected
                /\ items'[i].currentVersion = tx[q].expected + 1]_txvars

\* Versions and audit events are immutable: whatever the interleaving, a
\* committed snapshot or event never changes and never disappears.
HistoryImmutable ==
    [][\A i \in Items :
          /\ \A n \in DOMAIN versions[i] :
                n \in DOMAIN versions'[i] /\ versions'[i][n] = versions[i][n]
          /\ audit[i] \subseteq audit'[i]]_txvars

\* At most one request per item is past the unique index: the losers of a race
\* are stopped before their commit, not after.
OneWriterPastIndex ==
    \A q \in Requests :
        tx[q].stage = "appended" =>
            /\ tx[q].read = items[tx[q].item]
            /\ \A r \in Requests \ {q} :
                 tx[r].stage = "appended" => tx[r].item # tx[q].item

\* Every request that has begun ends, committed or refused: the row locks of
\* verifications and updates never leave requests waiting for each other.
RequestsEnd == \A q \in Requests : (tx[q].stage # "idle") ~> (tx[q].stage = "idle")
================================================================================
