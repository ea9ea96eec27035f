------------------------------ MODULE DeviceSync -------------------------------
(***************************************************************************)
(* SyncService.push: a device sends the review events it collected offline *)
(* and the server replays them through the scheduler of each card.         *)
(*                                                                         *)
(* push runs in no transaction.  It reads the card rows, then the client   *)
(* ids it already has, and then for one card after the other inserts one   *)
(* review per event and writes the card once.  Each statement is an action;*)
(* pushes of other devices, and of the same device when it retries, run in *)
(* between.                                                                *)
(*                                                                         *)
(* As in ReviewSession, the state of a card is the sequence of gradings it *)
(* reflects.  Devices are external: a device keeps its own view of the     *)
(* cards, grades on it, and sends what is not acknowledged until it is.    *)
(* An event is known by its position among those its device made, and a    *)
(* batch is a set of positions: device order is the order of the numbers.  *)
(* Their cards exist and their ratings are valid; push drops the others.   *)
(***************************************************************************)
EXTENDS Integers, Sequences, FiniteSetsExt

CONSTANTS
    Devices,
    Cards,
    Events,        \* client ids: the gradings that may be made
    Requests,      \* request slots
    None,
    Environments,  \* what a behaviour may have to cope with
    MaxFailures    \* bound on how often a push fails

VARIABLES
    cards,      \* cards[c]: the gradings the server's row of c reflects
    log,        \* log[e]: how many rows of srs_reviews have client id e
    local,      \* local[d][c]: the gradings device d's view of c reflects
    made,       \* made[d]: the events device d made, oldest first
    outbox,     \* outbox[d]: positions of those that are not acknowledged
    acked,      \* client ids whose push was answered with success
    push,       \* push[p]: the request in slot p
    failures,
    env         \* the slots in use, whether devices send the state before each
                \* grading, the stages at which a push may fail; never changes

vars == <<cards, log, local, made, outbox, acked, push, failures, env>>

Event == [id : Events, card : Cards, before : Seq(Events) \cup {None}]

Stages == {"idle", "cards", "existing", "insert", "update", "finish", "reply"}

Environment == [slots : SUBSET Requests, snapshots : BOOLEAN, failing : SUBSET Stages]

ASSUME SyncAssumption ==
    /\ Environments \subseteq Environment
    /\ MaxFailures \in Nat
    /\ None \notin Devices \cup Cards
    /\ None \notin Seq(Events)

\* Locals of a push: the batch, the card rows read, the fresh events of cards
\* not yet reached, the card being replayed, its remaining events and state.
Idle == [stage |-> "idle", device |-> None, batch |-> {}, rows |-> [c \in Cards |-> <<>>],
         fresh |-> {}, card |-> None, pending |-> {}, state |-> <<>>]

Ids(events, positions) == {events[i].id : i \in positions}

--------------------------------------------------------------------------------
(***************************************************************************)
(* The replay of one card.                                                 *)
(***************************************************************************)
\* Mutant: the state columns the device did not send count as zero.
ReplayFromNothing(row, events, positions) == <<>>

\* Mutant: nobody looks whether the first event has a snapshot.
ReplayFromUnsent(row, events, positions) == events[Min(positions)].before

\* The first snapshot the device sent, if it sent one, and else the row: where
\* they differ the device's history wins.
ReplayFrom(row, events, positions) ==
    LET sent == {i \in positions : events[i].before # None}
    IN  IF sent = {} THEN row ELSE events[Min(sent)].before

\* Mutant: the request finishes after the first card of its batch.
ResumeOnce(q, fresh) ==
    LET c == made[q.device][Min(fresh)].card
        replayed == {i \in fresh : made[q.device][i].card = c}
    IN  IF fresh = {} \/ q.card # None
        THEN [q EXCEPT !.stage = "finish"]
        ELSE [q EXCEPT !.stage = "insert", !.card = c, !.pending = replayed,
                       !.state = q.rows[c]]

\* The request goes on with the next card of its batch that has new events left,
\* or finishes.  Cards come in the order of their first event, new or not.
Resume(q, fresh) ==
    LET events == made[q.device]
        left == {events[i].card : i \in fresh}
        c == events[Min({i \in q.batch : events[i].card \in left})].card
        replayed == {i \in fresh : events[i].card = c}
    IN  IF fresh = {}
        THEN [q EXCEPT !.stage = "finish", !.fresh = {}]
        ELSE [q EXCEPT !.stage = "insert", !.card = c, !.pending = replayed,
                       !.fresh = fresh \ replayed,
                       !.state = ReplayFrom(q.rows[c], events, replayed)]

\* Mutant: every event counts as new.
AllFresh(events, batch) == batch

Fresh(events, batch) == {i \in batch : log[events[i].id] = 0}

\* Mutant: client_id is not unique.
AnyClientId(id) == TRUE

ClientIdIsNew(id) == log[id] = 0

--------------------------------------------------------------------------------
(***************************************************************************)
(* Devices.                                                                *)
(***************************************************************************)
Unused(e) == \A d \in Devices : e \notin Ids(made[d], DOMAIN made[d])

GradeOffline(d, e, c) ==
    LET before == IF env.snapshots THEN local[d][c] ELSE None
    IN  /\ Unused(e)
        /\ local' = [local EXCEPT ![d][c] = Append(@, e)]
        /\ made' = [made EXCEPT ![d] = Append(@, [id |-> e, card |-> c, before |-> before])]
        /\ outbox' = [outbox EXCEPT ![d] = @ \cup {Len(made[d]) + 1}]
        /\ UNCHANGED <<cards, log, acked, push, failures, env>>

\* A device with nothing left to send takes over the server's cards.
Pull(d) ==
    /\ outbox[d] = {}
    /\ local' = [local EXCEPT ![d] = cards]
    /\ UNCHANGED <<cards, log, made, outbox, acked, push, failures, env>>

\* The first attempt, or a retry while an earlier attempt may still run.
Send(p, d) ==
    /\ push[p].stage = "idle"
    /\ p \in env.slots
    /\ outbox[d] # {}
    /\ push' = [push EXCEPT ![p] = [Idle EXCEPT !.stage = "cards", !.device = d,
                                                !.batch = outbox[d]]]
    /\ UNCHANGED <<cards, log, local, made, outbox, acked, failures, env>>

\* The answer arrives.
Reply(p) ==
    LET d == push[p].device
    IN  /\ push[p].stage = "reply"
        /\ outbox' = [outbox EXCEPT ![d] = @ \ push[p].batch]
        /\ acked' = acked \cup Ids(made[d], push[p].batch)
        /\ push' = [push EXCEPT ![p] = Idle]
        /\ UNCHANGED <<cards, log, local, made, failures, env>>

--------------------------------------------------------------------------------
(***************************************************************************)
(* The server.                                                             *)
(***************************************************************************)
ReadCards(p) ==
    /\ push[p].stage = "cards"
    /\ push' = [push EXCEPT ![p].stage = "existing", ![p].rows = cards]
    /\ UNCHANGED <<cards, log, local, made, outbox, acked, failures, env>>

ReadExisting(p) ==
    /\ push[p].stage = "existing"
    /\ push' = [push EXCEPT ![p] = Resume(@, Fresh(made[@.device], @.batch))]
    /\ UNCHANGED <<cards, log, local, made, outbox, acked, failures, env>>

\* A client id that is in the table by now fails the statement and the push.
InsertReview(p) ==
    LET next == Min(push[p].pending)
        rest == push[p].pending \ {next}
        id == made[push[p].device][next].id
    IN  /\ push[p].stage = "insert"
        /\ IF ClientIdIsNew(id)
           THEN /\ log' = [log EXCEPT ![id] = @ + 1]
                /\ push' = [push EXCEPT ![p].pending = rest,
                                        ![p].state = Append(@, id),
                                        ![p].stage = IF rest = {} THEN "update" ELSE "insert"]
           ELSE push' = [push EXCEPT ![p] = Idle] /\ UNCHANGED log
        /\ UNCHANGED <<cards, local, made, outbox, acked, failures, env>>

\* The row is written whatever it has become since it was read.
UpdateCard(p) ==
    /\ push[p].stage = "update"
    /\ cards' = [cards EXCEPT ![push[p].card] = push[p].state]
    /\ push' = [push EXCEPT ![p] = Resume(@, @.fresh)]
    /\ UNCHANGED <<log, local, made, outbox, acked, failures, env>>

\* The device row and the sync log.
FinishPush(p) ==
    /\ push[p].stage = "finish"
    /\ push' = [push EXCEPT ![p].stage = "reply"]
    /\ UNCHANGED <<cards, log, local, made, outbox, acked, failures, env>>

\* The server stops in the middle of a push, or its answer gets lost.
Fail(p) ==
    /\ push[p].stage \in env.failing \ {"idle"}
    /\ failures < MaxFailures
    /\ failures' = failures + 1
    /\ push' = [push EXCEPT ![p] = Idle]
    /\ UNCHANGED <<cards, log, local, made, outbox, acked, env>>

--------------------------------------------------------------------------------
Init ==
    /\ cards = [c \in Cards |-> <<>>]
    /\ log = [e \in Events |-> 0]
    /\ local = [d \in Devices |-> [c \in Cards |-> <<>>]]
    /\ made = [d \in Devices |-> <<>>]
    /\ outbox = [d \in Devices |-> {}]
    /\ acked = {}
    /\ push = [p \in Requests |-> Idle]
    /\ failures = 0
    /\ env \in Environments

Step(p) ==
    \/ ReadCards(p)
    \/ ReadExisting(p)
    \/ InsertReview(p)
    \/ UpdateCard(p)
    \/ FinishPush(p)
    \/ Reply(p)

Next ==
    \/ \E d \in Devices, e \in Events, c \in Cards : GradeOffline(d, e, c)
    \/ \E d \in Devices : Pull(d)
    \/ \E p \in Requests, d \in Devices : Send(p, d)
    \/ \E p \in Requests : Step(p) \/ Fail(p)

Spec == Init /\ [][Next]_vars

\* A device sends again while it has unacknowledged events, and a server that
\* runs goes on with the requests it has.
Fairness ==
    /\ \A d \in Devices : SF_vars(\E p \in Requests : Send(p, d))
    /\ \A p \in Requests : WF_vars(Step(p))

FairSpec == Spec /\ Fairness

--------------------------------------------------------------------------------
(***************************************************************************)
(* Properties                                                              *)
(***************************************************************************)

Push == [stage : Stages, device : Devices \cup {None}, batch : SUBSET Nat,
         rows : [Cards -> Seq(Events)], fresh : SUBSET Nat, card : Cards \cup {None},
         pending : SUBSET Nat, state : Seq(Events)]

\* What a push replays are events of its device.
PushTypeOK(q) ==
    /\ q \in Push
    /\ q.stage # "idle" => q.device \in Devices /\ q.batch \subseteq DOMAIN made[q.device]
    /\ q.fresh \subseteq q.batch
    /\ q.pending \subseteq q.batch
    /\ q.stage = "insert" => q.pending # {} /\ q.card \in Cards
    /\ q.stage = "update" => q.pending = {} /\ q.card \in Cards

\* The tables, the devices and the pushes have their types.
TypeOK ==
    /\ cards \in [Cards -> Seq(Events)]
    /\ log \in [Events -> Nat]
    /\ local \in [Devices -> [Cards -> Seq(Events)]]
    /\ made \in [Devices -> Seq(Event)]
    /\ outbox \in [Devices -> SUBSET Nat]
    /\ \A d \in Devices : outbox[d] \subseteq DOMAIN made[d]
    /\ acked \subseteq Events
    /\ push \in [Requests -> Push]
    /\ \A p \in Requests : PushTypeOK(push[p])
    /\ failures \in Nat
    /\ env \in Environments

\* A review event is logged at most once and moves its card at most once,
\* however often and by however many overlapping pushes it is sent.
AppliedAtMostOnce ==
    /\ \A e \in Events : log[e] <= 1
    /\ \A c \in Cards : \A i, j \in DOMAIN cards[c] : cards[c][i] = cards[c][j] => i = j

Applied(c) == {cards[c][i] : i \in DOMAIN cards[c]}

\* No two pushes overlap, and the devices send no snapshots.
Orderly == (\A p, q \in env.slots : p = q) /\ ~env.snapshots

AllAckedApplied == \A e \in acked : \E c \in Cards : e \in Applied(c)

AllAckedLogged == \A e \in acked : log[e] # 0

\* What the server reports as accepted or as already applied is in the log of
\* reviews, whatever overlaps and wherever pushes stop.  Without overlap and
\* snapshots it is in the state of a card too, although answers get lost and
\* pushes are repeated.
AckedIsApplied ==
    /\ AllAckedLogged
    /\ Orderly /\ env.failing \subseteq {"reply"} => AllAckedApplied

\* The same when a push stops in the middle: repeating it is a no-op for what
\* was applied, and only for that.
RetryLosesNothing == AllAckedApplied

\* Replaying the events of a device takes nothing away from what a card already
\* reflects, wherever pushes stop: the server's state is not overwritten.
NothingClobbered ==
    [][Orderly => \A c \in Cards : Applied(c) \subseteq {cards'[c][i] : i \in DOMAIN cards'[c]}]_vars

\* A device gets rid of its events, through failures, lost answers and
\* overlapping retries.
OutboxDrains == \A d \in Devices : outbox[d] # {} ~> outbox[d] = {}
================================================================================
