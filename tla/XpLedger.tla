------------------------------- MODULE XpLedger --------------------------------
(***************************************************************************)
(* The experience ledger of XpService: award, revokeByDedupeKey and the    *)
(* sums they are derived from, for one scoring rule with a daily cap.      *)
(*                                                                         *)
(* award runs in no transaction: it looks for the dedupe key, sums today's *)
(* points of the rule, scores, and inserts; only the unique index on       *)
(* (user_id, dedupe_key) and the sum it read protect it.                   *)
(***************************************************************************)
EXTENDS Integers, Sequences, FiniteSets, FiniteSetsExt

CONSTANTS
    Users,
    Keys,         \* domain events, named by their dedupe key; learners may share one
    Keyless,      \* those reported with neither a dedupe key nor a source id
    RawPoints,    \* what the rule scores before its daily cap
    DailyCap,     \* the rule's cap; 0 is none
    AwardSlots,   \* request slots
    Dated,        \* whether reported events carry a time of their own
    LastDay,      \* bound on the days explored
    MaxEvents     \* bound on the events explored

ASSUME LedgerAssumption ==
    /\ RawPoints \subseteq Nat
    /\ \E raw \in RawPoints : \A other \in RawPoints : raw >= other
    /\ DailyCap \in Nat
    /\ Keyless \subseteq Keys
    /\ Dated \in BOOLEAN
    /\ LastDay \in Nat
    /\ MaxEvents \in Nat
    /\ IsFiniteSet(AwardSlots)
    /\ AwardSlots # {}
    /\ Users # {}
    /\ Keys # {}

VARIABLES
    events,   \* xp_events, in the order of insertion
    today,
    awards    \* awards[p]: the award in slot p

ledgerVars == <<events, today, awards>>

AwardStages == {"idle", "find", "sum", "insert"}

AwardOutcomes == {"none", "awarded", "duplicate", "skipped"}

Days == 0..LastDay

\* The day of an event that carries no time of its own.
Now == LastDay + 1

XpEvent == [user : Users, key : Keys, points : Nat, day : Days, revoked : BOOLEAN]

NoAward ==
    [stage |-> "idle", user |-> CHOOSE u \in Users : TRUE, key |-> CHOOSE k \in Keys : TRUE,
     raw |-> 0, day |-> Now, points |-> 0, outcome |-> "none"]

--------------------------------------------------------------------------------
Paid(u, k) == \E i \in DOMAIN events : events[i].user = u /\ events[i].key = k

\* Mutant: the check before the insert looks at everybody's keys.
IsDuplicateOfAnybody(u, k) == k \notin Keyless /\ \E v \in Users : Paid(v, k)

IsDuplicate(u, k) == k \notin Keyless /\ Paid(u, k)

\* Mutant: there is no unique index.
KeyIsAlwaysFree(u, k) == TRUE

KeyIsFree(u, k) == k \in Keyless \/ ~Paid(u, k)

AwardedOn(u, day) ==
    MapThenSumSet(LAMBDA i : events[i].points,
                  {i \in DOMAIN events : /\ events[i].user = u
                                         /\ events[i].day = day
                                         /\ ~events[i].revoked})

\* Mutant: an event without a time of its own is not dated.
OccurredWhenReported(day) == day

OccurredAt(day) == IF day = Now THEN today ELSE day

\* Mutant: an award is clipped against the cap, not against what is left of it.
FinaliseAlone(raw, awarded) == IF DailyCap > 0 THEN Min({raw, DailyCap}) ELSE raw

Finalise(raw, awarded) ==
    IF DailyCap > 0 /\ raw > DailyCap - awarded
    THEN IF awarded >= DailyCap THEN 0 ELSE DailyCap - awarded
    ELSE raw

--------------------------------------------------------------------------------
AwardAt(p, stage) == awards[p].stage = stage

End(p, outcome) == awards' = [awards EXCEPT ![p].stage = "idle", ![p].outcome = outcome]

\* A domain event is reported; it may carry the time it happened.
Report(p, u, k, raw, day) ==
    /\ AwardAt(p, "idle")
    /\ day = Now \/ Dated
    /\ awards' = [awards EXCEPT ![p] = [stage |-> "find", user |-> u, key |-> k, raw |-> raw,
                                        day |-> day, points |-> 0, outcome |-> "none"]]
    /\ UNCHANGED <<events, today>>

FindExisting(p) ==
    /\ AwardAt(p, "find")
    /\ IF IsDuplicate(awards[p].user, awards[p].key)
       THEN End(p, "duplicate")
       ELSE awards' = [awards EXCEPT ![p].stage = "sum"]
    /\ UNCHANGED <<events, today>>

\* The sum is today's, whenever the event happened.
Score(p) ==
    LET points == Finalise(awards[p].raw, AwardedOn(awards[p].user, today))
    IN  /\ AwardAt(p, "sum")
        /\ IF points <= 0
           THEN End(p, "skipped")
           ELSE awards' = [awards EXCEPT ![p].stage = "insert", ![p].points = points]
        /\ UNCHANGED <<events, today>>

Insert(p) ==
    LET q == awards[p]
    IN  /\ AwardAt(p, "insert")
        /\ Len(events) < MaxEvents
        /\ IF KeyIsFree(q.user, q.key)
           THEN /\ events' = Append(events,
                        [user |-> q.user, key |-> q.key, points |-> q.points, revoked |-> FALSE,
                         day |-> OccurredAt(q.day)])
                /\ End(p, "awarded")
           ELSE End(p, "duplicate") /\ UNCHANGED events
        /\ UNCHANGED today

\* The server stops, or a statement fails: nothing of the award is written.
Fail(p) ==
    /\ ~AwardAt(p, "idle")
    /\ End(p, "none")
    /\ UNCHANGED <<events, today>>

\* One UPDATE; the undo of a review gives no user, a learner's own revocation
\* does.
RevokeByDedupeKey(users, k) ==
    /\ k \notin Keyless
    /\ \E u \in users : Paid(u, k)
    /\ events' = [i \in DOMAIN events |->
                     IF events[i].key = k /\ events[i].user \in users
                     THEN [events[i] EXCEPT !.revoked = TRUE]
                     ELSE events[i]]
    /\ UNCHANGED <<today, awards>>

NextDay ==
    /\ today < LastDay
    /\ today' = today + 1
    /\ UNCHANGED <<events, awards>>

--------------------------------------------------------------------------------
LedgerInit ==
    /\ events = <<>>
    /\ today = 0
    /\ awards = [p \in AwardSlots |-> NoAward]

Award(p) ==
    \/ \E u \in Users, k \in Keys, raw \in RawPoints, day \in Days \cup {Now} :
           Report(p, u, k, raw, day)
    \/ FindExisting(p)
    \/ Score(p)
    \/ Insert(p)
    \/ Fail(p)

LedgerNext ==
    \/ \E p \in AwardSlots : Award(p)
    \/ \E k \in Keys : \/ RevokeByDedupeKey(Users, k)
                       \/ \E u \in Users : RevokeByDedupeKey({u}, k)
    \/ NextDay

LedgerSpec == LedgerInit /\ [][LedgerNext]_ledgerVars

--------------------------------------------------------------------------------
(***************************************************************************)
(* Properties                                                              *)
(***************************************************************************)

\* The ledger and the locals of the awards have their types; what is in the
\* ledger has a day and no negative points.
LedgerTypeOK ==
    /\ events \in Seq(XpEvent)
    /\ today \in Days
    /\ awards \in [AwardSlots -> [stage : AwardStages, user : Users, key : Keys, raw : Nat,
                               day : Days \cup {Now}, points : Nat, outcome : AwardOutcomes]]

\* A domain event that has a dedupe key is paid once per learner, however many
\* replays overlap, and not again after it was revoked; and who is refused as a
\* duplicate was paid, another learner with the same key being no reason.
PaidOnce ==
    /\ \A i, j \in DOMAIN events :
          (/\ events[i].key \notin Keyless
           /\ events[i].user = events[j].user
           /\ events[i].key = events[j].key)
          => i = j
    /\ \A p \in AwardSlots :
          awards[p].outcome = "duplicate" => Paid(awards[p].user, awards[p].key)

\* Awards that overlap all see the sum before any of them is inserted.  The
\* cap is then exceeded by less than one award for each other request.
CapNearlyHolds ==
    \A u \in Users, day \in Days :
        DailyCap > 0 =>
            AwardedOn(u, day) <= DailyCap + (Cardinality(AwardSlots) - 1) * Max(RawPoints)
================================================================================
