---------------------------- MODULE DeltaPullProofs ----------------------------
(***************************************************************************)
(* Proofs about DeviceRegistry and DeltaPull for every set of devices,     *)
(* registrations, cards and reviews, any page size and any clock.          *)
(***************************************************************************)
EXTENDS DeltaPull, TLAPS

--------------------------------------------------------------------------------
(* The registry.                                                           *)

RegistryInv == RegistryTypeOK /\ LastWordCounts

RegistryRequest == [busy : BOOLEAN, device : Tablets, row : Nat]

LEMMA NotRegisteringType == NotRegistering \in RegistryRequest /\ NotRegistering.row = 0
BY RegistryAssumption DEF NotRegistering, RegistryRequest

LEMMA RegistryStarts == RegistryInit => RegistryInv
BY NotRegisteringType DEF RegistryInit, RegistryInv, RegistryTypeOK, LastWordCounts, RegistryRequest

\* A registration that looks for its device finds a row there is, or none.
LEMMA LookKeeps ==
    ASSUME RegistryInv, NEW r \in Registrations, NEW d \in Tablets, LookForDevice(r, d)
    PROVE  RegistryInv'
<1>1. PICK i \in IF registry[d] = <<>> THEN {0} ELSE DOMAIN registry[d] :
             registering' = [registering EXCEPT ![r] = [busy |-> TRUE, device |-> d, row |-> i]]
    BY DEF LookForDevice
<1>2. registry[d] \in Seq(BOOLEAN) /\ DOMAIN registry[d] = 1 .. Len(registry[d])
    BY DEF RegistryInv, RegistryTypeOK
<1>3. i \in 0 .. Len(registry[d])
    BY <1>2
<1>4. registry' = registry /\ lastWord' = lastWord
    BY DEF LookForDevice
<1>5. registering' \in [Registrations -> RegistryRequest]
    BY <1>1, <1>3 DEF RegistryInv, RegistryTypeOK, RegistryRequest
<1>6. \A q \in Registrations : registering'[q].row \in 0 .. Len(registry[registering'[q].device])
    BY <1>1, <1>3 DEF RegistryInv, RegistryTypeOK
<1> QED BY <1>4, <1>5, <1>6 DEF RegistryInv, RegistryTypeOK, LastWordCounts, MayBeAdmitted, RegistryRequest

\* Where a row was found it is still, because revocations keep the rows.
LEMMA WriteKeeps ==
    ASSUME RegistryInv, NEW r \in Registrations, WriteDevice(r)
    PROVE  RegistryInv'
<1> DEFINE d == registering[r].device
           i == registering[r].row
           rows == IF i = 0 THEN Append(registry[d], FALSE) ELSE [registry[d] EXCEPT ![i] = FALSE]
<1>1. d \in Tablets /\ i \in 0 .. Len(registry[d]) /\ registry[d] \in Seq(BOOLEAN)
    BY DEF RegistryInv, RegistryTypeOK
<1>2. /\ registry' = [registry EXCEPT ![d] = rows]
      /\ lastWord' = [lastWord EXCEPT ![d] = "registered"]
      /\ registering' = [registering EXCEPT ![r] = NotRegistering]
    BY DEF WriteDevice
<1>3. rows \in Seq(BOOLEAN) /\ Len(rows) >= Len(registry[d])
    <2>1. CASE i = 0
        BY <1>1, <2>1
    <2>2. CASE i # 0
        BY <1>1, <2>2
    <2> QED BY <2>1, <2>2
<1>4. \E j \in DOMAIN rows : ~rows[j]
    <2>1. CASE i = 0
        <3>1. rows = Append(registry[d], FALSE) /\ rows \in Seq(BOOLEAN)
            BY <1>3, <2>1
        <3>2. /\ Len(rows) = Len(registry[d]) + 1
              /\ rows[Len(registry[d]) + 1] = FALSE
              /\ DOMAIN rows = 1 .. Len(rows)
            BY <1>1, <3>1
        <3> QED BY <1>1, <3>2
    <2>2. CASE i # 0
        BY <1>1, <2>2
    <2> QED BY <2>1, <2>2
<1>5. registry' \in [Tablets -> Seq(BOOLEAN)] /\ registry'[d] = rows
      /\ \A e \in Tablets : e # d => registry'[e] = registry[e]
    BY <1>1, <1>2, <1>3 DEF RegistryInv, RegistryTypeOK
<1> HIDE DEF rows
<1>6. registering' \in [Registrations -> RegistryRequest]
    BY <1>2, NotRegisteringType DEF RegistryInv, RegistryTypeOK, RegistryRequest
<1>7. \A q \in Registrations : registering'[q].row \in 0 .. Len(registry'[registering'[q].device])
    <2>1. \A e \in Tablets : Len(registry'[e]) \in Nat /\ Len(registry'[e]) >= Len(registry[e])
        <3>1. \A e \in Tablets : registry[e] \in Seq(BOOLEAN) /\ registry'[e] \in Seq(BOOLEAN)
            BY <1>5 DEF RegistryInv, RegistryTypeOK
        <3>2. \A e \in Tablets : Len(registry[e]) \in Nat /\ Len(registry'[e]) \in Nat
            BY <3>1
        <3> QED BY <1>3, <1>5, <3>2
    <2>2. NotRegistering.device \in Tablets /\ NotRegistering.row = 0
        BY NotRegisteringType DEF RegistryRequest
    <2>3. TAKE q \in Registrations
    <2>4. CASE q = r
        BY <1>2, <2>1, <2>2, <2>4 DEF RegistryInv, RegistryTypeOK
    <2>5. CASE q # r
        BY <1>2, <2>1, <2>5 DEF RegistryInv, RegistryTypeOK
    <2> QED BY <2>4, <2>5
<1>8. LastWordCounts'
    BY <1>1, <1>2, <1>4, <1>5 DEF RegistryInv, RegistryTypeOK, LastWordCounts, MayBeAdmitted
<1> QED BY <1>2, <1>5, <1>6, <1>7, <1>8 DEF RegistryInv, RegistryTypeOK, RegistryRequest

LEMMA RevokeKeeps ==
    ASSUME RegistryInv, NEW d \in Tablets, RevokeDevice(d)
    PROVE  RegistryInv'
<1> DEFINE rows == [i \in DOMAIN registry[d] |-> TRUE]
<1>1. registry[d] \in Seq(BOOLEAN) /\ DOMAIN registry[d] = 1 .. Len(registry[d])
    BY DEF RegistryInv, RegistryTypeOK
<1>2. rows \in Seq(BOOLEAN) /\ Len(rows) = Len(registry[d]) /\ DOMAIN rows = DOMAIN registry[d]
    BY <1>1
<1>3. \A i \in DOMAIN rows : rows[i]
    OBVIOUS
<1> HIDE DEF rows
<1>4. /\ registry' = [registry EXCEPT ![d] = rows]
      /\ lastWord' = [lastWord EXCEPT ![d] = "revoked"]
      /\ registering' = registering
    BY DEF RevokeDevice, rows
<1>5. RegistryTypeOK'
    BY <1>2, <1>4 DEF RegistryInv, RegistryTypeOK
<1>6. LastWordCounts'
    BY <1>3, <1>4 DEF RegistryInv, RegistryTypeOK, LastWordCounts, MayBeAdmitted
<1> QED BY <1>5, <1>6 DEF RegistryInv

LEMMA RegistryNextKeeps ==
    ASSUME RegistryInv, RegistryNext \/ UNCHANGED registryVars
    PROVE  RegistryInv'
<1>1. CASE UNCHANGED registryVars
    BY <1>1 DEF RegistryInv, RegistryTypeOK, LastWordCounts, MayBeAdmitted, registryVars
<1>2. CASE RegistryNext
    BY <1>2, LookKeeps, WriteKeeps, RevokeKeeps DEF RegistryNext
<1> QED BY <1>1, <1>2

\* What was last done about a device counts, and rows and calls have their
\* types: for any number of registrations that overlap, requireDevice included.
THEOREM DevicesObeyTheLastWord == RegistrySpec => [](RegistryTypeOK /\ LastWordCounts)
<1>1. RegistryInv /\ [RegistryNext]_registryVars => RegistryInv'
    BY RegistryNextKeeps
<1>2. RegistryInv => RegistryTypeOK /\ LastWordCounts
    BY DEF RegistryInv
<1> QED BY RegistryStarts, <1>1, <1>2, PTL DEF RegistrySpec

--------------------------------------------------------------------------------
(* The pull.  What makes OnlyPassedIsMissed inductive is what a pull knows  *)
(* of the tables it has read: every row that changed since its cursor, and *)
(* every row of its page, is in the page or among the skipped with the     *)
(* version it has now.                                                     *)

OnPage(d, r) == \E t \in Times : <<r, t>> \in pull[d].page

Knows(d) ==
    /\ pull[d].stage # "idle" => pull[d].since \in {0, cursor[d]}
    /\ \A r \in Rows, t \in Times, u \in Times :
          <<r, t>> \in pull[d].page /\ <<r, u>> \in pull[d].page => t = u
    /\ \A r \in Rows : OnPage(d, r) => HasRead(d, r)
    /\ \A r \in Rows : HasRead(d, r) /\ (stamp[r] > pull[d].since \/ OnPage(d, r))
          => <<r, stamp[r]>> \in pull[d].page \cup pull[d].skipped

MissedInv(d) ==
    \A r \in Rows :
        (stamp[r] # 0 /\ stamp[r] <= cursor[d] /\ have[d][r] # stamp[r])
            => <<r, stamp[r]>> \in passed[d]

PullInv == PullTypeOK /\ \A d \in Tablets : Knows(d) /\ MissedInv(d)

LEMMA TimesAreNumbers == Times \subseteq Nat /\ 0 \in Times
BY PullAssumption DEF Times

LEMMA NoPullType ==
    /\ NoPull \in Pull
    /\ NoPull.stage = "idle" /\ NoPull.page = {} /\ NoPull.skipped = {} /\ NoPull.since = 0
BY TimesAreNumbers DEF NoPull, Pull, PullStages, Versions

LEMMA PullStarts == PullInit => PullInv
<1> SUFFICES ASSUME PullInit PROVE PullInv
    OBVIOUS
<1>1. PullTypeOK
    BY NoPullType, TimesAreNumbers, PullAssumption DEF PullInit, PullTypeOK, Times, Rows
<1>2. ASSUME NEW d \in Tablets PROVE Knows(d) /\ MissedInv(d)
    BY NoPullType DEF PullInit, Knows, MissedInv, OnPage, HasRead, Rows
<1> QED BY <1>1, <1>2 DEF PullInv

\* The other devices do not notice a step of a device's pull.
LEMMA OthersStay ==
    ASSUME PullInv, NEW d \in Tablets, NEW q \in Pull, pull' = [pull EXCEPT ![d] = q],
           UNCHANGED stamp, NEW e \in Tablets, e # d,
           cursor'[e] = cursor[e], have'[e] = have[e], passed'[e] = passed[e]
    PROVE  Knows(e)' /\ MissedInv(e)'
<1>1. pull'[e] = pull[e]
    BY DEF PullInv, PullTypeOK
<1>2. Knows(e)' <=> Knows(e)
    BY <1>1 DEF Knows, OnPage, HasRead
<1>3. MissedInv(e)' <=> MissedInv(e)
    BY DEF MissedInv
<1> QED BY <1>2, <1>3 DEF PullInv

\* A row that is written while a pull has read its table is among the skipped.
LEMMA WriteRowKeeps ==
    ASSUME PullInv, NEW r \in Rows, NEW t \in Times \ {0}, WriteRow(r, t),
           cursor' = cursor, have' = have, now' = now, grading' \in [CardRows -> Times]
    PROVE  PullInv'
<1> DEFINE q(d) == IF HasRead(d, r) THEN [pull[d] EXCEPT !.skipped = @ \cup {<<r, t>>}]
                   ELSE pull[d]
<1>1. \A d \in Tablets : pull'[d] = q(d)
    BY DEF WriteRow
<1>2. \A d \in Tablets : pull[d] \in Pull
    BY DEF PullInv, PullTypeOK
<1>3. <<r, t>> \in Versions
    BY DEF Versions
<1>4. ASSUME NEW d \in Tablets
      PROVE  /\ q(d) \in Pull
             /\ q(d).stage = pull[d].stage /\ q(d).page = pull[d].page
             /\ q(d).since = pull[d].since
             /\ pull[d].skipped \subseteq q(d).skipped
             /\ HasRead(d, r) => <<r, t>> \in q(d).skipped
    <2>1. pull[d] \in Pull
        BY <1>2
    <2>2. CASE HasRead(d, r)
        BY <1>3, <2>1, <2>2 DEF Pull
    <2>3. CASE ~HasRead(d, r)
        BY <2>1, <2>3
    <2> QED BY <2>2, <2>3
<1> HIDE DEF q
<1>5. stamp' = [stamp EXCEPT ![r] = t] /\ stamp \in [Rows -> Times]
    BY DEF WriteRow, PullInv, PullTypeOK
<1>6. \A d \in Tablets : /\ passed[d] \subseteq passed'[d]
                         /\ t <= cursor[d] => <<r, t>> \in passed'[d]
    BY DEF WriteRow
<1>7. PullTypeOK'
    <2>1. pull' \in [Tablets -> Pull]
        BY <1>1, <1>4 DEF WriteRow, q
    <2>2. passed' \in [Tablets -> SUBSET Versions]
        BY <1>3 DEF WriteRow, PullInv, PullTypeOK
    <2>3. stamp' \in [Rows -> Times]
        BY <1>5
    <2> QED BY <2>1, <2>2, <2>3 DEF PullInv, PullTypeOK
<1>8. ASSUME NEW d \in Tablets PROVE Knows(d)' /\ MissedInv(d)'
    <2>1. Knows(d) /\ MissedInv(d)
        BY DEF PullInv
    <2>2. \A s \in Rows : /\ OnPage(d, s)' <=> OnPage(d, s)
                          /\ HasRead(d, s)' <=> HasRead(d, s)
        BY <1>1, <1>4 DEF OnPage, HasRead
    <2>3. ASSUME NEW s \in Rows, HasRead(d, s)', stamp'[s] > pull'[d].since \/ OnPage(d, s)'
          PROVE  <<s, stamp'[s]>> \in pull'[d].page \cup pull'[d].skipped
        <3>1. CASE s = r
            BY <1>1, <1>4, <1>5, <2>2, <2>3, <3>1
        <3>2. CASE s # r
            BY <1>1, <1>4, <1>5, <2>1, <2>2, <2>3, <3>2 DEF Knows
        <3> QED BY <3>1, <3>2
    <2>4. Knows(d)'
        BY <1>1, <1>4, <2>1, <2>2, <2>3 DEF Knows
    <2>5. MissedInv(d)'
        <3> SUFFICES ASSUME NEW s \in Rows, stamp'[s] # 0, stamp'[s] <= cursor[d],
                            have[d][s] # stamp'[s]
                     PROVE  <<s, stamp'[s]>> \in passed'[d]
            BY DEF MissedInv
        <3>1. CASE s = r
            BY <1>5, <1>6, <3>1
        <3>2. CASE s # r
            BY <1>5, <1>6, <2>1, <3>2 DEF MissedInv
        <3> QED BY <3>1, <3>2
    <2> QED BY <2>4, <2>5
<1> QED BY <1>7, <1>8 DEF PullInv

LEMMA StartPullKeeps ==
    ASSUME PullInv, NEW d \in Tablets, NEW snapshot \in BOOLEAN, StartPull(d, snapshot)
    PROVE  PullInv'
<1> DEFINE q == [NoPull EXCEPT !.stage = "cards", !.since = IF snapshot THEN 0 ELSE cursor[d]]
<1>1. /\ pull' = [pull EXCEPT ![d] = q]
      /\ UNCHANGED <<now, stamp, grading, have, cursor, passed>>
    BY DEF StartPull
<1>2. /\ q \in Pull /\ q.stage = "cards" /\ q.page = {} /\ q.skipped = {}
      /\ q.since \in {0, cursor[d]}
    BY NoPullType, TimesAreNumbers DEF PullInv, PullTypeOK, Pull, PullStages
<1> HIDE DEF q
<1>3. pull'[d] = q /\ pull' \in [Tablets -> Pull]
    BY <1>1, <1>2 DEF PullInv, PullTypeOK
<1>4. Knows(d)' /\ MissedInv(d)'
    BY <1>1, <1>2, <1>3 DEF PullInv, Knows, MissedInv, OnPage, HasRead
<1>5. PullTypeOK'
    BY <1>1, <1>3 DEF PullInv, PullTypeOK
<1>6. \A e \in Tablets : e # d => Knows(e)' /\ MissedInv(e)'
    BY <1>1, <1>2, OthersStay
<1> QED BY <1>4, <1>5, <1>6 DEF PullInv

\* A page and what was cut from it are all the rows that changed.
LEMMA ReadPageKeeps ==
    ASSUME PullInv, NEW d \in Tablets,
           NEW table \in SUBSET Rows, NEW stage \in PullStages \ {"idle"},
           \A r \in table : ~HasRead(d, r),
           \A r \in Rows : HasRead(d, r)' <=> HasRead(d, r) \/ r \in table,
           pull[d].stage # "idle",
           ReadPage(d, table, stage)
    PROVE  PullInv'
<1> DEFINE rows == Changed(table, pull[d].since)
<1>1. PICK page \in Pages(rows) :
         pull' = [pull EXCEPT ![d] =
                    [pull[d] EXCEPT !.stage = stage,
                                    !.page = pull[d].page \cup VersionsOf(page),
                                    !.skipped = pull[d].skipped \cup VersionsOf(rows \ page)]]
    BY DEF ReadPage
<1> DEFINE q == [pull[d] EXCEPT !.stage = stage,
                                !.page = pull[d].page \cup VersionsOf(page),
                                !.skipped = pull[d].skipped \cup VersionsOf(rows \ page)]
<1>2. UNCHANGED <<now, stamp, grading, have, cursor, passed>>
    BY DEF ReadPage
<1>3. pull[d] \in Pull /\ Knows(d) /\ MissedInv(d) /\ stamp \in [Rows -> Times]
    BY DEF PullInv, PullTypeOK
<1>4. page \subseteq rows /\ rows \subseteq table /\ rows \subseteq Rows
    BY DEF Pages, Changed
<1>5. /\ VersionsOf(page) \subseteq Versions /\ VersionsOf(rows \ page) \subseteq Versions
    BY <1>3, <1>4 DEF VersionsOf, Versions
<1>6. /\ q \in Pull /\ q.stage = stage /\ q.since = pull[d].since
      /\ q.page = pull[d].page \cup VersionsOf(page)
      /\ q.skipped = pull[d].skipped \cup VersionsOf(rows \ page)
    BY <1>3, <1>5 DEF Pull
<1>7. pull'[d] = q /\ pull' = [pull EXCEPT ![d] = q] /\ pull' \in [Tablets -> Pull]
    BY <1>1, <1>6 DEF PullInv, PullTypeOK
<1> HIDE DEF q
<1>8. \A r \in Rows, t \in Times :
         <<r, t>> \in q.page <=> <<r, t>> \in pull[d].page \/ (r \in page /\ t = stamp[r])
    BY <1>6 DEF VersionsOf
<1>9. \A r \in Rows : OnPage(d, r) => r \notin table
    BY <1>3 DEF Knows
<1>10. Knows(d)'
    <2>1. pull'[d].since \in {0, cursor'[d]}
        BY <1>2, <1>3, <1>6, <1>7 DEF Knows
    <2>2. \A r \in Rows, t \in Times, u \in Times :
             <<r, t>> \in pull'[d].page /\ <<r, u>> \in pull'[d].page => t = u
        <3>1. ASSUME NEW r \in Rows, NEW t \in Times, NEW u \in Times,
                     <<r, t>> \in q.page, <<r, u>> \in q.page
              PROVE  t = u
            <4>1. CASE r \in page
                <5>1. <<r, t>> \notin pull[d].page /\ <<r, u>> \notin pull[d].page
                    BY <1>4, <1>9, <4>1 DEF OnPage
                <5> QED BY <1>8, <3>1, <5>1
            <4>2. CASE r \notin page
                <5>1. <<r, t>> \in pull[d].page /\ <<r, u>> \in pull[d].page
                    BY <1>8, <3>1, <4>2
                <5> QED BY <1>3, <5>1 DEF Knows
            <4> QED BY <4>1, <4>2
        <3> QED BY <1>7, <3>1
    <2>3. \A r \in Rows : OnPage(d, r)' => HasRead(d, r)'
        BY <1>3, <1>4, <1>7, <1>8 DEF Knows, OnPage
    <2>4. ASSUME NEW r \in Rows, HasRead(d, r)', stamp[r] > pull[d].since \/ OnPage(d, r)'
          PROVE  <<r, stamp[r]>> \in q.page \cup q.skipped
        <3>1. CASE r \in page
            BY <1>3, <1>8, <3>1
        <3>2. CASE r \in rows \ page
            BY <1>6, <3>2 DEF VersionsOf
        <3>3. CASE r \notin rows
            <4>1. stamp[r] \in Nat /\ pull[d].since \in Nat
                BY <1>3, TimesAreNumbers DEF Pull
            <4>2. CASE r \in table
                <5>1. ~(stamp[r] > pull[d].since)
                    BY <3>3, <4>2 DEF Changed
                <5>2. OnPage(d, r)
                    BY <1>4, <1>7, <1>8, <2>4, <3>3, <5>1 DEF OnPage
                <5> QED BY <1>9, <4>2, <5>2
            <4>3. CASE r \notin table
                <5>1. HasRead(d, r)
                    BY <2>4, <4>3
                <5>2. OnPage(d, r)' => OnPage(d, r)
                    BY <1>4, <1>7, <1>8, <4>3 DEF OnPage
                <5> QED BY <1>3, <1>6, <2>4, <5>1, <5>2 DEF Knows
            <4> QED BY <4>2, <4>3
        <3> QED BY <3>1, <3>2, <3>3
    <2> QED BY <1>2, <1>6, <1>7, <2>1, <2>2, <2>3, <2>4 DEF Knows
<1>11. MissedInv(d)'
    BY <1>2, <1>3 DEF MissedInv
<1>12. \A e \in Tablets : e # d => Knows(e)' /\ MissedInv(e)'
    BY <1>2, <1>6, <1>7, OthersStay
<1> QED BY <1>2, <1>7, <1>10, <1>11, <1>12 DEF PullInv, PullTypeOK

LEMMA ReadPageMoves ==
    ASSUME pull \in [Tablets -> Pull], NEW d \in Tablets, NEW table, NEW stage,
           ReadPage(d, table, stage)
    PROVE  pull'[d].stage = stage
BY DEF ReadPage, Pull

LEMMA ReadsKeep ==
    ASSUME PullInv, NEW d \in Tablets, ReadCardPage(d) \/ ReadReviewPage(d)
    PROVE  PullInv'
<1>1. pull \in [Tablets -> Pull]
    BY DEF PullInv, PullTypeOK
<1>2. CASE ReadCardPage(d)
    <2>1. pull'[d].stage = "reviews"
        BY <1>1, <1>2, ReadPageMoves DEF ReadCardPage
    <2>2. /\ \A r \in CardRows : ~HasRead(d, r)
          /\ \A r \in Rows : HasRead(d, r)' <=> HasRead(d, r) \/ r \in CardRows
        BY <1>2, <2>1 DEF ReadCardPage, HasRead
    <2>3. "reviews" \in PullStages \ {"idle"} /\ CardRows \in SUBSET Rows
        BY DEF PullStages, Rows
    <2> QED BY <1>2, <2>2, <2>3, ReadPageKeeps DEF ReadCardPage
<1>3. CASE ReadReviewPage(d)
    <2>1. pull'[d].stage = "cursor"
        BY <1>1, <1>3, ReadPageMoves DEF ReadReviewPage
    <2>2. /\ \A r \in ReviewRows : ~HasRead(d, r)
          /\ \A r \in Rows : HasRead(d, r)' <=> HasRead(d, r) \/ r \in ReviewRows
        BY <1>3, <2>1, PullAssumption DEF ReadReviewPage, HasRead, Rows
    <2>3. "cursor" \in PullStages \ {"idle"} /\ ReviewRows \in SUBSET Rows
        BY DEF PullStages, Rows
    <2> QED BY <1>3, <2>2, <2>3, ReadPageKeeps DEF ReadReviewPage
<1> QED BY <1>2, <1>3

LEMMA TakeCursorKeeps ==
    ASSUME PullInv, NEW d \in Tablets, TakeCursor(d)
    PROVE  PullInv'
<1> DEFINE q == [pull[d] EXCEPT !.stage = "answer", !.next = now]
<1>1. /\ pull' = [pull EXCEPT ![d] = q] /\ pull[d].stage = "cursor"
      /\ UNCHANGED <<now, stamp, grading, have, cursor, passed>>
    BY DEF TakeCursor
<1>2. pull[d] \in Pull /\ now \in Times
    BY DEF PullInv, PullTypeOK
<1>3. /\ q \in Pull /\ q.stage = "answer" /\ q.since = pull[d].since
      /\ q.page = pull[d].page /\ q.skipped = pull[d].skipped
    BY <1>2 DEF Pull, PullStages
<1> HIDE DEF q
<1>4. pull'[d] = q /\ pull' \in [Tablets -> Pull]
    BY <1>1, <1>3 DEF PullInv, PullTypeOK
<1>5. Knows(d)' /\ MissedInv(d)'
    <2>1. Knows(d) /\ MissedInv(d)
        BY DEF PullInv
    <2>2. \A r \in Rows : HasRead(d, r)' /\ HasRead(d, r) /\ (OnPage(d, r)' <=> OnPage(d, r))
        BY <1>1, <1>3, <1>4 DEF HasRead, OnPage
    <2>3. Knows(d)'
        BY <1>1, <1>3, <1>4, <2>1, <2>2 DEF Knows
    <2>4. MissedInv(d)'
        BY <1>1, <2>1 DEF MissedInv
    <2> QED BY <2>3, <2>4
<1>6. \A e \in Tablets : e # d => Knows(e)' /\ MissedInv(e)'
    BY <1>1, <1>3, OthersStay
<1> QED BY <1>1, <1>4, <1>5, <1>6 DEF PullInv, PullTypeOK

\* A device whose pull is over knows nothing it would have to keep.
LEMMA IdleKnows ==
    ASSUME NEW d \in Tablets, pull'[d] = NoPull
    PROVE  Knows(d)'
BY NoPullType DEF Knows, OnPage, HasRead

LEMMA LoseAnswerKeeps ==
    ASSUME PullInv, NEW d \in Tablets, LoseAnswer(d)
    PROVE  PullInv'
<1>1. /\ pull' = [pull EXCEPT ![d] = NoPull]
      /\ UNCHANGED <<now, stamp, grading, have, cursor, passed>>
    BY DEF LoseAnswer
<1>2. pull'[d] = NoPull /\ pull' \in [Tablets -> Pull]
    BY <1>1, NoPullType DEF PullInv, PullTypeOK
<1>3. Knows(d)' /\ MissedInv(d)'
    BY <1>1, <1>2, IdleKnows DEF PullInv, MissedInv
<1>4. \A e \in Tablets : e # d => Knows(e)' /\ MissedInv(e)'
    BY <1>1, NoPullType, OthersStay
<1> QED BY <1>1, <1>2, <1>3, <1>4 DEF PullInv, PullTypeOK

\* The device has, or has passed, the version of every row the pull knows of;
\* the others are as old as its old cursor, or were never written.
LEMMA ApplyAnswerKeeps ==
    ASSUME PullInv, NEW d \in Tablets, ApplyAnswer(d)
    PROVE  PullInv'
<1> DEFINE q == pull[d]
           got == [r \in Rows |-> IF \E t \in Times : <<r, t>> \in q.page
                                  THEN CHOOSE t \in Times : <<r, t>> \in q.page
                                  ELSE have[d][r]]
           lost == IF q.since = 0 THEN q.skipped ELSE passed[d] \cup q.skipped
<1>1. /\ q.stage = "answer"
      /\ have' = [have EXCEPT ![d] = got]
      /\ cursor' = [cursor EXCEPT ![d] = q.next]
      /\ passed' = [passed EXCEPT ![d] = lost]
      /\ pull' = [pull EXCEPT ![d] = NoPull]
      /\ UNCHANGED <<now, stamp, grading>>
    BY DEF ApplyAnswer
<1>2. /\ q \in Pull /\ Knows(d) /\ MissedInv(d) /\ stamp \in [Rows -> Times]
      /\ have \in [Tablets -> [Rows -> Times]] /\ passed \in [Tablets -> SUBSET Versions]
      /\ cursor \in [Tablets -> Times]
    BY DEF PullInv, PullTypeOK
<1>3. got \in [Rows -> Times] /\ lost \in SUBSET Versions /\ q.next \in Times
    BY <1>2 DEF Pull
<1>4. PullTypeOK'
    BY <1>1, <1>2, <1>3, NoPullType DEF PullInv, PullTypeOK
<1>5. /\ pull'[d] = NoPull /\ have'[d] = got /\ passed'[d] = lost
    BY <1>1, <1>2 DEF PullInv, PullTypeOK
<1>6. MissedInv(d)'
    <2> SUFFICES ASSUME NEW r \in Rows, stamp[r] # 0, got[r] # stamp[r]
                 PROVE  \/ <<r, stamp[r]>> \in lost
        BY <1>1, <1>5 DEF MissedInv
    <2>1. HasRead(d, r)
        BY <1>1 DEF HasRead
    <2>2. stamp[r] \in Times /\ stamp[r] \in Nat /\ q.since \in Nat /\ cursor[d] \in Nat
        BY <1>2, TimesAreNumbers DEF Pull
    <2>3. CASE stamp[r] > q.since \/ OnPage(d, r)
        <3>1. <<r, stamp[r]>> \in q.page \cup q.skipped
            BY <1>2, <2>1, <2>3 DEF Knows
        <3>2. <<r, stamp[r]>> \notin q.page
            <4>1. SUFFICES ASSUME <<r, stamp[r]>> \in q.page PROVE FALSE
                OBVIOUS
            <4>2. \A t \in Times : <<r, t>> \in q.page => t = stamp[r]
                BY <1>2, <2>2, <4>1 DEF Knows
            <4>3. got[r] = stamp[r]
                BY <2>2, <4>1, <4>2
            <4> QED BY <4>3
        <3> QED BY <3>1, <3>2
    <2>4. CASE ~(stamp[r] > q.since) /\ ~OnPage(d, r)
        <3>1. q.since # 0 /\ q.since = cursor[d]
            BY <1>1, <1>2, <2>2, <2>4 DEF Knows
        <3>2. got[r] = have[d][r]
            BY <2>4 DEF OnPage
        <3>3. stamp[r] # 0 /\ have[d][r] # stamp[r]
            BY <3>2
        <3>4. stamp[r] <= cursor[d]
            BY <2>2, <2>4, <3>1
        <3>5. <<r, stamp[r]>> \in passed[d]
            BY <1>2, <3>3, <3>4 DEF MissedInv
        <3> QED BY <3>1, <3>5
    <2> QED BY <2>3, <2>4
<1>7. Knows(d)'
    BY <1>5, IdleKnows
<1> HIDE DEF got, lost
<1>8. \A e \in Tablets : e # d => Knows(e)' /\ MissedInv(e)'
    BY <1>1, NoPullType, OthersStay DEF PullInv, PullTypeOK
<1> QED BY <1>4, <1>6, <1>7, <1>8 DEF PullInv

LEMMA TablesStepKeeps ==
    ASSUME PullInv,
           \/ Tick
           \/ \E c \in CardRows : BeginGrading(c) \/ WriteCard(c)
           \/ \E r \in ReviewRows, t \in Times \ {0} : LogReview(r, t)
    PROVE  PullInv'
<1>1. CASE Tick
    <2>1. now' \in Times \ {0}
        BY <1>1, PullAssumption DEF Tick, Times, PullInv, PullTypeOK
    <2> QED BY <1>1, <2>1 DEF Tick, PullInv, PullTypeOK, Knows, MissedInv, OnPage, HasRead
<1>2. ASSUME NEW c \in CardRows, BeginGrading(c) PROVE PullInv'
    <2>1. grading' \in [CardRows -> Times]
        BY <1>2 DEF BeginGrading, PullInv, PullTypeOK
    <2> QED BY <1>2, <2>1 DEF BeginGrading, PullInv, PullTypeOK, Knows, MissedInv, OnPage, HasRead
<1>3. ASSUME NEW c \in CardRows, WriteCard(c) PROVE PullInv'
    <2>1. grading[c] \in Times \ {0} /\ c \in Rows /\ grading' \in [CardRows -> Times]
        BY <1>3, TimesAreNumbers DEF WriteCard, PullInv, PullTypeOK, Rows
    <2> QED BY <1>3, <2>1, WriteRowKeeps DEF WriteCard
<1>4. ASSUME NEW r \in ReviewRows, NEW t \in Times \ {0}, LogReview(r, t) PROVE PullInv'
    <2>1. grading' \in [CardRows -> Times] /\ r \in Rows
        BY <1>4 DEF LogReview, PullInv, PullTypeOK, Rows
    <2> QED BY <1>4, <2>1, WriteRowKeeps DEF LogReview
<1> QED BY <1>1, <1>2, <1>3, <1>4

LEMMA PullNextKeeps ==
    ASSUME PullInv, PullNext \/ UNCHANGED pullVars
    PROVE  PullInv'
<1>1. CASE UNCHANGED pullVars
    BY <1>1 DEF pullVars, PullInv, PullTypeOK, Knows, MissedInv, OnPage, HasRead
<1>2. ASSUME NEW d \in Tablets, PullStep(d) PROVE PullInv'
    BY <1>2, StartPullKeeps, ReadsKeep, TakeCursorKeeps, ApplyAnswerKeeps, LoseAnswerKeeps
       DEF PullStep
<1> QED BY <1>1, <1>2, TablesStepKeeps DEF PullNext

\* What a delta pull does not deliver was cut from a page or written behind the
\* cursor, with any number of devices, cards and reviews, any page size, and
\* gradings, pushes, registrations and revocations in between.
THEOREM PullsMissOnlyWhatPassed == SyncSpec => [](PullTypeOK /\ OnlyPassedIsMissed)
<1>1. SyncInit => PullInv
    BY PullStarts DEF SyncInit
<1>2. PullInv /\ [SyncNext]_<<registryVars, pullVars>> => PullInv'
    BY PullNextKeeps DEF SyncNext
<1>3. PullInv => PullTypeOK /\ OnlyPassedIsMissed
    BY DEF PullInv, MissedInv, OnlyPassedIsMissed
<1> QED BY <1>1, <1>2, <1>3, PTL DEF SyncSpec
================================================================================
