---------------------------- MODULE DeviceSyncProofs ---------------------------
(***************************************************************************)
(* Proofs about DeviceSync for any devices, cards, events, request slots   *)
(* and environments: however many pushes overlap, wherever they stop and   *)
(* however often they are repeated.                                        *)
(***************************************************************************)
EXTENDS DeviceSync, WellFoundedInduction, TLAPS

--------------------------------------------------------------------------------
(***************************************************************************)
(* Positions                                                               *)
(***************************************************************************)
\* The smallest of a set of positions.
LEMMA MinIs ==
    ASSUME NEW S, S \subseteq Nat, S # {}
    PROVE  Min(S) \in S /\ \A i \in S : Min(S) <= i
<1>1. PICK m \in S : \A i \in S : m <= i
  <2>1. IsWellFoundedOn(OpToRel(<, Nat), Nat)
    BY NatLessThanWellFounded
  <2>2. PICK m \in S : \A i \in S : ~(<<i, m>> \in OpToRel(<, Nat))
    BY <2>1, WFMin
  <2>3. ASSUME NEW i \in S PROVE m <= i
    <3>1. ~(i < m)
      BY <2>2 DEF OpToRel
    <3> QED BY <3>1
  <2> QED BY <2>3
<1> QED BY <1>1 DEF Min

\* The positions of a sequence of events are natural numbers.
LEMMA PositionsAre ==
    ASSUME NEW s \in Seq(Event)
    PROVE  /\ DOMAIN s \subseteq Nat
           /\ \A i \in DOMAIN s : /\ s[i] \in Event /\ s[i].id \in Events /\ s[i].card \in Cards
                                  /\ s[i].before \in Seq(Events) \cup {None}
<1>1. DOMAIN s \subseteq Nat
  OBVIOUS
<1>2. ASSUME NEW i \in DOMAIN s
      PROVE  /\ s[i] \in Event /\ s[i].id \in Events /\ s[i].card \in Cards
             /\ s[i].before \in Seq(Events) \cup {None}
  <2>1. s[i] \in Event
    OBVIOUS
  <2> QED BY <2>1 DEF Event
<1> QED BY <1>1, <1>2

LEMMA ReplayFromIs ==
    ASSUME NEW s \in Seq(Event), NEW S, S \subseteq DOMAIN s, NEW row \in Seq(Events)
    PROVE  /\ ReplayFrom(row, s, S) \in Seq(Events)
           /\ (\A i \in S : s[i].before = None) => ReplayFrom(row, s, S) = row
           /\ (S # {} /\ \A i \in S : s[i].before # None) =>
                 ReplayFrom(row, s, S) = s[Min(S)].before
<1> DEFINE sent == {i \in S : s[i].before # None}
<1>1. ReplayFrom(row, s, S) = IF sent = {} THEN row ELSE s[Min(sent)].before
  BY DEF ReplayFrom
<1>2. sent # {} => Min(sent) \in sent
  BY PositionsAre, MinIs
<1>3. (\A i \in S : s[i].before # None) => sent = S
  OBVIOUS
<1>4. sent # {} => s[Min(sent)].before \in Seq(Events)
  BY <1>2, PositionsAre
<1> HIDE DEF sent
<1>5. (\A i \in S : s[i].before = None) => sent = {}
  BY DEF sent
<1> QED BY <1>1, <1>3, <1>4, <1>5

--------------------------------------------------------------------------------
(***************************************************************************)
(* Resume                                                                  *)
(***************************************************************************)
\* The request q goes on with the events in fresh, or finishes.
LEMMA ResumeIs ==
    ASSUME NEW q \in Push, NEW s \in Seq(Event), s = made[q.device],
           q.batch \subseteq DOMAIN s, NEW fresh, fresh \subseteq q.batch
    PROVE  /\ Resume(q, fresh) \in Push
           /\ Resume(q, fresh).device = q.device /\ Resume(q, fresh).batch = q.batch
           /\ Resume(q, fresh).rows = q.rows
           /\ fresh = {} => /\ Resume(q, fresh).stage = "finish"
                            /\ Resume(q, fresh).fresh = {}
                            /\ Resume(q, fresh).pending = q.pending
           /\ fresh # {} =>
                 /\ Resume(q, fresh).stage = "insert"
                 /\ Resume(q, fresh).card \in Cards
                 /\ Resume(q, fresh).pending # {}
                 /\ Resume(q, fresh).pending
                       = {i \in fresh : s[i].card = Resume(q, fresh).card}
                 /\ Resume(q, fresh).fresh = fresh \ Resume(q, fresh).pending
                 /\ Resume(q, fresh).state
                       = ReplayFrom(q.rows[Resume(q, fresh).card], s,
                                    Resume(q, fresh).pending)
<1>1. CASE fresh = {}
  <2>1. Resume(q, fresh) = [q EXCEPT !.stage = "finish", !.fresh = {}]
    BY <1>1 DEF Resume
  <2> QED BY <1>1, <2>1 DEF Push, Stages
<1>2. CASE fresh # {}
  <2> DEFINE left == {s[i].card : i \in fresh}
             first == Min({i \in q.batch : s[i].card \in left})
             c == s[first].card
             replayed == {i \in fresh : s[i].card = c}
             state == ReplayFrom(q.rows[c], s, replayed)
             r == [q EXCEPT !.stage = "insert", !.card = c, !.pending = replayed,
                            !.fresh = fresh \ replayed, !.state = state]
  <2>1. Resume(q, fresh) = r
    BY <1>2 DEF Resume
  <2>2. first \in q.batch /\ c \in left
    <3>1. {i \in q.batch : s[i].card \in left} # {}
      BY <1>2
    <3>2. {i \in q.batch : s[i].card \in left} \subseteq Nat
      BY PositionsAre
    <3> QED BY <3>1, <3>2, MinIs
  <2>3. c \in Cards /\ replayed # {} /\ replayed \subseteq DOMAIN s
    BY <2>2, PositionsAre
  <2>4. q.rows[c] \in Seq(Events)
    BY <2>3 DEF Push
  <2>5. state \in Seq(Events)
    BY <2>3, <2>4, ReplayFromIs
  <2>6. replayed \in SUBSET Nat /\ fresh \ replayed \in SUBSET Nat
    BY <2>3, PositionsAre
  <2>7. replayed = {i \in fresh : s[i].card = c}
    OBVIOUS
  <2>8. state = ReplayFrom(q.rows[c], s, replayed)
    OBVIOUS
  <2> HIDE DEF state, replayed, c
  <2>9. /\ r \in Push /\ r.device = q.device /\ r.batch = q.batch /\ r.rows = q.rows
        /\ r.stage = "insert" /\ r.card = c /\ r.pending = replayed
        /\ r.fresh = fresh \ replayed /\ r.state = state
    BY <2>3, <2>5, <2>6 DEF Push, Stages
  <2> HIDE DEF r
  <2> QED BY <1>2, <2>1, <2>3, <2>7, <2>8, <2>9
<1> QED BY <1>1, <1>2

--------------------------------------------------------------------------------
(***************************************************************************)
(* What the actions write                                                  *)
(***************************************************************************)
LEMMA PushTypes ==
    ASSUME TypeOK, NEW p \in Requests
    PROVE  /\ push[p] \in Push
           /\ push[p].stage \in Stages
           /\ push[p].batch \subseteq Nat /\ push[p].state \in Seq(Events)
           /\ push[p].fresh \subseteq push[p].batch
           /\ push[p].pending \subseteq push[p].batch
           /\ push[p].rows \in [Cards -> Seq(Events)]
           /\ push[p].stage # "idle" =>
                 /\ push[p].device \in Devices
                 /\ made[push[p].device] \in Seq(Event)
                 /\ push[p].batch \subseteq DOMAIN made[push[p].device]
<1>1. push[p] \in Push /\ PushTypeOK(push[p])
  BY DEF TypeOK
<1> QED BY <1>1 DEF TypeOK, PushTypeOK, Push

LEMMA IdleIs ==
    /\ Idle \in Push /\ Idle.stage = "idle" /\ Idle.fresh = {} /\ Idle.pending = {}
    /\ Idle.batch = {} /\ \A c \in Cards : Idle.rows[c] = <<>>
<1>1. [c \in Cards |-> <<>>] \in [Cards -> Seq(Events)] /\ <<>> \in Seq(Events)
  OBVIOUS
<1> QED BY <1>1 DEF Idle, Push, Stages

\* A push that ends.
LEMMA EndWrites ==
    ASSUME TypeOK, NEW p \in Requests, push' = [push EXCEPT ![p] = Idle]
    PROVE  /\ push' \in [Requests -> Push] /\ push'[p] = Idle
           /\ \A o \in Requests \ {p} : push'[o] = push[o]
BY IdleIs DEF TypeOK

LEMMA SendWrites ==
    ASSUME TypeOK, NEW p \in Requests, NEW d \in Devices, Send(p, d)
    PROVE  /\ push' \in [Requests -> Push]
           /\ push'[p].stage = "cards" /\ push'[p].device = d /\ push'[p].batch = outbox[d]
           /\ push'[p].fresh = {} /\ push'[p].pending = {}
           /\ \A c \in Cards : push'[p].rows[c] = <<>>
           /\ \A o \in Requests \ {p} : push'[o] = push[o]
<1>1. PICK r : r = [Idle EXCEPT !.stage = "cards", !.device = d, !.batch = outbox[d]]
  OBVIOUS
<1>2. outbox[d] \in SUBSET Nat
  BY DEF TypeOK
<1>3. /\ r \in Push /\ r.stage = "cards" /\ r.device = d /\ r.batch = outbox[d]
      /\ r.fresh = Idle.fresh /\ r.pending = Idle.pending /\ r.rows = Idle.rows
  BY <1>1, <1>2, IdleIs DEF Push, Stages
<1>4. push' = [push EXCEPT ![p] = r]
  BY <1>1 DEF Send
<1>5. /\ push' \in [Requests -> Push] /\ push'[p] = r
      /\ \A o \in Requests \ {p} : push'[o] = push[o]
  BY <1>3, <1>4 DEF TypeOK
<1> QED BY <1>3, <1>5, IdleIs

LEMMA ReadCardsWrites ==
    ASSUME TypeOK, NEW p \in Requests, ReadCards(p)
    PROVE  /\ push' \in [Requests -> Push]
           /\ push'[p].stage = "existing" /\ push'[p].rows = cards
           /\ push'[p].device = push[p].device /\ push'[p].batch = push[p].batch
           /\ push'[p].fresh = push[p].fresh /\ push'[p].pending = push[p].pending
           /\ \A o \in Requests \ {p} : push'[o] = push[o]
<1>1. PICK q \in Push : q = push[p]
  BY DEF TypeOK
<1>2. PICK r : r = [q EXCEPT !.stage = "existing", !.rows = cards]
  OBVIOUS
<1>3. /\ r \in Push /\ r.stage = "existing" /\ r.rows = cards
      /\ r.device = q.device /\ r.batch = q.batch /\ r.fresh = q.fresh /\ r.pending = q.pending
  BY <1>2 DEF TypeOK, Push, Stages
<1>4. push' = [push EXCEPT ![p] = r]
  BY <1>1, <1>2 DEF ReadCards, TypeOK
<1>5. /\ push' \in [Requests -> Push] /\ push'[p] = r
      /\ \A o \in Requests \ {p} : push'[o] = push[o]
  BY <1>3, <1>4 DEF TypeOK
<1> QED BY <1>1, <1>3, <1>5

LEMMA ReadExistingWrites ==
    ASSUME TypeOK, NEW p \in Requests, ReadExisting(p)
    PROVE  LET fresh == Fresh(made[push[p].device], push[p].batch)
           IN  /\ push' \in [Requests -> Push]
               /\ push'[p] = Resume(push[p], fresh)
               /\ fresh \subseteq push[p].batch
               /\ \A o \in Requests \ {p} : push'[o] = push[o]
<1> DEFINE fresh == Fresh(made[push[p].device], push[p].batch)
<1>1. /\ push[p] \in Push /\ made[push[p].device] \in Seq(Event)
      /\ push[p].batch \subseteq DOMAIN made[push[p].device]
  BY PushTypes DEF ReadExisting
<1>2. fresh \subseteq push[p].batch
  BY DEF Fresh
<1>3. PICK q, s : q = push[p] /\ s = made[push[p].device]
  OBVIOUS
<1>4. PICK f : f = fresh
  OBVIOUS
<1>5. Resume(q, f) \in Push
  BY <1>1, <1>2, <1>3, <1>4, ResumeIs
<1>6. push' = [push EXCEPT ![p] = Resume(q, f)]
  BY <1>3, <1>4 DEF ReadExisting
<1>7. /\ push' \in [Requests -> Push] /\ push'[p] = Resume(q, f)
      /\ \A o \in Requests \ {p} : push'[o] = push[o]
  BY <1>5, <1>6 DEF TypeOK
<1> QED BY <1>2, <1>3, <1>4, <1>7

LEMMA UpdateCardWrites ==
    ASSUME TypeOK, NEW p \in Requests, UpdateCard(p)
    PROVE  /\ push' \in [Requests -> Push]
           /\ push'[p] = Resume(push[p], push[p].fresh)
           /\ \A o \in Requests \ {p} : push'[o] = push[o]
           /\ push[p].card \in Cards /\ push[p].pending = {}
           /\ cards' \in [Cards -> Seq(Events)] /\ cards'[push[p].card] = push[p].state
           /\ \A c \in Cards \ {push[p].card} : cards'[c] = cards[c]
<1>1. /\ push[p] \in Push /\ made[push[p].device] \in Seq(Event)
      /\ push[p].batch \subseteq DOMAIN made[push[p].device]
      /\ push[p].fresh \subseteq push[p].batch /\ push[p].state \in Seq(Events)
  BY PushTypes DEF UpdateCard
<1>2. PICK q, s : q = push[p] /\ s = made[push[p].device]
  OBVIOUS
<1>3. PICK f : f = q.fresh
  OBVIOUS
<1>4. Resume(q, f) \in Push
  BY <1>1, <1>2, <1>3, ResumeIs
<1>5. push' = [push EXCEPT ![p] = Resume(q, f)]
  BY <1>2, <1>3 DEF UpdateCard
<1>6. /\ push' \in [Requests -> Push] /\ push'[p] = Resume(q, f)
      /\ \A o \in Requests \ {p} : push'[o] = push[o]
  BY <1>4, <1>5 DEF TypeOK
<1>7. push[p].card \in Cards /\ push[p].pending = {}
  BY DEF TypeOK, PushTypeOK, UpdateCard
<1>8. /\ cards' \in [Cards -> Seq(Events)] /\ cards'[push[p].card] = push[p].state
      /\ \A c \in Cards \ {push[p].card} : cards'[c] = cards[c]
  BY <1>1, <1>7 DEF TypeOK, UpdateCard
<1> QED BY <1>2, <1>3, <1>6, <1>7, <1>8

\* The next event of a push, and its client id.
Next1(p) == Min(push[p].pending)
NextId(p) == made[push[p].device][Next1(p)].id

LEMMA NextIs ==
    ASSUME TypeOK, NEW p \in Requests, push[p].stage = "insert"
    PROVE  /\ Next1(p) \in push[p].pending /\ Next1(p) \in push[p].batch
           /\ NextId(p) \in Events
<1>1. /\ push[p].pending # {} /\ push[p].pending \subseteq push[p].batch
      /\ push[p].batch \subseteq DOMAIN made[push[p].device]
      /\ made[push[p].device] \in Seq(Event) /\ push[p].batch \subseteq Nat
  BY PushTypes DEF TypeOK, PushTypeOK
<1>2. Next1(p) \in push[p].pending
  BY <1>1, MinIs DEF Next1
<1> QED BY <1>1, <1>2, PositionsAre DEF NextId

LEMMA InsertReviewWrites ==
    ASSUME TypeOK, NEW p \in Requests, InsertReview(p), log[NextId(p)] = 0
    PROVE  /\ push' \in [Requests -> Push]
           /\ push'[p].stage = IF push'[p].pending = {} THEN "update" ELSE "insert"
           /\ push'[p].pending = push[p].pending \ {Next1(p)}
           /\ push'[p].state = Append(push[p].state, NextId(p))
           /\ push'[p].device = push[p].device /\ push'[p].batch = push[p].batch
           /\ push'[p].fresh = push[p].fresh /\ push'[p].card = push[p].card
           /\ push'[p].rows = push[p].rows
           /\ \A o \in Requests \ {p} : push'[o] = push[o]
           /\ log' \in [Events -> Nat] /\ log'[NextId(p)] = 1
           /\ \A e \in Events \ {NextId(p)} : log'[e] = log[e]
<1>1. PICK q \in Push : q = push[p]
  BY DEF TypeOK
<1>2. PICK id \in Events : id = NextId(p)
  BY NextIs DEF InsertReview
<1>3. PICK rest \in SUBSET Nat : rest = push[p].pending \ {Next1(p)}
  BY PushTypes
<1>4. PICK stage \in {"update", "insert"} : stage = IF rest = {} THEN "update" ELSE "insert"
  OBVIOUS
<1>5. PICK r : r = [q EXCEPT !.pending = rest, !.state = Append(q.state, id), !.stage = stage]
  OBVIOUS
<1>6. Append(q.state, id) \in Seq(Events)
  BY <1>1, <1>2 DEF Push
<1>7. /\ r \in Push /\ r.stage = stage /\ r.pending = rest /\ r.state = Append(q.state, id)
      /\ r.device = q.device /\ r.batch = q.batch /\ r.fresh = q.fresh /\ r.card = q.card
      /\ r.rows = q.rows
  BY <1>5, <1>6 DEF Push, Stages
<1>8. /\ log' = [log EXCEPT ![id] = @ + 1]
      /\ push' = [push EXCEPT ![p].pending = rest, ![p].state = Append(@, id),
                              ![p].stage = stage]
  BY <1>2, <1>3, <1>4 DEF InsertReview, ClientIdIsNew, NextId, Next1
<1>9. push' = [push EXCEPT ![p] = r]
  BY <1>1, <1>5, <1>8 DEF TypeOK
<1>10. /\ push' \in [Requests -> Push] /\ push'[p] = r
       /\ \A o \in Requests \ {p} : push'[o] = push[o]
  BY <1>7, <1>9 DEF TypeOK
<1>11. /\ log' \in [Events -> Nat] /\ log'[id] = 1
       /\ \A e \in Events \ {id} : log'[e] = log[e]
  BY <1>2, <1>8 DEF TypeOK
<1> QED BY <1>1, <1>2, <1>3, <1>4, <1>7, <1>10, <1>11

LEMMA FinishPushWrites ==
    ASSUME TypeOK, NEW p \in Requests, FinishPush(p)
    PROVE  /\ push' \in [Requests -> Push]
           /\ push'[p].stage = "reply"
           /\ push'[p].device = push[p].device /\ push'[p].batch = push[p].batch
           /\ push'[p].fresh = push[p].fresh /\ push'[p].pending = push[p].pending
           /\ push'[p].rows = push[p].rows
           /\ \A o \in Requests \ {p} : push'[o] = push[o]
<1>1. PICK q \in Push : q = push[p]
  BY DEF TypeOK
<1>2. PICK r : r = [q EXCEPT !.stage = "reply"]
  OBVIOUS
<1>3. /\ r \in Push /\ r.stage = "reply" /\ r.rows = q.rows
      /\ r.device = q.device /\ r.batch = q.batch /\ r.fresh = q.fresh /\ r.pending = q.pending
  BY <1>2 DEF Push, Stages
<1>4. push' = [push EXCEPT ![p] = r]
  BY <1>1, <1>2 DEF FinishPush, TypeOK
<1>5. /\ push' \in [Requests -> Push] /\ push'[p] = r
      /\ \A o \in Requests \ {p} : push'[o] = push[o]
  BY <1>3, <1>4 DEF TypeOK
<1> QED BY <1>1, <1>3, <1>5

--------------------------------------------------------------------------------
(***************************************************************************)
(* Types                                                                   *)
(***************************************************************************)
\* A step of the push in slot p.
LEMMA PushStepTypes ==
    ASSUME TypeOK, NEW p \in Requests, push' \in [Requests -> Push],
           \A o \in Requests \ {p} : push'[o] = push[o], PushTypeOK(push'[p]),
           UNCHANGED <<local, made, env>>, cards' \in [Cards -> Seq(Events)],
           log' \in [Events -> Nat], outbox' \in [Devices -> SUBSET Nat],
           \A d \in Devices : outbox'[d] \subseteq outbox[d],
           acked' \subseteq Events, failures' \in Nat
    PROVE  TypeOK'
<1>1. \A o \in Requests : PushTypeOK(push'[o])
  BY DEF TypeOK
<1>2. \A o \in Requests : PushTypeOK(push[o])'
  BY <1>1 DEF PushTypeOK
<1>3. \A d \in Devices : outbox'[d] \subseteq DOMAIN made'[d]
  BY DEF TypeOK
<1> QED BY <1>2, <1>3 DEF TypeOK

\* The push q goes on as r, with the events in fresh.
GoesOnAs(q, fresh, r) ==
    /\ r \in Push
    /\ r.device = q.device /\ r.batch = q.batch /\ r.rows = q.rows
    /\ r.stage \in {"insert", "finish"}
    /\ r.stage = "finish" => fresh = {} /\ r.fresh = {} /\ r.pending = q.pending
    /\ r.stage = "insert" =>
          /\ r.card \in Cards /\ r.pending # {}
          /\ r.pending = {i \in fresh : made[q.device][i].card = r.card}
          /\ r.fresh = fresh \ r.pending
          /\ r.state = ReplayFrom(q.rows[r.card], made[q.device], r.pending)

LEMMA ResumesAs ==
    ASSUME TypeOK, NEW p \in Requests, push[p].stage # "idle",
           NEW fresh, fresh \subseteq push[p].batch, NEW r, r = Resume(push[p], fresh)
    PROVE  GoesOnAs(push[p], fresh, r)
<1>1. /\ push[p] \in Push /\ made[push[p].device] \in Seq(Event) /\ push[p].device \in Devices
      /\ push[p].batch \subseteq DOMAIN made[push[p].device]
  BY PushTypes
<1>2. PICK q, s : q = push[p] /\ s = made[push[p].device]
  OBVIOUS
<1>3. q \in Push /\ s \in Seq(Event) /\ s = made[q.device] /\ q.batch \subseteq DOMAIN s
  BY <1>1, <1>2
<1>4. r \in Push /\ r.device = q.device /\ r.batch = q.batch /\ r.rows = q.rows
  BY <1>2, <1>3, ResumeIs
<1>5. CASE fresh = {}
  <2>1. r.stage = "finish" /\ r.fresh = {} /\ r.pending = q.pending
    BY <1>2, <1>3, <1>5, ResumeIs
  <2> QED BY <1>2, <1>4, <1>5, <2>1 DEF GoesOnAs
<1>6. CASE fresh # {}
  <2>1. /\ r.stage = "insert" /\ r.card \in Cards /\ r.pending # {}
        /\ r.pending = {i \in fresh : s[i].card = r.card} /\ r.fresh = fresh \ r.pending
        /\ r.state = ReplayFrom(q.rows[r.card], s, r.pending)
    BY <1>2, <1>3, <1>6, ResumeIs
  <2> QED BY <1>2, <1>3, <1>4, <2>1 DEF GoesOnAs
<1> QED BY <1>5, <1>6

\* A push that goes on replays events of its batch.
LEMMA ResumeTypes ==
    ASSUME TypeOK, NEW p \in Requests, push[p].stage # "idle", push[p].pending = {},
           NEW fresh, fresh \subseteq push[p].batch
    PROVE  PushTypeOK(Resume(push[p], fresh))
<1>1. PICK r : r = Resume(push[p], fresh)
  OBVIOUS
<1>2. GoesOnAs(push[p], fresh, r)
  BY <1>1, ResumesAs
<1>3. r.fresh \subseteq r.batch /\ r.pending \subseteq r.batch
  BY <1>2 DEF GoesOnAs
<1>4. PushTypeOK(r)
  BY <1>2, <1>3, PushTypes DEF PushTypeOK, GoesOnAs
<1> QED BY <1>1, <1>4

\* While a push reads, nothing is chosen to be replayed.
NothingChosen ==
    \A p \in Requests : push[p].stage \in {"cards", "existing", "finish", "reply"} =>
        push[p].pending = {}

LEMMA TypesStart == Init => TypeOK /\ NothingChosen
<1> SUFFICES ASSUME Init PROVE TypeOK /\ NothingChosen
  OBVIOUS
<1>1. push = [p \in Requests |-> Idle]
  BY DEF Init
<1>2. /\ push \in [Requests -> Push] /\ \A p \in Requests : push[p] = Idle
  BY <1>1, IdleIs
<1>3. \A p \in Requests : PushTypeOK(push[p])
  BY <1>2, IdleIs DEF PushTypeOK
<1>4. /\ cards \in [Cards -> Seq(Events)] /\ log \in [Events -> Nat]
      /\ local \in [Devices -> [Cards -> Seq(Events)]]
  <2>1. <<>> \in Seq(Events) /\ [c \in Cards |-> <<>>] \in [Cards -> Seq(Events)]
    OBVIOUS
  <2> QED BY <2>1 DEF Init
<1>5. /\ made \in [Devices -> Seq(Event)] /\ outbox \in [Devices -> SUBSET Nat]
      /\ \A d \in Devices : outbox[d] \subseteq DOMAIN made[d]
  BY DEF Init
<1>6. acked \subseteq Events /\ failures \in Nat /\ env \in Environments
  BY DEF Init
<1> QED BY <1>2, <1>3, <1>4, <1>5, <1>6, IdleIs DEF TypeOK, NothingChosen

\* A device grades: it has one event more, at the end.
LEMMA GradeOfflineWrites ==
    ASSUME TypeOK, NEW d \in Devices, NEW e \in Events, NEW c \in Cards, GradeOffline(d, e, c)
    PROVE  LET before == IF env.snapshots THEN local[d][c] ELSE None
               n == Len(made[d]) + 1
           IN  /\ made' \in [Devices -> Seq(Event)] /\ made[d] \in Seq(Event)
               /\ DOMAIN made'[d] = DOMAIN made[d] \cup {n} /\ DOMAIN made[d] = 1 .. n - 1
               /\ n \in Nat
               /\ made'[d][n].id = e /\ made'[d][n].card = c /\ made'[d][n].before = before
               /\ \A i \in DOMAIN made[d] : made'[d][i] = made[d][i]
               /\ \A f \in Devices \ {d} : made'[f] = made[f]
               /\ local' \in [Devices -> [Cards -> Seq(Events)]]
               /\ local[d][c] \in Seq(Events)
               /\ local'[d][c] = Append(local[d][c], e)
               /\ \A f \in Devices, b \in Cards : f # d \/ b # c => local'[f][b] = local[f][b]
<1> DEFINE before == IF env.snapshots THEN local[d][c] ELSE None
           n == Len(made[d]) + 1
<1>1. /\ made[d] \in Seq(Event) /\ local[d] \in [Cards -> Seq(Events)]
      /\ local[d][c] \in Seq(Events)
  BY DEF TypeOK
<1>2. PICK b \in Seq(Events) \cup {None} : b = before
  BY <1>1
<1>3. PICK event : event = [id |-> e, card |-> c, before |-> b]
  OBVIOUS
<1>4. event \in Event /\ event.id = e /\ event.card = c /\ event.before = b
  BY <1>3 DEF Event
<1>5. /\ made' = [made EXCEPT ![d] = Append(@, event)]
      /\ local' = [local EXCEPT ![d][c] = Append(@, e)]
  BY <1>2, <1>3 DEF GradeOffline
<1>6. PICK longer : longer = Append(made[d], event)
  OBVIOUS
<1>7. /\ longer \in Seq(Event) /\ DOMAIN longer = DOMAIN made[d] \cup {n} /\ longer[n] = event
      /\ DOMAIN made[d] = 1 .. n - 1 /\ n \in Nat
      /\ \A i \in DOMAIN made[d] : longer[i] = made[d][i]
  BY <1>1, <1>4, <1>6
<1>8. /\ made' \in [Devices -> Seq(Event)] /\ made'[d] = longer
      /\ \A f \in Devices \ {d} : made'[f] = made[f]
  BY <1>5, <1>6, <1>7 DEF TypeOK
<1>9. /\ local' \in [Devices -> [Cards -> Seq(Events)]] /\ local'[d][c] = Append(local[d][c], e)
      /\ \A f \in Devices, k \in Cards : f # d \/ k # c => local'[f][k] = local[f][k]
  <2>1. Append(local[d][c], e) \in Seq(Events)
    BY <1>1
  <2>2. PICK row : row = [local[d] EXCEPT ![c] = Append(local[d][c], e)]
    OBVIOUS
  <2>3. /\ row \in [Cards -> Seq(Events)] /\ row[c] = Append(local[d][c], e)
        /\ \A k \in Cards \ {c} : row[k] = local[d][k]
    BY <1>1, <2>1, <2>2
  <2>4. local' = [local EXCEPT ![d] = row]
    BY <1>5, <2>2
  <2> QED BY <2>3, <2>4 DEF TypeOK
<1> HIDE DEF n, before
<1> QED BY <1>1, <1>2, <1>4, <1>7, <1>8, <1>9 DEF n, before

LEMMA GradeOfflineTypes ==
    ASSUME TypeOK, NothingChosen, NEW d \in Devices, NEW e \in Events, NEW c \in Cards,
           GradeOffline(d, e, c)
    PROVE  TypeOK' /\ NothingChosen'
<1> DEFINE n == Len(made[d]) + 1
<1>1. /\ UNCHANGED <<cards, log, acked, push, failures, env>>
      /\ outbox' = [outbox EXCEPT ![d] = @ \cup {n}]
  BY DEF GradeOffline
<1>2. /\ made' \in [Devices -> Seq(Event)] /\ DOMAIN made'[d] = DOMAIN made[d] \cup {n}
      /\ n \in Nat /\ \A f \in Devices \ {d} : made'[f] = made[f]
      /\ local' \in [Devices -> [Cards -> Seq(Events)]]
  BY GradeOfflineWrites
<1> HIDE DEF n
<1>3. \A f \in Devices : DOMAIN made[f] \subseteq DOMAIN made'[f]
  BY <1>2
<1>4. /\ outbox' \in [Devices -> SUBSET Nat]
      /\ \A f \in Devices : outbox'[f] \subseteq DOMAIN made'[f]
  BY <1>1, <1>2, <1>3 DEF TypeOK
<1>5. \A p \in Requests : PushTypeOK(push[p])'
  BY <1>1, <1>3 DEF TypeOK, PushTypeOK
<1> QED BY <1>1, <1>2, <1>4, <1>5 DEF TypeOK, NothingChosen

LEMMA StepTypes ==
    ASSUME TypeOK, NothingChosen, NEW p \in Requests, Step(p) \/ Fail(p)
    PROVE  TypeOK' /\ NothingChosen'
<1>1. /\ push[p] \in Push /\ PushTypeOK(push[p])
      /\ cards \in [Cards -> Seq(Events)] /\ log \in [Events -> Nat]
      /\ outbox \in [Devices -> SUBSET Nat] /\ acked \subseteq Events /\ failures \in Nat
  BY DEF TypeOK
<1>2. CASE ReadCards(p)
  <2>1. PushTypeOK(push'[p]) /\ push'[p].pending = {}
    BY <1>1, <1>2, ReadCardsWrites DEF PushTypeOK, ReadCards, NothingChosen
  <2>2. TypeOK'
    BY <1>1, <1>2, <2>1, ReadCardsWrites, PushStepTypes DEF ReadCards
  <2> QED BY <1>2, <2>1, <2>2, ReadCardsWrites DEF NothingChosen
<1>3. CASE ReadExisting(p)
  <2>1. PICK f : /\ f = Fresh(made[push[p].device], push[p].batch)
                 /\ push' \in [Requests -> Push] /\ push'[p] = Resume(push[p], f)
                 /\ f \subseteq push[p].batch
                 /\ \A o \in Requests \ {p} : push'[o] = push[o]
    BY <1>3, ReadExistingWrites
  <2>2. push[p].stage = "existing" /\ push[p].pending = {}
    BY <1>3 DEF ReadExisting, NothingChosen
  <2>3. PushTypeOK(push'[p])
    BY <2>1, <2>2, ResumeTypes
  <2>4. TypeOK'
    BY <1>1, <1>3, <2>1, <2>3, PushStepTypes DEF ReadExisting
  <2>5. push'[p].stage \in {"insert", "finish"} /\ (push'[p].stage = "finish" => push'[p].pending = {})
    <3>1. PICK r : r = push'[p]
      OBVIOUS
    <3>2. GoesOnAs(push[p], f, r)
      BY <2>1, <2>2, <3>1, ResumesAs
    <3> QED BY <2>2, <3>1, <3>2 DEF GoesOnAs
  <2> QED BY <2>1, <2>4, <2>5 DEF NothingChosen
<1>4. CASE InsertReview(p) /\ log[NextId(p)] = 0
  <2>1. PushTypeOK(push'[p])
    BY <1>1, <1>4, InsertReviewWrites DEF PushTypeOK, InsertReview
  <2>2. TypeOK'
    BY <1>1, <1>4, <2>1, InsertReviewWrites, PushStepTypes DEF InsertReview
  <2> QED BY <1>4, <2>2, InsertReviewWrites DEF NothingChosen
<1>5. CASE UpdateCard(p)
  <2>1. /\ push' \in [Requests -> Push] /\ push'[p] = Resume(push[p], push[p].fresh)
        /\ \A o \in Requests \ {p} : push'[o] = push[o]
        /\ push[p].pending = {} /\ cards' \in [Cards -> Seq(Events)]
    BY <1>5, UpdateCardWrites
  <2>2. push[p].stage = "update" /\ push[p].fresh \subseteq push[p].batch
    BY <1>1, <1>5 DEF UpdateCard, PushTypeOK
  <2>3. PushTypeOK(push'[p])
    BY <2>1, <2>2, ResumeTypes
  <2>4. TypeOK'
    BY <1>1, <1>5, <2>1, <2>3, PushStepTypes DEF UpdateCard
  <2>5. push'[p].stage \in {"insert", "finish"} /\ (push'[p].stage = "finish" => push'[p].pending = {})
    <3>1. PICK r, f : r = push'[p] /\ f = push[p].fresh
      OBVIOUS
    <3>2. push[p].stage # "idle" /\ r = Resume(push[p], f) /\ f \subseteq push[p].batch
      BY <2>1, <2>2, <3>1
    <3>3. GoesOnAs(push[p], f, r)
      BY <3>2, ResumesAs
    <3> QED BY <2>1, <3>1, <3>3 DEF GoesOnAs
  <2> QED BY <2>1, <2>4, <2>5 DEF NothingChosen
<1>6. CASE FinishPush(p)
  <2>1. PushTypeOK(push'[p]) /\ push'[p].pending = {}
    BY <1>1, <1>6, FinishPushWrites DEF PushTypeOK, FinishPush, NothingChosen
  <2>2. TypeOK'
    BY <1>1, <1>6, <2>1, FinishPushWrites, PushStepTypes DEF FinishPush
  <2> QED BY <1>6, <2>1, <2>2, FinishPushWrites DEF NothingChosen
<1>7. ASSUME push' = [push EXCEPT ![p] = Idle],
             UNCHANGED <<local, made, env, cards, log>>,
             outbox' \in [Devices -> SUBSET Nat], \A d \in Devices : outbox'[d] \subseteq outbox[d],
             acked' \subseteq Events, failures' \in Nat
      PROVE  TypeOK' /\ NothingChosen'
  <2>1. PushTypeOK(push'[p]) /\ push'[p].pending = {}
    BY <1>7, EndWrites, IdleIs DEF PushTypeOK
  <2>2. TypeOK'
    BY <1>1, <1>7, <2>1, EndWrites, PushStepTypes
  <2> QED BY <1>7, <2>1, <2>2, EndWrites DEF NothingChosen
<1>8. CASE Reply(p)
  <2>1. /\ push[p].device \in Devices /\ made[push[p].device] \in Seq(Event)
        /\ push[p].batch \subseteq DOMAIN made[push[p].device]
    BY <1>8, PushTypes DEF Reply
  <2>2. Ids(made[push[p].device], push[p].batch) \subseteq Events
    BY <2>1, PositionsAre DEF Ids
  <2>3. /\ outbox' \in [Devices -> SUBSET Nat] /\ \A d \in Devices : outbox'[d] \subseteq outbox[d]
    BY <1>1, <1>8, <2>1 DEF Reply
  <2> QED BY <1>1, <1>7, <1>8, <2>2, <2>3 DEF Reply
<1>9. CASE InsertReview(p) /\ ~(log[NextId(p)] = 0)
  BY <1>1, <1>7, <1>9 DEF InsertReview, ClientIdIsNew, NextId, Next1
<1>10. CASE Fail(p)
  BY <1>1, <1>7, <1>10 DEF Fail
<1> QED BY <1>2, <1>3, <1>4, <1>5, <1>6, <1>8, <1>9, <1>10 DEF Step

LEMMA TypesStep ==
    TypeOK /\ NothingChosen /\ [Next]_vars => TypeOK' /\ NothingChosen'
<1> SUFFICES ASSUME TypeOK, NothingChosen, [Next]_vars PROVE TypeOK' /\ NothingChosen'
  OBVIOUS
<1>1. ASSUME NEW d \in Devices, Pull(d) PROVE TypeOK' /\ NothingChosen'
  <2>1. /\ UNCHANGED <<cards, log, made, outbox, acked, push, failures, env>>
        /\ local' \in [Devices -> [Cards -> Seq(Events)]]
    BY <1>1 DEF Pull, TypeOK
  <2> QED BY <2>1 DEF TypeOK, PushTypeOK, NothingChosen
<1>2. ASSUME NEW p \in Requests, NEW d \in Devices, Send(p, d) PROVE TypeOK' /\ NothingChosen'
  <2>1. PushTypeOK(push'[p])
    BY <1>2, SendWrites DEF PushTypeOK, TypeOK
  <2>2. TypeOK'
    BY <1>2, <2>1, SendWrites, PushStepTypes DEF Send, TypeOK
  <2> QED BY <1>2, <2>2, SendWrites DEF NothingChosen
<1>3. CASE UNCHANGED vars
  BY <1>3 DEF vars, TypeOK, PushTypeOK, NothingChosen
<1> QED BY <1>1, <1>2, <1>3, GradeOfflineTypes, StepTypes DEF Next

\* DeviceSync: tables, devices and pushes have their types; a push replays
\* events of the batch of its device, and one by one until none is left.
THEOREM PushesAreTyped == Spec => []TypeOK
BY TypesStart, TypesStep, PTL DEF Spec

--------------------------------------------------------------------------------
(***************************************************************************)
(* At most once                                                            *)
(***************************************************************************)
Distinct(s) == \A i, j \in DOMAIN s : s[i] = s[j] => i = j

Gradings(s) == {s[i] : i \in DOMAIN s}

Made(e) == \E d \in Devices : \E i \in DOMAIN made[d] : made[d][i].id = e

Logged(e) == log[e] # 0

\* An event has one place in one device.
MadeOnce ==
    \A d, f \in Devices : \A i \in DOMAIN made[d], j \in DOMAIN made[f] :
        made[d][i].id = made[f][j].id => d = f /\ i = j

\* What a device saw when it graded was there before.
Saw(d, i) ==
    /\ made[d][i].before \in Seq(Events)
    /\ Distinct(made[d][i].before)
    /\ \A e \in Gradings(made[d][i].before) :
          Made(e) /\ \A k \in DOMAIN made[d] : k >= i => made[d][k].id # e

SnapshotsInv ==
    \A d \in Devices : \A i \in DOMAIN made[d] :
        IF env.snapshots THEN Saw(d, i) ELSE made[d][i].before = None

\* What a state reflects has happened, once: with snapshots on a device, without
\* on the server.
Grounded(s) ==
    /\ Distinct(s)
    /\ \A e \in Gradings(s) : IF env.snapshots THEN Made(e) ELSE Logged(e)

ViewsInv ==
    /\ env.snapshots => \A d \in Devices : \A c \in Cards : Grounded(local[d][c])
    /\ \A c \in Cards : Grounded(cards[c])

Replays(q) == q.stage \in {"insert", "update"}

\* A push that replays has not yet replayed what it has left.
ReplayInv(q) ==
    /\ \A c \in Cards : Grounded(q.rows[c])
    /\ Replays(q) =>
          /\ Grounded(q.state)
          /\ \A i \in q.pending : made[q.device][i].id \notin Gradings(q.state)
          /\ ~env.snapshots => \A i \in q.fresh : \A c \in Cards :
                 made[q.device][i].id \notin Gradings(q.rows[c])

OnceInv ==
    /\ \A e \in Events : log[e] <= 1
    /\ MadeOnce /\ SnapshotsInv /\ ViewsInv
    /\ \A p \in Requests : ReplayInv(push[p])

LEMMA EmptyGrounded == Grounded(<<>>)
BY DEF Grounded, Distinct, Gradings

LEMMA OnceStarts == Init => OnceInv
<1> SUFFICES ASSUME Init PROVE OnceInv
  OBVIOUS
<1>1. MadeOnce /\ SnapshotsInv /\ \A e \in Events : log[e] <= 1
  BY DEF Init, MadeOnce, SnapshotsInv
<1>2. ViewsInv
  BY EmptyGrounded DEF Init, ViewsInv
<1>3. \A p \in Requests : push[p] = Idle
  BY DEF Init
<1>4. ReplayInv(Idle)
  BY IdleIs, EmptyGrounded DEF ReplayInv, Replays
<1> QED BY <1>1, <1>2, <1>3, <1>4 DEF OnceInv

LEMMA AppendDistinct ==
    ASSUME NEW s \in Seq(Events), NEW e \in Events, Distinct(s), e \notin Gradings(s)
    PROVE  /\ Distinct(Append(s, e))
           /\ Gradings(Append(s, e)) = Gradings(s) \cup {e}
<1>1. PICK t : t = Append(s, e)
  OBVIOUS
<1>2. /\ DOMAIN t = DOMAIN s \cup {Len(s) + 1} /\ t[Len(s) + 1] = e
      /\ \A i \in DOMAIN s : t[i] = s[i]
  BY <1>1
<1>3. Distinct(t)
  BY <1>2 DEF Distinct, Gradings
<1>4. Gradings(t) = Gradings(s) \cup {e}
  BY <1>2 DEF Gradings
<1> QED BY <1>1, <1>3, <1>4

\* What has happened stays so.
LEMMA GroundedStays ==
    ASSUME env' = env, \A e : Made(e) => Made(e)',
           \A e \in Events : Logged(e) => Logged(e)'
    PROVE  \A s \in Seq(Events) : Grounded(s) => Grounded(s)'
<1> SUFFICES ASSUME NEW s \in Seq(Events), Grounded(s) PROVE Grounded(s)'
  OBVIOUS
<1>1. Gradings(s) \subseteq Events
  BY DEF Gradings
<1>2. Distinct(s)
  BY DEF Grounded
<1>3. Distinct(s)'
  BY <1>2 DEF Distinct
<1>4. Gradings(s)' = Gradings(s)
  BY DEF Gradings
<1>5. ASSUME NEW e \in Gradings(s) PROVE IF env.snapshots THEN Made(e)' ELSE Logged(e)'
  <2>1. CASE env.snapshots
    BY <2>1 DEF Grounded
  <2>2. CASE ~env.snapshots
    BY <1>1, <2>2 DEF Grounded
  <2> QED BY <2>1, <2>2
<1> QED BY <1>3, <1>4, <1>5 DEF Grounded

\* A step of the push in slot p.
LEMMA OncePushStep ==
    ASSUME TypeOK, TypeOK', OnceInv, NEW p \in Requests,
           \A o \in Requests \ {p} : push'[o] = push[o],
           UNCHANGED <<made, local, env>>,
           \A e \in Events : log'[e] <= 1 /\ (Logged(e) => Logged(e)'),
           \A c \in Cards : Grounded(cards[c])', ReplayInv(push[p])'
    PROVE  OnceInv'
<1>1. MadeOnce' /\ SnapshotsInv'
  BY DEF OnceInv, MadeOnce, SnapshotsInv, Saw, Made, Distinct, Gradings
<1>2. \A e : Made(e) => Made(e)'
  BY DEF Made
<1>3. \A s \in Seq(Events) : Grounded(s) => Grounded(s)'
  BY <1>2, GroundedStays
<1>4. ViewsInv'
  <2>1. ASSUME NEW d \in Devices, NEW c \in Cards, env.snapshots PROVE Grounded(local[d][c])'
    <3>1. PICK s \in Seq(Events) : s = local[d][c]
      BY DEF TypeOK
    <3>2. Grounded(s)'
      BY <1>3, <2>1, <3>1 DEF OnceInv, ViewsInv
    <3> QED BY <3>1, <3>2
  <2> QED BY <2>1 DEF ViewsInv
<1>5. ASSUME NEW o \in Requests \ {p} PROVE ReplayInv(push[o])'
  <2>1. PICK q \in Push : q = push[o] /\ ReplayInv(q)
    BY DEF TypeOK, OnceInv
  <2>2. \A c \in Cards : Grounded(q.rows[c])'
    BY <1>3, <2>1 DEF ReplayInv, Push
  <2>3. Replays(q) => Grounded(q.state)'
    BY <1>3, <2>1 DEF ReplayInv, Push
  <2>4. ReplayInv(q)'
    BY <2>1, <2>2, <2>3 DEF ReplayInv, Replays, Gradings
  <2>5. push'[o] = q
    BY <2>1
  <2> QED BY <2>4, <2>5 DEF ReplayInv
<1>6. \A o \in Requests : ReplayInv(push[o])'
  BY <1>5
<1> QED BY <1>1, <1>4, <1>6 DEF OnceInv

\* What a push goes on with, it has not replayed.
LEMMA ResumeReplays ==
    ASSUME TypeOK, OnceInv, NEW p \in Requests, push[p].stage # "idle",
           NEW fresh, fresh \subseteq push[p].batch, NEW r, GoesOnAs(push[p], fresh, r),
           ~env.snapshots => \A i \in fresh : \A c \in Cards :
               made[push[p].device][i].id \notin Gradings(push[p].rows[c])
    PROVE  ReplayInv(r)
<1>1. PICK q, s : q = push[p] /\ s = made[q.device]
  OBVIOUS
<1>2. /\ s \in Seq(Event) /\ q.batch \subseteq DOMAIN s /\ q.device \in Devices /\ q.batch \subseteq Nat
      /\ \A c \in Cards : q.rows[c] \in Seq(Events) /\ Grounded(q.rows[c])
  BY <1>1, PushTypes DEF OnceInv, ReplayInv
<1>3. /\ r.rows = q.rows /\ r.device = q.device /\ r.stage \in {"insert", "finish"}
      /\ r.stage = "insert" =>
            /\ r.card \in Cards /\ r.pending # {} /\ r.pending \subseteq fresh
            /\ r.fresh \subseteq fresh
            /\ r.state = ReplayFrom(q.rows[r.card], s, r.pending)
  BY <1>1 DEF GoesOnAs
<1>4. CASE r.stage = "finish"
  BY <1>2, <1>3, <1>4 DEF ReplayInv, Replays
<1>5. CASE r.stage = "insert"
  <2>1. PICK row \in Seq(Events), some \in SUBSET fresh :
            row = q.rows[r.card] /\ some = r.pending /\ Grounded(row)
    BY <1>2, <1>3, <1>5
  <2>2. /\ some \subseteq DOMAIN s /\ some \subseteq Nat /\ some # {} /\ some \subseteq fresh
        /\ r.state = ReplayFrom(row, s, some)
    BY <1>1, <1>2, <1>3, <1>5, <2>1
  <2>3. CASE ~env.snapshots
    <3>1. \A i \in some : s[i].before = None
      BY <1>1, <1>2, <2>2, <2>3 DEF OnceInv, SnapshotsInv
    <3>2. r.state = row
      BY <1>2, <2>2, <3>1, ReplayFromIs
    <3>3. \A i \in fresh : s[i].id \notin Gradings(row)
      BY <1>1, <1>3, <1>5, <2>1, <2>3
    <3>4. \A i \in r.pending : made[r.device][i].id \notin Gradings(r.state)
      BY <1>1, <1>3, <2>1, <2>2, <3>2, <3>3
    <3>5. \A i \in r.fresh : \A c \in Cards : made[r.device][i].id \notin Gradings(r.rows[c])
      BY <1>1, <1>3, <1>5, <2>3
    <3> QED BY <1>2, <1>3, <2>1, <3>2, <3>4, <3>5 DEF ReplayInv
  <2>4. CASE env.snapshots
    <3>1. \A i \in DOMAIN s : Saw(q.device, i)
      BY <1>1, <1>2, <2>4 DEF OnceInv, SnapshotsInv
    <3>2. \A i \in some : s[i].before # None
      BY <1>1, <2>2, <3>1, SyncAssumption DEF Saw
    <3>3. PICK m : m = Min(some)
      OBVIOUS
    <3>4. m \in some /\ \A i \in some : m <= i
      BY <2>2, <3>3, MinIs
    <3>5. r.state = s[m].before
      BY <1>2, <2>2, <3>2, <3>3, ReplayFromIs
    <3>6. Grounded(s[m].before)
      BY <1>1, <2>2, <2>4, <3>1, <3>4 DEF Saw, Grounded
    <3>7. \A i \in some : s[i].id \notin Gradings(s[m].before)
      <4>1. SUFFICES ASSUME NEW i \in some, s[i].id \in Gradings(s[m].before) PROVE FALSE
        OBVIOUS
      <4>2. i \in DOMAIN s /\ m \in DOMAIN s /\ i \in Nat /\ m \in Nat /\ i >= m
        BY <2>2, <3>4
      <4> QED BY <1>1, <3>1, <4>1, <4>2 DEF Saw
    <3>8. \A i \in r.pending : made[r.device][i].id \notin Gradings(r.state)
      BY <1>1, <1>3, <2>1, <3>5, <3>7
    <3> QED BY <1>2, <1>3, <2>4, <3>5, <3>6, <3>8 DEF ReplayInv
  <2> QED BY <2>3, <2>4
<1> QED BY <1>3, <1>4, <1>5

\* The push of a step may be judged by what it was before and by what it is now.
LEMMA ReplayStays ==
    ASSUME NEW r, ReplayInv(r), UNCHANGED <<made, log, env>>
    PROVE  ReplayInv(r)'
BY DEF ReplayInv, Replays, Grounded, Gradings, Distinct, Made, Logged

\* Steps of a push that write nothing: it reads, finishes, or ends.
LEMMA OnceReads ==
    ASSUME TypeOK, TypeOK', OnceInv, NEW p \in Requests,
           \A o \in Requests \ {p} : push'[o] = push[o],
           UNCHANGED <<made, local, env, log, cards>>, NEW r, push'[p] = r, ReplayInv(r)
    PROVE  OnceInv'
<1>1. ReplayInv(r)'
  BY ReplayStays
<1>2. ReplayInv(push[p])'
  BY <1>1 DEF ReplayInv
<1>3. \A e : Made(e) => Made(e)'
  BY DEF Made
<1>4. \A s \in Seq(Events) : Grounded(s) => Grounded(s)'
  BY <1>3, GroundedStays DEF Logged
<1>5. ASSUME NEW c \in Cards PROVE Grounded(cards[c])'
  <2>1. PICK s \in Seq(Events) : s = cards[c] /\ s = cards'[c] /\ Grounded(s)
    BY DEF TypeOK, OnceInv, ViewsInv
  <2>2. Grounded(s)'
    BY <1>4, <2>1
  <2> QED BY <2>1, <2>2
<1>6. \A e \in Events : log'[e] <= 1 /\ (Logged(e) => Logged(e)')
  BY DEF OnceInv, Logged
<1> QED BY <1>2, <1>5, <1>6, OncePushStep

LEMMA OnceEnds ==
    ASSUME TypeOK, TypeOK', OnceInv, NEW p \in Requests, push' = [push EXCEPT ![p] = Idle],
           UNCHANGED <<made, local, env, log, cards>>
    PROVE  OnceInv'
<1>1. PICK r : r = Idle
  OBVIOUS
<1>2. push'[p] = r /\ \A o \in Requests \ {p} : push'[o] = push[o]
  BY <1>1, EndWrites
<1>3. ReplayInv(r)
  BY <1>1, IdleIs, EmptyGrounded DEF ReplayInv, Replays
<1> QED BY <1>2, <1>3, OnceReads

LEMMA OnceReadCards ==
    ASSUME TypeOK, TypeOK', OnceInv, NEW p \in Requests, ReadCards(p)
    PROVE  OnceInv'
<1>1. PICK r : r = push'[p]
  OBVIOUS
<1>2. r.stage = "existing" /\ r.rows = cards /\ \A o \in Requests \ {p} : push'[o] = push[o]
  BY <1>1, ReadCardsWrites
<1>3. ReplayInv(r)
  BY <1>2 DEF ReplayInv, Replays, OnceInv, ViewsInv
<1> QED BY <1>1, <1>2, <1>3, OnceReads DEF ReadCards

LEMMA OnceReadExisting ==
    ASSUME TypeOK, TypeOK', OnceInv, NEW p \in Requests, ReadExisting(p)
    PROVE  OnceInv'
<1>1. PICK f : /\ f = Fresh(made[push[p].device], push[p].batch)
               /\ push'[p] = Resume(push[p], f) /\ f \subseteq push[p].batch
               /\ \A o \in Requests \ {p} : push'[o] = push[o]
  BY ReadExistingWrites
<1>2. PICK r : r = push'[p]
  OBVIOUS
<1>3. push[p].stage # "idle"
  BY DEF ReadExisting
<1>4. GoesOnAs(push[p], f, r)
  BY <1>1, <1>2, <1>3, ResumesAs
<1>5. ASSUME ~env.snapshots, NEW i \in f, NEW c \in Cards
      PROVE  made[push[p].device][i].id \notin Gradings(push[p].rows[c])
  <2>1. ~Logged(made[push[p].device][i].id)
    BY <1>1, <1>5 DEF Fresh, Logged
  <2>2. Grounded(push[p].rows[c])
    BY <1>5 DEF OnceInv, ReplayInv
  <2> QED BY <1>5, <2>1, <2>2 DEF Grounded
<1>6. ReplayInv(r)
  BY <1>1, <1>3, <1>4, <1>5, ResumeReplays
<1> QED BY <1>1, <1>2, <1>6, OnceReads DEF ReadExisting

LEMMA OnceUpdateCard ==
    ASSUME TypeOK, TypeOK', OnceInv, NEW p \in Requests, UpdateCard(p)
    PROVE  OnceInv'
<1>1. PICK f : f = push[p].fresh /\ f \subseteq push[p].batch
  BY PushTypes
<1>2. PICK r : r = push'[p]
  OBVIOUS
<1>3. /\ r = Resume(push[p], f) /\ push[p].stage # "idle" /\ push[p].stage = "update"
      /\ \A o \in Requests \ {p} : push'[o] = push[o] /\ push[p].card \in Cards
      /\ cards'[push[p].card] = push[p].state
      /\ \A c \in Cards \ {push[p].card} : cards'[c] = cards[c]
  BY <1>1, <1>2, UpdateCardWrites DEF UpdateCard
<1>4. GoesOnAs(push[p], f, r)
  BY <1>1, <1>3, ResumesAs
<1>5. ReplayInv(push[p])
  BY DEF OnceInv
<1>6. ReplayInv(r)
  <2>1. ~env.snapshots => \A i \in f : \A c \in Cards :
            made[push[p].device][i].id \notin Gradings(push[p].rows[c])
    BY <1>1, <1>3, <1>5 DEF ReplayInv, Replays
  <2> QED BY <1>1, <1>3, <1>4, <2>1, ResumeReplays
<1>7. UNCHANGED <<made, local, env, log>>
  BY DEF UpdateCard
<1>8. ReplayInv(push[p])'
  <2>1. ReplayInv(r)'
    BY <1>6, <1>7, ReplayStays
  <2> QED BY <1>2, <2>1 DEF ReplayInv
<1>9. \A s \in Seq(Events) : Grounded(s) => Grounded(s)'
  <2>1. \A e : Made(e) => Made(e)'
    BY <1>7 DEF Made
  <2> QED BY <1>7, <2>1, GroundedStays DEF Logged
<1>10. ASSUME NEW c \in Cards PROVE Grounded(cards[c])'
  <2>1. PICK s \in Seq(Events) : s = cards'[c] /\ Grounded(s)
    <3>1. push[p].state \in Seq(Events) /\ Grounded(push[p].state)
      BY <1>3, <1>5, PushTypes DEF ReplayInv, Replays
    <3>2. cards[c] \in Seq(Events) /\ Grounded(cards[c])
      BY DEF OnceInv, ViewsInv, TypeOK
    <3> QED BY <1>3, <3>1, <3>2
  <2>2. Grounded(s)'
    BY <1>9, <2>1
  <2> QED BY <2>1, <2>2
<1>11. \A e \in Events : log'[e] <= 1 /\ (Logged(e) => Logged(e)')
  BY <1>7 DEF OnceInv, Logged
<1> QED BY <1>3, <1>7, <1>8, <1>10, <1>11, OncePushStep

\* The event is new to the log, and so to the state it is replayed on.
LEMMA OnceInsertReview ==
    ASSUME TypeOK, TypeOK', OnceInv, NEW p \in Requests, InsertReview(p), log[NextId(p)] = 0
    PROVE  OnceInv'
<1>1. PICK q \in Push, s \in Seq(Event) : q = push[p] /\ s = made[q.device]
  BY PushTypes DEF InsertReview
<1>2. PICK id \in Events, n \in Nat : n = Next1(p) /\ id = NextId(p)
  BY NextIs, PushTypes DEF InsertReview
<1>3. PICK r : r = push'[p]
  OBVIOUS
<1>4. /\ r.stage \in {"insert", "update"} /\ r.pending = q.pending \ {n}
      /\ r.state = Append(q.state, id) /\ r.device = q.device /\ r.fresh = q.fresh
      /\ r.rows = q.rows
      /\ \A o \in Requests \ {p} : push'[o] = push[o]
      /\ log' \in [Events -> Nat] /\ log'[id] = 1
      /\ \A e \in Events \ {id} : log'[e] = log[e]
  BY <1>1, <1>2, <1>3, InsertReviewWrites
<1>5. /\ q.device \in Devices /\ q.batch \subseteq DOMAIN s /\ q.pending \subseteq q.batch
      /\ q.stage = "insert" /\ n \in q.pending /\ id = s[n].id
      /\ q.rows \in [Cards -> Seq(Events)] /\ q.state \in Seq(Events)
  BY <1>1, <1>2, PushTypes, NextIs DEF InsertReview, NextId, Next1
<1>6. UNCHANGED <<made, local, env, cards>>
  BY DEF InsertReview
<1>7. ReplayInv(q)
  BY <1>1 DEF OnceInv
<1>8. /\ Grounded(q.state) /\ id \notin Gradings(q.state)
      /\ \A c \in Cards : Grounded(q.rows[c])
      /\ ~env.snapshots => \A i \in q.fresh : \A c \in Cards : s[i].id \notin Gradings(q.rows[c])
      /\ \A i \in q.pending : s[i].id \notin Gradings(q.state)
  BY <1>1, <1>5, <1>7 DEF ReplayInv, Replays
<1>9. \A e \in Events : log'[e] <= 1 /\ (Logged(e) => Logged(e)')
  BY <1>4 DEF OnceInv, Logged
<1>10. \A e : Made(e) => Made(e)'
  BY <1>6 DEF Made
<1>11. \A t \in Seq(Events) : Grounded(t) => Grounded(t)'
  BY <1>6, <1>9, <1>10, GroundedStays
<1>12. ASSUME NEW c \in Cards PROVE Grounded(cards[c])'
  <2>1. PICK t \in Seq(Events) : t = cards[c] /\ t = cards'[c] /\ Grounded(t)
    BY <1>6 DEF TypeOK, OnceInv, ViewsInv
  <2>2. Grounded(t)'
    BY <1>11, <2>1
  <2> QED BY <2>1, <2>2
<1>13. PICK longer : longer = Append(q.state, id)
  OBVIOUS
<1>14. Distinct(longer) /\ Gradings(longer) = Gradings(q.state) \cup {id}
  BY <1>5, <1>8, <1>13, AppendDistinct DEF Grounded
<1>15. Grounded(longer)'
  <2>1. Grounded(q.state)'
    BY <1>5, <1>8, <1>11
  <2>2. Made(id)' /\ Logged(id)'
    BY <1>1, <1>4, <1>5, <1>6 DEF Made, Logged
  <2>3. Distinct(longer)'
    BY <1>14 DEF Distinct
  <2>4. Gradings(longer)' = Gradings(q.state) \cup {id} /\ Gradings(q.state)' = Gradings(q.state)
    BY <1>14 DEF Gradings
  <2>5. ASSUME NEW e \in Gradings(longer)' PROVE IF env'.snapshots THEN Made(e)' ELSE Logged(e)'
    <3>1. CASE e = id
      BY <2>2, <3>1
    <3>2. CASE e # id
      BY <2>1, <2>4, <2>5, <3>2 DEF Grounded
    <3> QED BY <3>1, <3>2
  <2> QED BY <2>3, <2>5 DEF Grounded
<1>16. \A i \in r.pending : s[i].id \notin Gradings(longer)
  <2>1. SUFFICES ASSUME NEW i \in r.pending, s[i].id \in Gradings(longer) PROVE FALSE
    OBVIOUS
  <2>2. i \in q.pending /\ i # n /\ i \in DOMAIN s /\ n \in DOMAIN s
    BY <1>4, <1>5, <2>1
  <2>3. s[i].id # id
    BY <1>1, <1>5, <2>2 DEF OnceInv, MadeOnce
  <2> QED BY <1>8, <1>14, <2>1, <2>2, <2>3
<1>17. ReplayInv(push[p])'
  <2>1. ASSUME NEW c \in Cards PROVE Grounded(r.rows[c])'
    <3>1. PICK t \in Seq(Events) : t = r.rows[c] /\ Grounded(t)
      BY <1>4, <1>5, <1>8
    <3> QED BY <1>11, <3>1
  <2>2. Grounded(r.state)'
    BY <1>4, <1>13, <1>15
  <2>3. \A i \in r.pending : made'[r.device][i].id \notin Gradings(r.state)
    BY <1>1, <1>4, <1>6, <1>13, <1>16
  <2>4. ~env'.snapshots => \A i \in r.fresh : \A c \in Cards :
            made'[r.device][i].id \notin Gradings(r.rows[c])
    BY <1>1, <1>4, <1>6, <1>8
  <2>5. ReplayInv(r)'
    BY <2>1, <2>2, <2>3, <2>4 DEF ReplayInv, Gradings
  <2> QED BY <1>3, <2>5 DEF ReplayInv
<1> QED BY <1>4, <1>6, <1>9, <1>12, <1>17, OncePushStep

\* A grading is of an event that no view has yet.
LEMMA OnceGradeOffline ==
    ASSUME TypeOK, TypeOK', OnceInv, NEW d \in Devices, NEW e \in Events, NEW c \in Cards,
           GradeOffline(d, e, c)
    PROVE  OnceInv'
<1>1. PICK n, before : n = Len(made[d]) + 1 /\ before = IF env.snapshots THEN local[d][c] ELSE None
  OBVIOUS
<1>2. /\ n \in Nat /\ before = IF env.snapshots THEN local[d][c] ELSE None
      /\ DOMAIN made'[d] = DOMAIN made[d] \cup {n} /\ DOMAIN made[d] = 1 .. n - 1
      /\ made'[d][n].id = e /\ made'[d][n].before = before
      /\ \A i \in DOMAIN made[d] : made'[d][i] = made[d][i]
      /\ \A f \in Devices \ {d} : made'[f] = made[f]
      /\ local[d][c] \in Seq(Events) /\ local'[d][c] = Append(local[d][c], e)
      /\ \A f \in Devices, b \in Cards : f # d \/ b # c => local'[f][b] = local[f][b]
  BY <1>1, GradeOfflineWrites
<1>3. UNCHANGED <<cards, log, acked, push, failures, env>> /\ ~Made(e)
  BY DEF GradeOffline, Unused, Made, Ids
<1>4. \A f \in Devices : /\ DOMAIN made[f] \subseteq DOMAIN made'[f]
                         /\ \A i \in DOMAIN made[f] : made'[f][i] = made[f][i]
  BY <1>2
<1>5. \A x : Made(x) => Made(x)'
  BY <1>4 DEF Made
<1>6. Made(e)'
  BY <1>2 DEF Made
<1>7. \A s \in Seq(Events) : Grounded(s) => Grounded(s)'
  BY <1>3, <1>5, GroundedStays DEF Logged
<1>8. \A f \in Devices : \A i \in DOMAIN made'[f] : i \in DOMAIN made[f] \/ (f = d /\ i = n)
  BY <1>2
<1>9. MadeOnce'
  <2>1. ASSUME NEW f \in Devices, NEW i \in DOMAIN made[f] PROVE made'[f][i].id # e
    BY <1>3, <1>4, <2>1 DEF Made
  <2>2. ASSUME NEW f \in Devices, NEW g \in Devices, NEW i \in DOMAIN made'[f],
               NEW j \in DOMAIN made'[g], made'[f][i].id = made'[g][j].id
        PROVE  f = g /\ i = j
    <3>1. CASE i \in DOMAIN made[f] /\ j \in DOMAIN made[g]
      BY <1>4, <2>2, <3>1 DEF OnceInv, MadeOnce
    <3>2. CASE ~(i \in DOMAIN made[f] /\ j \in DOMAIN made[g])
      BY <1>2, <1>8, <2>1, <2>2, <3>2
    <3> QED BY <3>1, <3>2
  <2> QED BY <2>2 DEF MadeOnce
<1>10. SnapshotsInv'
  <2>1. ASSUME NEW f \in Devices, NEW i \in DOMAIN made'[f]
        PROVE  IF env'.snapshots THEN Saw(f, i)' ELSE made'[f][i].before = None
    <3>1. CASE ~env.snapshots
      BY <1>2, <1>3, <1>4, <1>8, <3>1 DEF OnceInv, SnapshotsInv
    <3>2. CASE env.snapshots /\ i \in DOMAIN made[f]
      <4>1. Saw(f, i) /\ made'[f][i] = made[f][i]
        BY <1>4, <3>2 DEF OnceInv, SnapshotsInv
      <4>2. PICK b \in Seq(Events) : b = made[f][i].before
        BY <4>1 DEF Saw
      <4>3. /\ Distinct(b)
            /\ \A x \in Gradings(b) : Made(x) /\ \A k \in DOMAIN made[f] : k >= i => made[f][k].id # x
        BY <4>1, <4>2 DEF Saw
      <4>4. ASSUME NEW x \in Gradings(b), NEW k \in DOMAIN made'[f], k >= i
            PROVE  Made(x)' /\ made'[f][k].id # x
        <5>1. Made(x) /\ x # e
          BY <1>3, <4>3
        <5>2. CASE k \in DOMAIN made[f]
          BY <1>4, <1>5, <4>3, <4>4, <5>1, <5>2
        <5>3. CASE k \notin DOMAIN made[f]
          BY <1>2, <1>5, <1>8, <5>1, <5>3
        <5> QED BY <5>2, <5>3
      <4>5. \A x \in Gradings(b) : Made(x)'
        BY <1>5, <4>3
      <4>6. made'[f][i].before = b
        BY <4>1, <4>2
      <4>7. Distinct(made'[f][i].before) /\ Gradings(made'[f][i].before) = Gradings(b)
        BY <4>3, <4>6
      <4>8. Saw(f, i)'
        BY <4>4, <4>5, <4>6, <4>7 DEF Saw, Distinct, Gradings
      <4> QED BY <1>3, <3>2, <4>8
    <3>3. CASE env.snapshots /\ i \notin DOMAIN made[f]
      <4>1. f = d /\ i = n /\ made'[f][i].before = before /\ made'[f][i].id = e
        BY <1>2, <1>8, <3>3
      <4>2. before \in Seq(Events) /\ Grounded(before)
        BY <1>2, <3>3 DEF OnceInv, ViewsInv
      <4>3. \A x \in Gradings(before) : Made(x)
        BY <3>3, <4>2 DEF Grounded
      <4>4. ASSUME NEW x \in Gradings(before), NEW k \in DOMAIN made'[f], k >= i
            PROVE  made'[f][k].id # x
        <5>1. k = n
          BY <1>2, <4>1, <4>4
        <5> QED BY <1>3, <4>1, <4>3, <5>1
      <4>5. \A x \in Gradings(before) : Made(x)'
        BY <1>5, <4>3
      <4>6. Distinct(before)
        BY <4>2 DEF Grounded
      <4>7. Saw(f, i)'
        BY <4>1, <4>2, <4>4, <4>5, <4>6 DEF Saw, Distinct, Gradings
      <4> QED BY <1>3, <3>3, <4>7
    <3> QED BY <3>1, <3>2, <3>3
  <2> QED BY <2>1 DEF SnapshotsInv
<1>11. ViewsInv'
  <2>1. ASSUME NEW b \in Cards PROVE Grounded(cards[b])'
    <3>1. PICK s \in Seq(Events) : s = cards[b] /\ s = cards'[b] /\ Grounded(s)
      BY <1>3 DEF TypeOK, OnceInv, ViewsInv
    <3>2. Grounded(s)'
      BY <1>7, <3>1
    <3> QED BY <3>1, <3>2
  <2>2. ASSUME env.snapshots, NEW f \in Devices, NEW b \in Cards PROVE Grounded(local[f][b])'
    <3>1. PICK s \in Seq(Events) : s = local[f][b] /\ Grounded(s)
      BY <2>2 DEF TypeOK, OnceInv, ViewsInv
    <3>2. Grounded(s)'
      BY <1>7, <3>1
    <3>3. CASE f # d \/ b # c
      <4>1. local'[f][b] = s
        BY <1>2, <3>1, <3>3
      <4> QED BY <3>2, <4>1
    <3>4. CASE f = d /\ b = c
      <4>1. PICK longer : longer = Append(s, e)
        OBVIOUS
      <4>2. e \notin Gradings(s) /\ Distinct(s)
        BY <1>3, <2>2, <3>1 DEF Grounded
      <4>3. Distinct(longer) /\ Gradings(longer) = Gradings(s) \cup {e}
        BY <4>1, <4>2, AppendDistinct
      <4>4. \A x \in Gradings(longer) : Made(x)'
        BY <1>5, <1>6, <2>2, <3>1, <4>3 DEF Grounded
      <4>5. Grounded(longer)'
        BY <1>3, <2>2, <4>3, <4>4 DEF Grounded, Distinct, Gradings
      <4>6. local'[f][b] = longer
        BY <1>2, <3>1, <3>4, <4>1
      <4> QED BY <4>5, <4>6
    <3> QED BY <3>3, <3>4
  <2> QED BY <1>3, <2>1, <2>2 DEF ViewsInv
<1>12. ASSUME NEW p \in Requests PROVE ReplayInv(push[p])'
  <2>1. PICK q \in Push : q = push[p] /\ q = push'[p] /\ ReplayInv(q)
    BY <1>3 DEF TypeOK, OnceInv
  <2>2. /\ q.fresh \subseteq q.batch /\ q.pending \subseteq q.batch
        /\ q.stage # "idle" => q.device \in Devices /\ q.batch \subseteq DOMAIN made[q.device]
    BY <2>1, PushTypes
  <2>3. \A b \in Cards : Grounded(q.rows[b])'
    BY <1>7, <2>1 DEF ReplayInv, Push
  <2>4. Replays(q) => Grounded(q.state)'
    BY <1>7, <2>1 DEF ReplayInv, Push
  <2>5. Replays(q) => \A i \in q.batch : made'[q.device][i] = made[q.device][i]
    BY <1>4, <2>2 DEF Replays
  <2>6. ReplayInv(q)'
    BY <1>3, <2>1, <2>2, <2>3, <2>4, <2>5 DEF ReplayInv, Replays, Gradings
  <2> QED BY <2>1, <2>6
<1> QED BY <1>3, <1>9, <1>10, <1>11, <1>12 DEF OnceInv

LEMMA OnceStep ==
    TypeOK /\ NothingChosen /\ OnceInv /\ [Next]_vars => OnceInv'
<1> SUFFICES ASSUME TypeOK, NothingChosen, OnceInv, [Next]_vars PROVE OnceInv'
  OBVIOUS
<1>1. TypeOK'
  BY TypesStep
<1>2. ASSUME NEW d \in Devices, Pull(d) PROVE OnceInv'
  <2>1. /\ UNCHANGED <<cards, log, made, push, env>>
        /\ local' = [local EXCEPT ![d] = cards] /\ local \in [Devices -> [Cards -> Seq(Events)]]
    BY <1>2 DEF Pull, TypeOK
  <2>2. made' = made /\ env' = env
    BY <2>1
  <2>3. MadeOnce' /\ SnapshotsInv'
    <3>1. MadeOnce /\ SnapshotsInv
      BY DEF OnceInv
    <3>2. MadeOnce'
      BY <2>2, <3>1 DEF MadeOnce
    <3> QED BY <2>2, <3>1, <3>2 DEF SnapshotsInv, Saw, Made, Distinct, Gradings
  <2>4. \A s : Grounded(s) => Grounded(s)'
    BY <2>1 DEF Grounded, Distinct, Gradings, Made, Logged
  <2>5. ASSUME NEW s, NEW f \in Devices, NEW c \in Cards, env.snapshots, s = local'[f][c]
        PROVE  Grounded(s)
    <3>1. s = cards[c] \/ s = local[f][c]
      BY <2>1, <2>5
    <3> QED BY <2>5, <3>1 DEF OnceInv, ViewsInv
  <2>6. ViewsInv'
    <3>1. ASSUME NEW f \in Devices, NEW c \in Cards, env.snapshots PROVE Grounded(local[f][c])'
      <4>1. PICK s : s = local'[f][c]
        OBVIOUS
      <4>2. Grounded(s)'
        BY <2>4, <2>5, <3>1, <4>1
      <4> QED BY <4>1, <4>2 DEF Grounded, Distinct, Gradings
    <3>2. ASSUME NEW c \in Cards PROVE Grounded(cards[c])'
      <4>1. PICK s : s = cards[c] /\ s = cards'[c] /\ Grounded(s)
        BY <2>1 DEF OnceInv, ViewsInv
      <4>2. Grounded(s)'
        BY <2>4, <4>1
      <4> QED BY <4>1, <4>2 DEF Grounded, Distinct, Gradings
    <3> QED BY <2>1, <3>1, <3>2 DEF ViewsInv
  <2>7. ASSUME NEW p \in Requests PROVE ReplayInv(push[p])'
    <3>1. PICK r : r = push[p] /\ r = push'[p] /\ ReplayInv(r)
      BY <2>1 DEF OnceInv
    <3>2. UNCHANGED <<made, log, env>>
      BY <2>1
    <3>3. ReplayInv(r)'
      BY <3>1, <3>2, ReplayStays
    <3> QED BY <3>1, <3>3 DEF ReplayInv
  <2> QED BY <2>1, <2>3, <2>6, <2>7 DEF OnceInv
<1>3. ASSUME NEW p \in Requests, NEW d \in Devices, Send(p, d) PROVE OnceInv'
  <2>1. PICK r : r = push'[p]
    OBVIOUS
  <2>2. /\ r.stage = "cards" /\ \A c \in Cards : r.rows[c] = <<>>
        /\ \A o \in Requests \ {p} : push'[o] = push[o]
    BY <1>3, <2>1, SendWrites
  <2>3. ReplayInv(r)
    BY <2>2, EmptyGrounded DEF ReplayInv, Replays
  <2> QED BY <1>1, <1>3, <2>1, <2>2, <2>3, OnceReads DEF Send
<1>4. ASSUME NEW p \in Requests, FinishPush(p) PROVE OnceInv'
  <2>1. PICK r : r = push'[p]
    OBVIOUS
  <2>2. /\ r.stage = "reply" /\ r.rows = push[p].rows
        /\ \A o \in Requests \ {p} : push'[o] = push[o]
    BY <1>4, <2>1, FinishPushWrites
  <2>3. ReplayInv(r)
    BY <2>2 DEF ReplayInv, Replays, OnceInv
  <2> QED BY <1>1, <1>4, <2>1, <2>2, <2>3, OnceReads DEF FinishPush
<1>5. ASSUME NEW p \in Requests, InsertReview(p) PROVE OnceInv'
  <2>1. CASE log[NextId(p)] = 0
    BY <1>1, <1>5, <2>1, OnceInsertReview
  <2>2. CASE ~(log[NextId(p)] = 0)
    BY <1>1, <1>5, <2>2, OnceEnds DEF InsertReview, ClientIdIsNew, NextId, Next1
  <2> QED BY <2>1, <2>2
<1>6. ASSUME NEW p \in Requests, Reply(p) PROVE OnceInv'
  BY <1>1, <1>6, OnceEnds DEF Reply
<1>7. ASSUME NEW p \in Requests, Fail(p) PROVE OnceInv'
  BY <1>1, <1>7, OnceEnds DEF Fail
<1>8. CASE UNCHANGED vars
  BY <1>8 DEF vars, OnceInv, MadeOnce, SnapshotsInv, Saw, ViewsInv, ReplayInv, Replays, Grounded,
              Distinct, Gradings, Made, Logged
<1> QED BY <1>1, <1>2, <1>3, <1>4, <1>5, <1>6, <1>7, <1>8, OnceGradeOffline, OnceReadCards,
           OnceReadExisting, OnceUpdateCard DEF Next, Step

\* DeviceSync: a review event is logged at most once and moves its card at most
\* once, however many pushes bring it, in whatever order their statements run
\* and wherever they stop, with and without snapshots.
THEOREM EventsCountOnce == Spec => []AppliedAtMostOnce
<1>1. OnceInv => AppliedAtMostOnce
  BY DEF OnceInv, ViewsInv, Grounded, Distinct, AppliedAtMostOnce
<1> QED BY <1>1, TypesStart, TypesStep, OnceStarts, OnceStep, PTL DEF Spec

--------------------------------------------------------------------------------
(***************************************************************************)
(* One push at a time                                                      *)
(***************************************************************************)
\* What a push has read is what the table holds, of the cards it has yet to
\* write, and the card it replays has nothing that its state lacks.
CurrentRows(q) ==
    /\ q.stage = "existing" => q.rows = cards
    /\ Replays(q) =>
          /\ Gradings(cards[q.card]) \subseteq Gradings(q.state)
          /\ \A i \in q.fresh : /\ made[q.device][i].card # q.card
                                /\ q.rows[made[q.device][i].card] = cards[made[q.device][i].card]

OrderInv ==
    /\ \A p \in Requests : push[p].stage # "idle" => p \in env.slots
    /\ Orderly => \A p \in Requests : CurrentRows(push[p])

LEMMA OrderStarts == Init => OrderInv
<1> SUFFICES ASSUME Init PROVE OrderInv
  OBVIOUS
<1>1. \A p \in Requests : push[p] = Idle
  BY DEF Init
<1> QED BY <1>1, IdleIs DEF OrderInv, CurrentRows, Replays

\* A request that is not idle is alone.
LEMMA Alone ==
    ASSUME OrderInv, Orderly, NEW p \in Requests, push[p].stage # "idle"
    PROVE  \A o \in Requests \ {p} : push[o].stage = "idle"
BY DEF OrderInv, Orderly

\* A step of the push in slot p.
LEMMA OrderPushStep ==
    ASSUME OrderInv, NEW p \in Requests, push[p].stage # "idle",
           \A o \in Requests \ {p} : push'[o] = push[o], env' = env,
           NEW r, r = push'[p], Orderly => CurrentRows(r)'
    PROVE  OrderInv'
<1>1. \A o \in Requests : push'[o].stage # "idle" => o \in env'.slots
  BY DEF OrderInv
<1>2. ASSUME Orderly, NEW o \in Requests PROVE CurrentRows(push[o])'
  <2>1. CASE o = p
    <3>1. CurrentRows(r)'
      BY <1>2
    <3> QED BY <2>1, <3>1 DEF CurrentRows
  <2>2. CASE o # p
    <3>1. push'[o].stage = "idle"
      BY <1>2, <2>2, Alone
    <3> QED BY <3>1 DEF CurrentRows, Replays
  <2> QED BY <2>1, <2>2
<1>3. Orderly' => Orderly
  BY DEF Orderly
<1> QED BY <1>1, <1>2, <1>3 DEF OrderInv

\* Without snapshots a replay starts from the row that was read.
LEMMA ReplayFromRow ==
    ASSUME TypeOK, OnceInv, ~env.snapshots, NEW p \in Requests, push[p].stage # "idle",
           NEW S, S \subseteq push[p].batch, NEW c \in Cards
    PROVE  ReplayFrom(push[p].rows[c], made[push[p].device], S) = push[p].rows[c]
<1>1. /\ push[p].device \in Devices /\ made[push[p].device] \in Seq(Event)
      /\ push[p].batch \subseteq DOMAIN made[push[p].device]
      /\ push[p].rows \in [Cards -> Seq(Events)]
  BY PushTypes
<1>2. PICK s \in Seq(Event), row \in Seq(Events) :
          s = made[push[p].device] /\ row = push[p].rows[c]
  BY <1>1
<1>3. \A i \in S : s[i].before = None
  BY <1>1, <1>2 DEF OnceInv, SnapshotsInv
<1>4. S \subseteq DOMAIN s
  BY <1>1, <1>2
<1>5. ReplayFrom(row, s, S) = row
  BY <1>3, <1>4, ReplayFromIs
<1> QED BY <1>2, <1>5

LEMMA OrderReadExisting ==
    ASSUME TypeOK, OnceInv, OrderInv, NEW p \in Requests, ReadExisting(p)
    PROVE  OrderInv'
<1>1. PICK f : /\ push'[p] = Resume(push[p], f) /\ f \subseteq push[p].batch
               /\ \A o \in Requests \ {p} : push'[o] = push[o]
  BY ReadExistingWrites
<1>2. PICK r : r = push'[p]
  OBVIOUS
<1>3. push[p].stage = "existing" /\ UNCHANGED <<cards, made, env>>
  BY DEF ReadExisting
<1>4. GoesOnAs(push[p], f, r)
  BY <1>1, <1>2, <1>3, ResumesAs
<1>5. ASSUME Orderly PROVE CurrentRows(r)'
  <2>1. push[p].rows = cards /\ r.rows = cards
    BY <1>3, <1>4, <1>5 DEF OrderInv, CurrentRows, GoesOnAs
  <2>2. CASE r.stage = "finish"
    BY <2>2 DEF CurrentRows, Replays
  <2>3. CASE r.stage = "insert"
    <3>1. /\ r.card \in Cards /\ r.pending \subseteq f /\ r.fresh \subseteq f
          /\ r.device = push[p].device
          /\ \A i \in r.fresh : made[r.device][i].card # r.card
          /\ r.state = ReplayFrom(push[p].rows[r.card], made[push[p].device], r.pending)
      BY <1>4, <2>3 DEF GoesOnAs
    <3>2. PICK S \in SUBSET push[p].batch, c \in Cards : S = r.pending /\ c = r.card
      BY <1>1, <3>1
    <3>3. push[p].stage # "idle" /\ ~env.snapshots
      BY <1>3, <1>5 DEF Orderly
    <3>4. ReplayFrom(push[p].rows[c], made[push[p].device], S) = push[p].rows[c]
      BY <3>2, <3>3, ReplayFromRow
    <3>5. r.state = cards[r.card]
      BY <2>1, <3>1, <3>2, <3>4
    <3> QED BY <1>3, <2>1, <2>3, <3>1, <3>5 DEF CurrentRows, Replays
  <2> QED BY <1>4, <2>2, <2>3 DEF GoesOnAs
<1> QED BY <1>1, <1>2, <1>3, <1>5, OrderPushStep

LEMMA OrderUpdateCard ==
    ASSUME TypeOK, OnceInv, OrderInv, NEW p \in Requests, UpdateCard(p)
    PROVE  OrderInv'
<1>1. PICK f : f = push[p].fresh /\ f \subseteq push[p].batch
  BY PushTypes
<1>2. PICK r : r = push'[p]
  OBVIOUS
<1>3. /\ r = Resume(push[p], f) /\ push[p].stage = "update"
      /\ \A o \in Requests \ {p} : push'[o] = push[o]
      /\ \A c \in Cards \ {push[p].card} : cards'[c] = cards[c]
      /\ UNCHANGED <<made, env>>
  BY <1>1, <1>2, UpdateCardWrites DEF UpdateCard
<1>4. GoesOnAs(push[p], f, r)
  BY <1>1, <1>3, ResumesAs
<1>5. ASSUME Orderly PROVE CurrentRows(r)'
  <2>1. /\ push[p].device \in Devices /\ made[push[p].device] \in Seq(Event)
        /\ push[p].batch \subseteq DOMAIN made[push[p].device]
    BY <1>3, PushTypes
  <2>2. ASSUME NEW i \in f
        PROVE  push[p].rows[made[push[p].device][i].card] = cards'[made[push[p].device][i].card]
    <3>1. PICK c : c = made[push[p].device][i].card
      OBVIOUS
    <3>2. c \in Cards
      BY <1>1, <2>1, <3>1, PositionsAre
    <3>3. c # push[p].card /\ push[p].rows[c] = cards[c]
      BY <1>1, <1>3, <1>5, <2>2, <3>1 DEF OrderInv, CurrentRows, Replays
    <3> QED BY <1>3, <3>1, <3>2, <3>3
  <2>3. CASE r.stage = "finish"
    BY <2>3 DEF CurrentRows, Replays
  <2>4. CASE r.stage = "insert"
    <3>1. /\ r.card \in Cards /\ r.pending \subseteq f /\ r.fresh \subseteq f /\ r.pending # {}
          /\ r.device = push[p].device /\ r.rows = push[p].rows
          /\ \A i \in r.fresh : made[r.device][i].card # r.card
          /\ \A i \in r.pending : made[r.device][i].card = r.card
          /\ r.state = ReplayFrom(push[p].rows[r.card], made[push[p].device], r.pending)
      BY <1>4, <2>4 DEF GoesOnAs
    <3>2. PICK S \in SUBSET push[p].batch, c \in Cards : S = r.pending /\ c = r.card
      BY <1>1, <3>1
    <3>3. push[p].stage # "idle" /\ ~env.snapshots
      BY <1>3, <1>5 DEF Orderly
    <3>4. ReplayFrom(push[p].rows[c], made[push[p].device], S) = push[p].rows[c]
      BY <3>2, <3>3, ReplayFromRow
    <3>5. r.state = cards'[r.card]
      BY <2>2, <3>1, <3>2, <3>4
    <3>6. \A i \in r.fresh : r.rows[made[r.device][i].card] = cards'[made[r.device][i].card]
      BY <2>2, <3>1
    <3> QED BY <1>3, <2>4, <3>1, <3>5, <3>6 DEF CurrentRows, Replays
  <2> QED BY <1>4, <2>3, <2>4 DEF GoesOnAs
<1> QED BY <1>2, <1>3, <1>5, OrderPushStep

LEMMA AppendKeeps ==
    ASSUME NEW s \in Seq(Events), NEW e \in Events
    PROVE  Gradings(Append(s, e)) = Gradings(s) \cup {e}
<1>1. PICK t : t = Append(s, e)
  OBVIOUS
<1>2. /\ DOMAIN t = DOMAIN s \cup {Len(s) + 1} /\ t[Len(s) + 1] = e
      /\ \A i \in DOMAIN s : t[i] = s[i]
  BY <1>1
<1> QED BY <1>1, <1>2 DEF Gradings

LEMMA OrderInsertReview ==
    ASSUME TypeOK, OrderInv, NEW p \in Requests, InsertReview(p), log[NextId(p)] = 0
    PROVE  OrderInv'
<1>1. PICK r : r = push'[p]
  OBVIOUS
<1>2. PICK id \in Events : id = NextId(p)
  BY NextIs DEF InsertReview
<1>3. /\ push[p].stage = "insert" /\ UNCHANGED <<made, env, cards>>
      /\ push[p].state \in Seq(Events)
  BY PushTypes DEF InsertReview
<1>4. /\ r.stage \in {"insert", "update"} /\ r.state = Append(push[p].state, id)
      /\ r.card = push[p].card /\ r.fresh = push[p].fresh /\ r.device = push[p].device
      /\ r.rows = push[p].rows /\ \A o \in Requests \ {p} : push'[o] = push[o]
  BY <1>1, <1>2, InsertReviewWrites
<1>5. ASSUME Orderly PROVE CurrentRows(r)'
  <2>1. PICK state \in Seq(Events) : state = push[p].state
    BY <1>3
  <2>2. Gradings(r.state) = Gradings(state) \cup {id}
    BY <1>4, <2>1, AppendKeeps
  <2>3. Gradings(cards[r.card]) \subseteq Gradings(r.state)
    BY <1>3, <1>4, <1>5, <2>1, <2>2 DEF OrderInv, CurrentRows, Replays
  <2>4. \A i \in r.fresh : /\ made[r.device][i].card # r.card
                           /\ r.rows[made[r.device][i].card] = cards[made[r.device][i].card]
    BY <1>3, <1>4, <1>5 DEF OrderInv, CurrentRows, Replays
  <2>5. (Gradings(cards[r.card]) \subseteq Gradings(r.state))'
    BY <1>3, <2>3 DEF Gradings
  <2> QED BY <1>3, <1>4, <2>4, <2>5 DEF CurrentRows, Replays
<1> QED BY <1>1, <1>3, <1>4, <1>5, OrderPushStep

\* A request that is not replaying is not behind.
LEMMA NotBehind ==
    ASSUME NEW r, ~Replays(r), r.stage = "existing" => r.rows = cards'
    PROVE  CurrentRows(r)'
BY DEF CurrentRows, Replays

LEMMA OrderStep ==
    TypeOK /\ OnceInv /\ OrderInv /\ [Next]_vars => OrderInv'
<1> SUFFICES ASSUME TypeOK, OnceInv, OrderInv, [Next]_vars PROVE OrderInv'
  OBVIOUS
<1>1. ASSUME NEW d \in Devices, NEW e \in Events, NEW c \in Cards, GradeOffline(d, e, c)
      PROVE  OrderInv'
  <2>1. UNCHANGED <<cards, push, env>>
    BY <1>1 DEF GradeOffline
  <2>2. \A f \in Devices : \A i \in DOMAIN made[f] : made'[f][i] = made[f][i]
    BY <1>1, GradeOfflineWrites
  <2>3. ASSUME NEW p \in Requests, CurrentRows(push[p]) PROVE CurrentRows(push[p])'
    <3>1. PICK r : r = push[p] /\ r = push'[p] /\ CurrentRows(r)
      BY <2>1, <2>3
    <3>2. Replays(r) => r.device \in Devices /\ r.fresh \subseteq DOMAIN made[r.device]
      BY <3>1, PushTypes DEF Replays
    <3>3. Replays(r) => \A i \in r.fresh : made'[r.device][i] = made[r.device][i]
      BY <2>2, <3>2
    <3>4. CurrentRows(r)'
      BY <2>1, <3>1, <3>3 DEF CurrentRows, Replays, Gradings
    <3> QED BY <3>1, <3>4
  <2>4. Orderly' = Orderly
    BY <2>1 DEF Orderly
  <2> QED BY <2>1, <2>3, <2>4 DEF OrderInv
<1>2. ASSUME UNCHANGED <<cards, push, env, made>> PROVE OrderInv'
  BY <1>2 DEF OrderInv, Orderly, CurrentRows, Replays, Gradings
<1>3. ASSUME NEW p \in Requests, NEW d \in Devices, Send(p, d) PROVE OrderInv'
  <2>1. PICK r : r = push'[p]
    OBVIOUS
  <2>2. /\ r.stage = "cards" /\ \A o \in Requests \ {p} : push'[o] = push[o]
        /\ UNCHANGED <<cards, env, made>> /\ p \in env.slots
    BY <1>3, <2>1, SendWrites DEF Send
  <2>3. CurrentRows(r)'
    BY <2>2, NotBehind DEF Replays
  <2>4. ASSUME NEW o \in Requests, Orderly PROVE CurrentRows(push[o])'
    <3>1. CASE o = p
      BY <2>1, <2>3, <3>1 DEF CurrentRows
    <3>2. CASE o # p
      <4>1. PICK q : q = push[o] /\ q = push'[o] /\ CurrentRows(q)
        BY <2>2, <2>4, <3>2 DEF OrderInv
      <4>2. CurrentRows(q)'
        BY <2>2, <4>1 DEF CurrentRows, Replays, Gradings
      <4> QED BY <4>1, <4>2
    <3> QED BY <3>1, <3>2
  <2>5. Orderly' = Orderly
    BY <2>2 DEF Orderly
  <2>6. \A o \in Requests : push'[o].stage # "idle" => o \in env'.slots
    BY <2>2 DEF OrderInv
  <2> QED BY <2>4, <2>5, <2>6 DEF OrderInv
<1>4. ASSUME NEW p \in Requests, push[p].stage # "idle", env' = env,
             \A o \in Requests \ {p} : push'[o] = push[o],
             ~Replays(push'[p]), push'[p].stage = "existing" => push'[p].rows = cards'
      PROVE  OrderInv'
  <2>1. PICK r : r = push'[p]
    OBVIOUS
  <2>2. CurrentRows(r)'
    BY <1>4, <2>1, NotBehind
  <2> QED BY <1>4, <2>1, <2>2, OrderPushStep
<1>5. ASSUME NEW p \in Requests, push[p].stage # "idle", env' = env,
             push' = [push EXCEPT ![p] = Idle]
      PROVE  OrderInv'
  <2>1. push'[p] = Idle /\ \A o \in Requests \ {p} : push'[o] = push[o]
    BY <1>5, EndWrites
  <2>2. ~Replays(push'[p]) /\ push'[p].stage = "idle"
    BY <2>1, IdleIs DEF Replays
  <2> QED BY <1>4, <1>5, <2>1, <2>2
<1>6. ASSUME NEW p \in Requests, Step(p) PROVE OrderInv'
  <2>1. CASE ReadCards(p)
    <3>1. /\ push[p].stage # "idle" /\ env' = env /\ cards' = cards
          /\ push'[p].stage = "existing" /\ push'[p].rows = cards
          /\ \A o \in Requests \ {p} : push'[o] = push[o]
      BY <2>1, ReadCardsWrites DEF ReadCards
    <3> QED BY <1>4, <3>1 DEF Replays
  <2>2. CASE FinishPush(p)
    <3>1. /\ push[p].stage # "idle" /\ env' = env /\ push'[p].stage = "reply"
          /\ \A o \in Requests \ {p} : push'[o] = push[o]
      BY <2>2, FinishPushWrites DEF FinishPush
    <3> QED BY <1>4, <3>1 DEF Replays
  <2>3. CASE Reply(p)
    BY <1>5, <2>3 DEF Reply
  <2>4. CASE InsertReview(p) /\ ~(log[NextId(p)] = 0)
    <3>1. /\ push[p].stage # "idle" /\ env' = env /\ push' = [push EXCEPT ![p] = Idle]
      BY <2>4 DEF InsertReview, ClientIdIsNew, NextId, Next1
    <3> QED BY <1>5, <3>1
  <2> QED BY <1>6, <2>1, <2>2, <2>3, <2>4, OrderReadExisting, OrderUpdateCard,
             OrderInsertReview DEF Step
<1>7. ASSUME NEW p \in Requests, Fail(p) PROVE OrderInv'
  BY <1>5, <1>7 DEF Fail
<1>8. ASSUME NEW d \in Devices, Pull(d) PROVE OrderInv'
  BY <1>2, <1>8 DEF Pull
<1>9. CASE UNCHANGED vars
  BY <1>2, <1>9 DEF vars
<1> QED BY <1>1, <1>3, <1>6, <1>7, <1>8, <1>9 DEF Next

\* A card is written with everything it reflected.
LEMMA CardsGrow ==
    ASSUME TypeOK, OrderInv, Orderly, NEW p \in Requests, UpdateCard(p), NEW c \in Cards
    PROVE  Gradings(cards[c]) \subseteq Gradings(cards'[c])
<1>1. /\ push[p].stage = "update" /\ cards'[push[p].card] = push[p].state
      /\ \A b \in Cards \ {push[p].card} : cards'[b] = cards[b]
  BY UpdateCardWrites DEF UpdateCard
<1>2. Gradings(cards[push[p].card]) \subseteq Gradings(push[p].state)
  BY <1>1 DEF OrderInv, CurrentRows, Replays
<1> QED BY <1>1, <1>2

\* DeviceSync: with one push at a time and no snapshots, no step of a push takes
\* a grading away from a card, wherever pushes stop and whatever is sent again.
THEOREM PushesAddOnly == Spec => NothingClobbered
<1>1. ASSUME TypeOK, OrderInv, [Next]_vars
      PROVE  [Orderly => \A c \in Cards :
                  Applied(c) \subseteq {cards'[c][i] : i \in DOMAIN cards'[c]}]_vars
  <2>1. CASE cards' = cards
    BY <2>1 DEF Applied
  <2>2. ASSUME NEW p \in Requests, UpdateCard(p), Orderly, NEW c \in Cards
        PROVE  Applied(c) \subseteq {cards'[c][i] : i \in DOMAIN cards'[c]}
    BY <1>1, <2>2, CardsGrow DEF Applied, Gradings
  <2> QED BY <1>1, <2>1, <2>2 DEF Next, Step, GradeOffline, Pull, Send, ReadCards, ReadExisting,
             InsertReview, FinishPush, Reply, Fail, vars
<1> QED BY <1>1, TypesStart, TypesStep, OnceStarts, OnceStep, OrderStarts, OrderStep, PTL
        DEF Spec, NothingClobbered

--------------------------------------------------------------------------------
(***************************************************************************)
(* What is acknowledged                                                    *)
(***************************************************************************)
\* An event of a push's batch is in the log, or the push has it yet to replay.
NewOrLogged(q) ==
    /\ Replays(q) =>
          /\ q.fresh \cap q.pending = {}
          /\ \A i \in q.batch : Logged(made[q.device][i].id) <=> i \notin q.fresh \cup q.pending
    /\ q.stage \in {"finish", "reply"} => \A i \in q.batch : Logged(made[q.device][i].id)

OnItsWay(e) == \E p \in Requests : Replays(push[p]) /\ e \in Gradings(push[p].state)

IsApplied(e) == \E c \in Cards : e \in Gradings(cards[c])

\* One push at a time, and only answers get lost.
Lossy == Orderly /\ env.failing \subseteq {"reply"}

AckInv ==
    Lossy => /\ \A p \in Requests : NewOrLogged(push[p])
             /\ \A e \in Events : Logged(e) => IsApplied(e) \/ OnItsWay(e)
             /\ \A e \in acked : IsApplied(e)

LEMMA AckStarts == Init => AckInv
<1> SUFFICES ASSUME Init PROVE AckInv
  OBVIOUS
<1>1. \A p \in Requests : NewOrLogged(push[p])
  <2>1. \A p \in Requests : push[p] = Idle
    BY DEF Init
  <2> QED BY <2>1, IdleIs DEF NewOrLogged, Replays
<1>2. acked = {} /\ \A e \in Events : ~Logged(e)
  BY DEF Init, Logged
<1> QED BY <1>1, <1>2 DEF AckInv

\* A step of the push in slot p: what is logged is in its state or in a card.
LEMMA AckPushStep ==
    ASSUME TypeOK, TypeOK', OrderInv, AckInv, NEW p \in Requests, push[p].stage # "idle",
           \A o \in Requests \ {p} : push'[o] = push[o], UNCHANGED <<made, env>>,
           NEW q, q = push[p], NEW r, r = push'[p],
           Lossy => /\ NewOrLogged(r)'
                    /\ \A c \in Cards : Gradings(cards[c]) \subseteq Gradings(cards'[c])
                    /\ \A e \in Events : Logged(e)' => Logged(e) \/ (Replays(r) /\ e \in Gradings(r.state))
                    /\ Replays(q) => \A e \in Gradings(q.state) :
                           IsApplied(e)' \/ (Replays(r) /\ e \in Gradings(r.state))
                    /\ \A e \in acked' : e \in acked \/ IsApplied(e)'
    PROVE  AckInv'
<1> SUFFICES ASSUME Lossy' PROVE /\ \A o \in Requests : NewOrLogged(push[o])'
                                 /\ \A e \in Events : Logged(e)' => IsApplied(e)' \/ OnItsWay(e)'
                                 /\ \A e \in acked' : IsApplied(e)'
  BY DEF AckInv
<1>1. Lossy /\ Orderly
  BY DEF Lossy, Orderly
<1>2. \A o \in Requests \ {p} : push[o].stage = "idle" /\ push'[o].stage = "idle"
  BY <1>1, Alone
<1>3. ASSUME NEW o \in Requests PROVE NewOrLogged(push[o])'
  <2>1. CASE o = p
    <3>1. NewOrLogged(r)'
      BY <1>1
    <3> QED BY <2>1, <3>1 DEF NewOrLogged
  <2>2. CASE o # p
    BY <1>2, <2>2 DEF NewOrLogged, Replays
  <2> QED BY <2>1, <2>2
<1>4. \A e : IsApplied(e) => IsApplied(e)'
  BY <1>1 DEF IsApplied
<1>5. ASSUME NEW e, Replays(r), e \in Gradings(r.state) PROVE OnItsWay(e)'
  BY <1>5 DEF OnItsWay, Replays, Gradings
<1>6. ASSUME NEW e \in Events, Logged(e)' PROVE IsApplied(e)' \/ OnItsWay(e)'
  <2>1. Logged(e) \/ (Replays(r) /\ e \in Gradings(r.state))
    BY <1>1, <1>6
  <2>2. CASE Replays(r) /\ e \in Gradings(r.state)
    BY <1>5, <2>2
  <2>3. CASE IsApplied(e)
    BY <1>4, <2>3
  <2>4. CASE Logged(e) /\ ~IsApplied(e)
    <3>1. OnItsWay(e)
      BY <1>1, <2>4 DEF AckInv
    <3>2. PICK o \in Requests : Replays(push[o]) /\ e \in Gradings(push[o].state)
      BY <3>1 DEF OnItsWay
    <3>3. o = p
      BY <1>2, <3>2 DEF Replays
    <3>4. IsApplied(e)' \/ (Replays(r) /\ e \in Gradings(r.state))
      BY <1>1, <3>2, <3>3
    <3> QED BY <1>5, <3>4
  <2> QED BY <2>1, <2>2, <2>3, <2>4
<1>7. \A e \in acked' : IsApplied(e)'
  BY <1>1, <1>4 DEF AckInv
<1> QED BY <1>3, <1>6, <1>7

\* A push that goes on still has to replay what is fresh.
LEMMA ResumeIsNew ==
    ASSUME NEW q, NEW f, NEW r, GoesOnAs(q, f, r), UNCHANGED <<made, log>>,
           \A i \in q.batch : Logged(made[q.device][i].id) <=> i \notin f
    PROVE  NewOrLogged(r)'
<1>1. \A i \in r.batch : Logged(made[r.device][i].id)' <=> i \notin f
  BY DEF GoesOnAs, Logged
<1>2. CASE r.stage = "finish"
  BY <1>1, <1>2 DEF NewOrLogged, Replays, GoesOnAs
<1>3. CASE r.stage = "insert"
  <2>1. r.fresh \cap r.pending = {} /\ r.fresh \cup r.pending = f
    BY <1>3 DEF GoesOnAs
  <2> QED BY <1>1, <1>3, <2>1 DEF NewOrLogged, Replays
<1> QED BY <1>2, <1>3 DEF GoesOnAs

LEMMA AckReadExisting ==
    ASSUME TypeOK, TypeOK', OrderInv, AckInv, NEW p \in Requests, ReadExisting(p)
    PROVE  AckInv'
<1>1. PICK f : /\ f = Fresh(made[push[p].device], push[p].batch)
               /\ push'[p] = Resume(push[p], f) /\ f \subseteq push[p].batch
               /\ \A o \in Requests \ {p} : push'[o] = push[o]
  BY ReadExistingWrites
<1>2. PICK q : q = push[p]
  OBVIOUS
<1>3. PICK r : r = push'[p]
  OBVIOUS
<1>4. q.stage = "existing" /\ UNCHANGED <<cards, log, made, acked, env>>
  BY <1>2 DEF ReadExisting
<1>5. GoesOnAs(q, f, r)
  BY <1>1, <1>2, <1>3, <1>4, ResumesAs
<1>6. \A i \in q.batch : Logged(made[q.device][i].id) <=> i \notin f
  BY <1>1, <1>2 DEF Fresh, Logged
<1>7. NewOrLogged(r)'
  BY <1>4, <1>5, <1>6, ResumeIsNew
<1>8. ~Replays(q) /\ \A e \in Events : Logged(e)' => Logged(e)
  BY <1>4 DEF Replays, Logged
<1> QED BY <1>1, <1>2, <1>3, <1>4, <1>7, <1>8, AckPushStep

LEMMA AckUpdateCard ==
    ASSUME TypeOK, TypeOK', OrderInv, AckInv, NEW p \in Requests, UpdateCard(p)
    PROVE  AckInv'
<1>1. PICK f : f = push[p].fresh /\ f \subseteq push[p].batch
  BY PushTypes
<1>2. PICK q : q = push[p]
  OBVIOUS
<1>3. PICK r : r = push'[p]
  OBVIOUS
<1>4. /\ q.stage = "update" /\ q.pending = {} /\ UNCHANGED <<log, made, acked, env>>
      /\ r = Resume(q, f) /\ q.card \in Cards /\ cards'[q.card] = q.state
      /\ \A o \in Requests \ {p} : push'[o] = push[o]
  BY <1>1, <1>2, <1>3, UpdateCardWrites DEF UpdateCard
<1>5. GoesOnAs(q, f, r)
  BY <1>1, <1>2, <1>4, ResumesAs
<1>6. ASSUME Lossy PROVE NewOrLogged(r)'
  <2>1. \A i \in q.batch : Logged(made[q.device][i].id) <=> i \notin f
    BY <1>1, <1>2, <1>4, <1>6 DEF AckInv, NewOrLogged, Replays
  <2> QED BY <1>4, <1>5, <2>1, ResumeIsNew
<1>7. ASSUME Lossy, NEW c \in Cards PROVE Gradings(cards[c]) \subseteq Gradings(cards'[c])
  BY <1>7, CardsGrow DEF Lossy
<1>8. \A e \in Gradings(q.state) : IsApplied(e)'
  BY <1>4 DEF IsApplied, Gradings
<1>9. \A e \in Events : Logged(e)' => Logged(e)
  BY <1>4 DEF Logged
<1> QED BY <1>2, <1>3, <1>4, <1>6, <1>7, <1>8, <1>9, AckPushStep

LEMMA AckInsertReview ==
    ASSUME TypeOK, TypeOK', OnceInv, OrderInv, AckInv, NEW p \in Requests, InsertReview(p),
           log[NextId(p)] = 0
    PROVE  AckInv'
<1>1. PICK q : q = push[p]
  OBVIOUS
<1>2. PICK r : r = push'[p]
  OBVIOUS
<1>3. PICK id \in Events, n \in Nat : n = Next1(p) /\ id = NextId(p)
  BY NextIs, PushTypes DEF InsertReview
<1>4. /\ r.stage \in {"insert", "update"} /\ r.pending = q.pending \ {n}
      /\ r.state = Append(q.state, id) /\ r.device = q.device /\ r.batch = q.batch
      /\ r.fresh = q.fresh
      /\ \A o \in Requests \ {p} : push'[o] = push[o]
      /\ log' \in [Events -> Nat] /\ log'[id] = 1
      /\ \A e \in Events \ {id} : log'[e] = log[e]
  BY <1>1, <1>2, <1>3, InsertReviewWrites
<1>5. /\ q.stage = "insert" /\ q.device \in Devices /\ made[q.device] \in Seq(Event)
      /\ q.batch \subseteq DOMAIN made[q.device] /\ q.pending \subseteq q.batch
      /\ n \in q.pending /\ id = made[q.device][n].id /\ q.state \in Seq(Events)
  BY <1>1, <1>3, PushTypes, NextIs DEF InsertReview, NextId, Next1
<1>6. UNCHANGED <<cards, made, acked, env>>
  BY DEF InsertReview
<1>7. PICK state \in Seq(Events) : state = q.state
  BY <1>5
<1>8. Gradings(r.state) = Gradings(state) \cup {id}
  BY <1>4, <1>7, AppendKeeps
<1>9. ASSUME Lossy PROVE NewOrLogged(r)'
  <2>1. /\ q.fresh \cap q.pending = {}
        /\ \A i \in q.batch : Logged(made[q.device][i].id) <=> i \notin q.fresh \cup q.pending
    BY <1>1, <1>5, <1>9 DEF AckInv, NewOrLogged, Replays
  <2>2. ASSUME NEW i \in q.batch
        PROVE  Logged(made[q.device][i].id)' <=> i \notin r.fresh \cup r.pending
    <3>1. CASE i = n
      BY <1>4, <1>5, <1>6, <2>1, <3>1 DEF Logged
    <3>2. CASE i # n
      <4>1. made[q.device][i].id # id
        BY <1>5, <3>2 DEF OnceInv, MadeOnce
      <4>2. made[q.device][i].id \in Events
        BY <1>5, PositionsAre
      <4>3. Logged(made[q.device][i].id)' <=> Logged(made[q.device][i].id)
        BY <1>4, <1>6, <4>1, <4>2 DEF Logged
      <4> QED BY <1>4, <2>1, <3>2, <4>3
    <3> QED BY <3>1, <3>2
  <2>3. r.fresh \cap r.pending = {}
    BY <1>4, <2>1
  <2>4. \A i \in r.batch : Logged(made[r.device][i].id)' <=> i \notin r.fresh \cup r.pending
    BY <1>4, <2>2
  <2> QED BY <1>4, <2>3, <2>4 DEF NewOrLogged, Replays
<1>10. Replays(r)
  BY <1>4 DEF Replays
<1>11. \A e \in Events : Logged(e)' => Logged(e) \/ e \in Gradings(r.state)
  BY <1>4, <1>8 DEF Logged
<1>12. \A e \in Gradings(q.state) : e \in Gradings(r.state)
  BY <1>7, <1>8
<1>13. \A c \in Cards : Gradings(cards[c]) \subseteq Gradings(cards'[c])
  BY <1>6
<1>14. push[p].stage # "idle"
  BY <1>1, <1>5
<1>15. \A o \in Requests \ {p} : push'[o] = push[o]
  BY <1>4
<1> QED BY <1>1, <1>2, <1>6, <1>9, <1>10, <1>11, <1>12, <1>13, <1>14, <1>15, AckPushStep

\* A request with no fresh event finds them all in the log.
LEMMA AckStep ==
    TypeOK /\ OnceInv /\ OrderInv /\ AckInv /\ NothingChosen /\ [Next]_vars => AckInv'
<1> SUFFICES ASSUME TypeOK, OnceInv, OrderInv, AckInv, NothingChosen, [Next]_vars PROVE AckInv'
  OBVIOUS
<1>1. TypeOK'
  BY TypesStep
<1>2. ASSUME NEW d \in Devices, NEW e \in Events, NEW c \in Cards, GradeOffline(d, e, c)
      PROVE  AckInv'
  <2>1. UNCHANGED <<cards, log, acked, push, env>>
    BY <1>2 DEF GradeOffline
  <2>2. \A f \in Devices : \A i \in DOMAIN made[f] : made'[f][i] = made[f][i]
    BY <1>2, GradeOfflineWrites
  <2>3. ASSUME NEW p \in Requests, NewOrLogged(push[p]) PROVE NewOrLogged(push[p])'
    <3>1. PICK r : r = push[p] /\ r = push'[p] /\ NewOrLogged(r)
      BY <2>1, <2>3
    <3>2. r.stage # "idle" => \A i \in r.batch : made'[r.device][i] = made[r.device][i]
      BY <2>2, <3>1, PushTypes
    <3>3. NewOrLogged(r)'
      BY <2>1, <3>1, <3>2 DEF NewOrLogged, Replays, Logged
    <3> QED BY <3>1, <3>3
  <2>4. Lossy' = Lossy
    BY <2>1 DEF Lossy, Orderly
  <2> QED BY <2>1, <2>3, <2>4 DEF AckInv, Logged, IsApplied, OnItsWay, Gradings, Replays
<1>3. ASSUME UNCHANGED <<cards, log, acked, push, env, made>> PROVE AckInv'
  BY <1>3 DEF AckInv, Lossy, Orderly, NewOrLogged, Logged, IsApplied, OnItsWay, Gradings, Replays
<1>4. ASSUME NEW p \in Requests, NEW d \in Devices, Send(p, d) PROVE AckInv'
  <2>1. PICK r : r = push'[p]
    OBVIOUS
  <2>2. /\ r.stage = "cards" /\ \A o \in Requests \ {p} : push'[o] = push[o]
        /\ UNCHANGED <<cards, log, acked, env, made>> /\ push[p].stage = "idle"
    BY <1>4, <2>1, SendWrites DEF Send
  <2>3. Lossy' = Lossy /\ \A e : (Logged(e)' = Logged(e) /\ IsApplied(e)' = IsApplied(e))
    BY <2>2 DEF Lossy, Orderly, Logged, IsApplied, Gradings
  <2>4. \A e : OnItsWay(e) => OnItsWay(e)'
    BY <2>2 DEF OnItsWay, Replays, Gradings
  <2>5. ASSUME NEW o \in Requests, Lossy PROVE NewOrLogged(push[o])'
    <3>1. CASE o = p
      BY <2>1, <2>2, <3>1 DEF NewOrLogged, Replays
    <3>2. CASE o # p
      <4>1. PICK q : q = push[o] /\ q = push'[o] /\ NewOrLogged(q)
        BY <2>2, <2>5, <3>2 DEF AckInv
      <4>2. NewOrLogged(q)'
        BY <2>2, <4>1 DEF NewOrLogged, Replays, Logged
      <4> QED BY <4>1, <4>2
    <3> QED BY <3>1, <3>2
  <2> QED BY <2>2, <2>3, <2>4, <2>5 DEF AckInv
<1>5. ASSUME NEW p \in Requests, push[p].stage # "idle", UNCHANGED <<cards, log, made, env>>,
             \A o \in Requests \ {p} : push'[o] = push[o], NEW r, r = push'[p],
             Lossy => /\ ~Replays(push[p]) /\ NewOrLogged(r)'
                      /\ \A e \in acked' : e \in acked \/ IsApplied(e)
      PROVE  AckInv'
  <2>1. PICK q : q = push[p]
    OBVIOUS
  <2>2. \A e : IsApplied(e)' = IsApplied(e) /\ Logged(e)' = Logged(e)
    BY <1>5 DEF IsApplied, Logged, Gradings
  <2>3. \A c \in Cards : Gradings(cards[c]) \subseteq Gradings(cards'[c])
    BY <1>5
  <2> QED BY <1>1, <1>5, <2>1, <2>2, <2>3, AckPushStep
<1>6. ASSUME NEW p \in Requests, push[p].stage # "idle", UNCHANGED <<cards, log, made, env>>,
             push' = [push EXCEPT ![p] = Idle],
             Lossy => ~Replays(push[p]) /\ \A e \in acked' : e \in acked \/ IsApplied(e)
      PROVE  AckInv'
  <2>1. push'[p] = Idle /\ \A o \in Requests \ {p} : push'[o] = push[o]
    BY <1>6, EndWrites
  <2>2. PICK r : r = push'[p]
    OBVIOUS
  <2>3. r.stage = "idle"
    BY <2>1, <2>2, IdleIs
  <2>4. NewOrLogged(r)'
    BY <2>3 DEF NewOrLogged, Replays
  <2> QED BY <1>5, <1>6, <2>1, <2>2, <2>4
<1>7. ASSUME NEW p \in Requests, ReadCards(p) PROVE AckInv'
  <2>1. PICK r : r = push'[p]
    OBVIOUS
  <2>2. /\ push[p].stage = "cards" /\ UNCHANGED <<cards, log, made, acked, env>>
        /\ r.stage = "existing" /\ \A o \in Requests \ {p} : push'[o] = push[o]
    BY <1>7, <2>1, ReadCardsWrites DEF ReadCards
  <2>3. ~Replays(push[p]) /\ NewOrLogged(r)'
    BY <2>2 DEF Replays, NewOrLogged
  <2> QED BY <1>5, <2>2, <2>3, <2>1
<1>8. ASSUME NEW p \in Requests, FinishPush(p) PROVE AckInv'
  <2>1. PICK q, r : q = push[p] /\ r = push'[p]
    OBVIOUS
  <2>2. /\ q.stage = "finish" /\ UNCHANGED <<cards, log, made, acked, env>>
        /\ r.stage = "reply" /\ r.batch = q.batch /\ r.device = q.device
        /\ \A o \in Requests \ {p} : push'[o] = push[o]
    BY <1>8, <2>1, FinishPushWrites DEF FinishPush
  <2>3. ASSUME Lossy PROVE NewOrLogged(r)'
    <3>1. \A i \in q.batch : Logged(made[q.device][i].id)
      BY <2>1, <2>2, <2>3 DEF AckInv, NewOrLogged
    <3>2. \A i \in r.batch : Logged(made[r.device][i].id)'
      BY <2>2, <3>1 DEF Logged
    <3> QED BY <2>2, <3>2 DEF NewOrLogged, Replays
  <2>4. ~Replays(push[p]) /\ push[p].stage # "idle"
    BY <2>1, <2>2 DEF Replays
  <2> QED BY <1>5, <2>1, <2>2, <2>3, <2>4
<1>9. ASSUME NEW p \in Requests, Reply(p) PROVE AckInv'
  <2>1. /\ push[p].stage = "reply" /\ UNCHANGED <<cards, log, made, env>>
        /\ push' = [push EXCEPT ![p] = Idle]
        /\ acked' = acked \cup Ids(made[push[p].device], push[p].batch)
    BY <1>9 DEF Reply
  <2>2. /\ push[p].device \in Devices /\ made[push[p].device] \in Seq(Event)
        /\ push[p].batch \subseteq DOMAIN made[push[p].device]
    BY <2>1, PushTypes
  <2>3. ASSUME Lossy, NEW e \in acked', e \notin acked PROVE IsApplied(e)
    <3>1. PICK i \in push[p].batch : e = made[push[p].device][i].id
      BY <2>1, <2>3 DEF Ids
    <3>2. e \in Events
      BY <2>2, <3>1, PositionsAre
    <3>3. Logged(e)
      BY <2>1, <2>3, <3>1 DEF AckInv, NewOrLogged
    <3>4. ~OnItsWay(e)
      <4>1. \A o \in Requests : ~Replays(push[o])
        BY <2>1, <2>3, Alone DEF Lossy, Replays
      <4> QED BY <4>1 DEF OnItsWay
    <3> QED BY <2>3, <3>2, <3>3, <3>4 DEF AckInv
  <2>4. ~Replays(push[p]) /\ push[p].stage # "idle"
    BY <2>1 DEF Replays
  <2> QED BY <1>6, <2>1, <2>3, <2>4
<1>10. ASSUME NEW p \in Requests, Fail(p) PROVE AckInv'
  <2>1. /\ push[p].stage \in env.failing \ {"idle"} /\ UNCHANGED <<cards, log, made, acked, env>>
        /\ push' = [push EXCEPT ![p] = Idle]
    BY <1>10 DEF Fail
  <2>2. Lossy => ~Replays(push[p])
    BY <2>1 DEF Lossy, Replays
  <2> QED BY <1>6, <2>1, <2>2
<1>11. ASSUME NEW p \in Requests, InsertReview(p) PROVE AckInv'
  <2>1. CASE log[NextId(p)] = 0
    BY <1>1, <1>11, <2>1, AckInsertReview
  <2>2. CASE ~(log[NextId(p)] = 0)
    <3>1. ~Lossy
      <4>1. SUFFICES ASSUME Lossy PROVE FALSE
        OBVIOUS
      <4>2. Next1(p) \in push[p].pending /\ Next1(p) \in push[p].batch /\ Replays(push[p])
        BY <1>11, NextIs DEF InsertReview, Replays
      <4>3. ~Logged(NextId(p))
        BY <4>1, <4>2 DEF AckInv, NewOrLogged, NextId
      <4> QED BY <2>2, <4>3 DEF Logged
    <3>2. env' = env
      BY <1>11 DEF InsertReview
    <3> QED BY <3>1, <3>2 DEF AckInv, Lossy, Orderly
  <2> QED BY <2>1, <2>2
<1>12. ASSUME NEW d \in Devices, Pull(d) PROVE AckInv'
  BY <1>3, <1>12 DEF Pull
<1>13. CASE UNCHANGED vars
  BY <1>3, <1>13 DEF vars
<1> QED BY <1>1, <1>2, <1>4, <1>7, <1>8, <1>9, <1>10, <1>11, <1>12, <1>13, AckReadExisting,
           AckUpdateCard DEF Next, Step

--------------------------------------------------------------------------------
(***************************************************************************)
(* What is logged, in every environment                                    *)
(***************************************************************************)
\* An event of a push's batch that the push has not to replay any more is in the
\* log.  Other pushes only add to the log, so that nothing takes this back; what
\* is still to be replayed may be in the log as well, by another push.
Accounted(q) ==
    /\ Replays(q) =>
          \A i \in q.batch \ (q.fresh \cup q.pending) : Logged(made[q.device][i].id)
    /\ q.stage \in {"finish", "reply"} => \A i \in q.batch : Logged(made[q.device][i].id)

LoggedInv ==
    /\ \A p \in Requests : Accounted(push[p])
    /\ \A e \in acked : Logged(e)

LEMMA LoggedStarts == Init => LoggedInv
<1> SUFFICES ASSUME Init PROVE LoggedInv
  OBVIOUS
<1>1. \A p \in Requests : push[p] = Idle
  BY DEF Init
<1>2. acked = {}
  BY DEF Init
<1> QED BY <1>1, <1>2, IdleIs DEF LoggedInv, Accounted, Replays

\* A push that is left alone while the log grows.
LEMMA AccountedStays ==
    ASSUME TypeOK, NEW p \in Requests, NEW q, q = push[p], Accounted(q),
           \A e \in Events : Logged(e) => Logged(e)',
           \A d \in Devices : \A i \in DOMAIN made[d] : made'[d][i] = made[d][i]
    PROVE  Accounted(q)'
<1>1. CASE q.stage = "idle"
  BY <1>1 DEF Accounted, Replays
<1>2. CASE q.stage # "idle"
  <2>1. /\ q.device \in Devices /\ made[q.device] \in Seq(Event)
        /\ q.batch \subseteq DOMAIN made[q.device]
    BY <1>2, PushTypes
  <2>2. ASSUME NEW i \in q.batch, Logged(made[q.device][i].id)
        PROVE  Logged(made[q.device][i].id)'
    <3>1. PICK e \in Events : e = made[q.device][i].id
      BY <2>1, PositionsAre
    <3>2. log'[e] # 0
      BY <2>2, <3>1 DEF Logged
    <3>3. made'[q.device][i].id = e
      BY <2>1, <3>1
    <3> QED BY <3>2, <3>3 DEF Logged
  <2> QED BY <2>2 DEF Accounted, Replays
<1> QED BY <1>1, <1>2

\* A step of the push in slot p.
LEMMA LoggedPushStep ==
    ASSUME TypeOK, TypeOK', LoggedInv, NEW p \in Requests,
           \A o \in Requests \ {p} : push'[o] = push[o], made' = made,
           \A e \in Events : Logged(e) => Logged(e)',
           NEW r, r = push'[p], Accounted(r)',
           \A e \in acked' : e \in acked \/ Logged(e)
    PROVE  LoggedInv'
<1>1. ASSUME NEW o \in Requests PROVE Accounted(push[o])'
  <2>1. CASE o = p
    BY <2>1 DEF Accounted
  <2>2. CASE o # p
    <3>1. PICK q : q = push[o] /\ q = push'[o] /\ Accounted(q)
      BY <2>2 DEF LoggedInv
    <3>2. Accounted(q)'
      BY <3>1, AccountedStays
    <3> QED BY <3>1, <3>2 DEF Accounted
  <2> QED BY <2>1, <2>2
<1>2. ASSUME NEW e \in acked' PROVE Logged(e)'
  <2>1. e \in Events
    BY DEF TypeOK
  <2> QED BY <2>1 DEF LoggedInv
<1> QED BY <1>1, <1>2 DEF LoggedInv

\* A push that goes on with f accounts for the rest of its batch.
LEMMA ResumeAccounts ==
    ASSUME NEW q, NEW f, NEW r, GoesOnAs(q, f, r), UNCHANGED <<made, log>>,
           \A i \in q.batch \ f : Logged(made[q.device][i].id)
    PROVE  Accounted(r)'
<1>1. \A i \in r.batch \ f : Logged(made[r.device][i].id)'
  BY DEF GoesOnAs, Logged
<1>2. CASE r.stage = "finish"
  BY <1>1, <1>2 DEF Accounted, Replays, GoesOnAs
<1>3. CASE r.stage = "insert"
  <2>1. r.fresh \cup r.pending = f
    BY <1>3 DEF GoesOnAs
  <2> QED BY <1>1, <1>3, <2>1 DEF Accounted, Replays
<1> QED BY <1>2, <1>3 DEF GoesOnAs

LEMMA LoggedReadExisting ==
    ASSUME TypeOK, TypeOK', LoggedInv, NEW p \in Requests, ReadExisting(p)
    PROVE  LoggedInv'
<1>1. PICK f : /\ f = Fresh(made[push[p].device], push[p].batch)
               /\ push'[p] = Resume(push[p], f) /\ f \subseteq push[p].batch
               /\ \A o \in Requests \ {p} : push'[o] = push[o]
  BY ReadExistingWrites
<1>2. PICK q, r : q = push[p] /\ r = push'[p]
  OBVIOUS
<1>3. q.stage = "existing" /\ UNCHANGED <<log, made, acked>>
  BY <1>2 DEF ReadExisting
<1>4. GoesOnAs(q, f, r)
  BY <1>1, <1>2, <1>3, ResumesAs
<1>5. \A i \in q.batch \ f : Logged(made[q.device][i].id)
  BY <1>1, <1>2 DEF Fresh, Logged
<1>6. Accounted(r)'
  BY <1>3, <1>4, <1>5, ResumeAccounts
<1>7. \A e \in Events : Logged(e) => Logged(e)'
  BY <1>3 DEF Logged
<1> QED BY <1>1, <1>2, <1>3, <1>6, <1>7, LoggedPushStep

LEMMA LoggedUpdateCard ==
    ASSUME TypeOK, TypeOK', LoggedInv, NEW p \in Requests, UpdateCard(p)
    PROVE  LoggedInv'
<1>1. PICK f : f = push[p].fresh /\ f \subseteq push[p].batch
  BY PushTypes
<1>2. PICK q, r : q = push[p] /\ r = push'[p]
  OBVIOUS
<1>3. /\ q.stage = "update" /\ q.pending = {} /\ UNCHANGED <<log, made, acked>>
      /\ r = Resume(q, f) /\ \A o \in Requests \ {p} : push'[o] = push[o]
  BY <1>1, <1>2, UpdateCardWrites DEF UpdateCard
<1>4. GoesOnAs(q, f, r)
  BY <1>1, <1>2, <1>3, ResumesAs
<1>5. \A i \in q.batch \ f : Logged(made[q.device][i].id)
  BY <1>1, <1>2, <1>3 DEF LoggedInv, Accounted, Replays
<1>6. Accounted(r)'
  BY <1>3, <1>4, <1>5, ResumeAccounts
<1>7. \A e \in Events : Logged(e) => Logged(e)'
  BY <1>3 DEF Logged
<1> QED BY <1>2, <1>3, <1>6, <1>7, LoggedPushStep

LEMMA LoggedInsertReview ==
    ASSUME TypeOK, TypeOK', LoggedInv, NEW p \in Requests, InsertReview(p), log[NextId(p)] = 0
    PROVE  LoggedInv'
<1>1. PICK q, r : q = push[p] /\ r = push'[p]
  OBVIOUS
<1>2. PICK id \in Events, n \in Nat : n = Next1(p) /\ id = NextId(p)
  BY NextIs, PushTypes DEF InsertReview
<1>3. /\ r.stage \in {"insert", "update"} /\ r.pending = q.pending \ {n}
      /\ r.device = q.device /\ r.batch = q.batch /\ r.fresh = q.fresh
      /\ \A o \in Requests \ {p} : push'[o] = push[o]
      /\ log' \in [Events -> Nat] /\ log'[id] = 1
      /\ \A e \in Events \ {id} : log'[e] = log[e]
  BY <1>1, <1>2, InsertReviewWrites
<1>4. /\ q.stage = "insert" /\ made[q.device] \in Seq(Event)
      /\ q.batch \subseteq DOMAIN made[q.device] /\ id = made[q.device][n].id
  BY <1>1, <1>2, PushTypes DEF InsertReview, NextId, Next1
<1>5. UNCHANGED <<made, acked>>
  BY DEF InsertReview
<1>6. \A e \in Events : Logged(e) => Logged(e)'
  BY <1>3 DEF Logged
<1>7. Accounted(r)'
  <2>1. ASSUME NEW i \in q.batch, i \notin q.fresh, i \notin q.pending \/ i = n
        PROVE  Logged(made[q.device][i].id)'
    <3>1. PICK e \in Events : e = made[q.device][i].id
      BY <1>4, PositionsAre
    <3>2. Logged(e)'
      <4>1. CASE i = n
        BY <1>3, <1>4, <3>1, <4>1 DEF Logged
      <4>2. CASE i \notin q.pending
        <5>1. Logged(e)
          BY <1>1, <1>4, <2>1, <3>1, <4>2 DEF LoggedInv, Accounted, Replays
        <5> QED BY <1>6, <5>1
      <4> QED BY <2>1, <4>1, <4>2
    <3> QED BY <1>5, <3>1, <3>2 DEF Logged
  <2>2. \A i \in r.batch \ (r.fresh \cup r.pending) : Logged(made[r.device][i].id)'
    BY <1>3, <1>5, <2>1
  <2> QED BY <1>3, <2>2 DEF Accounted, Replays
<1> QED BY <1>1, <1>3, <1>5, <1>6, <1>7, LoggedPushStep

LEMMA LoggedStep ==
    TypeOK /\ LoggedInv /\ NothingChosen /\ [Next]_vars => LoggedInv'
<1> SUFFICES ASSUME TypeOK, LoggedInv, NothingChosen, [Next]_vars PROVE LoggedInv'
  OBVIOUS
<1>1. TypeOK'
  BY TypesStep
<1>2. ASSUME UNCHANGED <<log, acked, push>>,
             \A d \in Devices : \A i \in DOMAIN made[d] : made'[d][i] = made[d][i]
      PROVE  LoggedInv'
  <2>1. \A e : Logged(e)' = Logged(e)
    BY <1>2 DEF Logged
  <2>2. ASSUME NEW p \in Requests PROVE Accounted(push[p])'
    <3>1. PICK q : q = push[p] /\ q = push'[p] /\ Accounted(q)
      BY <1>2 DEF LoggedInv
    <3>2. Accounted(q)'
      BY <1>2, <2>1, <3>1, AccountedStays
    <3> QED BY <3>1, <3>2 DEF Accounted
  <2> QED BY <1>2, <2>1, <2>2 DEF LoggedInv
<1>3. ASSUME NEW p \in Requests, UNCHANGED <<log, made>>,
             \A o \in Requests \ {p} : push'[o] = push[o], NEW r, r = push'[p], Accounted(r)',
             \A e \in acked' : e \in acked \/ Logged(e)
      PROVE  LoggedInv'
  <2>1. \A e \in Events : Logged(e) => Logged(e)'
    BY <1>3 DEF Logged
  <2> QED BY <1>1, <1>3, <2>1, LoggedPushStep
<1>4. ASSUME NEW p \in Requests, UNCHANGED <<log, made>>, push' = [push EXCEPT ![p] = Idle],
             \A e \in acked' : e \in acked \/ Logged(e)
      PROVE  LoggedInv'
  <2>1. PICK r : r = push'[p] /\ r.stage = "idle"
    BY <1>4, EndWrites, IdleIs
  <2>2. Accounted(r)'
    BY <2>1 DEF Accounted, Replays
  <2> QED BY <1>3, <1>4, <2>1, <2>2, EndWrites
<1>5. ASSUME NEW d \in Devices, NEW e \in Events, NEW c \in Cards, GradeOffline(d, e, c)
      PROVE  LoggedInv'
  <2>1. \A f \in Devices : \A i \in DOMAIN made[f] : made'[f][i] = made[f][i]
    BY <1>5, GradeOfflineWrites
  <2> QED BY <1>2, <1>5, <2>1 DEF GradeOffline
<1>6. ASSUME NEW d \in Devices, Pull(d) PROVE LoggedInv'
  BY <1>2, <1>6 DEF Pull
<1>7. ASSUME NEW p \in Requests, NEW d \in Devices, Send(p, d) PROVE LoggedInv'
  <2>1. PICK r : r = push'[p] /\ r.stage = "cards"
    BY <1>7, SendWrites
  <2>2. Accounted(r)'
    BY <2>1 DEF Accounted, Replays
  <2>3. \A o \in Requests \ {p} : push'[o] = push[o]
    BY <1>7, SendWrites
  <2> QED BY <1>3, <1>7, <2>1, <2>2, <2>3 DEF Send
<1>8. ASSUME NEW p \in Requests, ReadCards(p) PROVE LoggedInv'
  <2>1. PICK r : r = push'[p] /\ r.stage = "existing"
    BY <1>8, ReadCardsWrites
  <2>2. Accounted(r)'
    BY <2>1 DEF Accounted, Replays
  <2>3. \A o \in Requests \ {p} : push'[o] = push[o]
    BY <1>8, ReadCardsWrites
  <2> QED BY <1>3, <1>8, <2>1, <2>2, <2>3 DEF ReadCards
<1>9. ASSUME NEW p \in Requests, FinishPush(p) PROVE LoggedInv'
  <2>1. PICK q, r : q = push[p] /\ r = push'[p]
    OBVIOUS
  <2>2. /\ q.stage = "finish" /\ UNCHANGED <<log, made, acked>>
        /\ r.stage = "reply" /\ r.batch = q.batch /\ r.device = q.device
        /\ \A o \in Requests \ {p} : push'[o] = push[o]
    BY <1>9, <2>1, FinishPushWrites DEF FinishPush
  <2>3. \A i \in q.batch : Logged(made[q.device][i].id)
    BY <2>1, <2>2 DEF LoggedInv, Accounted
  <2>4. \A i \in r.batch : Logged(made[r.device][i].id)'
    BY <2>2, <2>3 DEF Logged
  <2>5. Accounted(r)'
    BY <2>2, <2>4 DEF Accounted, Replays
  <2> QED BY <1>3, <2>1, <2>2, <2>5
<1>10. ASSUME NEW p \in Requests, Reply(p) PROVE LoggedInv'
  <2>1. /\ push[p].stage = "reply" /\ UNCHANGED <<log, made>>
        /\ push' = [push EXCEPT ![p] = Idle]
        /\ acked' = acked \cup Ids(made[push[p].device], push[p].batch)
    BY <1>10 DEF Reply
  <2>2. \A e \in acked' : e \in acked \/ Logged(e)
    BY <2>1 DEF Ids, LoggedInv, Accounted
  <2> QED BY <1>4, <2>1, <2>2
<1>11. ASSUME NEW p \in Requests, Fail(p) PROVE LoggedInv'
  BY <1>4, <1>11 DEF Fail
<1>12. ASSUME NEW p \in Requests, InsertReview(p) PROVE LoggedInv'
  <2>1. CASE log[NextId(p)] = 0
    BY <1>1, <1>12, <2>1, LoggedInsertReview
  <2>2. CASE ~(log[NextId(p)] = 0)
    BY <1>4, <1>12, <2>2 DEF InsertReview, ClientIdIsNew, NextId, Next1
  <2> QED BY <2>1, <2>2
<1>13. CASE UNCHANGED vars
  BY <1>2, <1>13 DEF vars
<1> QED BY <1>1, <1>5, <1>6, <1>7, <1>8, <1>9, <1>10, <1>11, <1>12, <1>13,
           LoggedReadExisting, LoggedUpdateCard DEF Next, Step

\* DeviceSync: what the server reports as accepted or as already applied is in
\* its log, whatever overlaps and wherever pushes stop; with one push at a time,
\* no snapshots and no loss but of answers it is in the state of a card as well.
THEOREM AckedEventsAreApplied == Spec => []AckedIsApplied
<1>1. AckInv /\ LoggedInv => AckedIsApplied
  BY DEF AckInv, AckedIsApplied, AllAckedApplied, Lossy, IsApplied, Applied, Gradings, LoggedInv,
         Logged, AllAckedLogged
<1> QED BY <1>1, TypesStart, TypesStep, OnceStarts, OnceStep, OrderStarts, OrderStep, AckStarts,
           AckStep, LoggedStarts, LoggedStep, PTL DEF Spec

--------------------------------------------------------------------------------
(***************************************************************************)
(* What a device still has to send                                         *)
(***************************************************************************)
SentOnlyIfAcked ==
    \A d \in Devices : \A i \in DOMAIN made[d] :
        i \in outbox[d] \/ made[d][i].id \in acked

LEMMA OutboxStarts == Init => SentOnlyIfAcked
BY DEF Init, SentOnlyIfAcked

LEMMA OutboxStep == TypeOK /\ SentOnlyIfAcked /\ [Next]_vars => SentOnlyIfAcked'
<1> SUFFICES ASSUME TypeOK, SentOnlyIfAcked, [Next]_vars PROVE SentOnlyIfAcked'
  OBVIOUS
<1>1. ASSUME NEW d \in Devices, NEW e \in Events, NEW c \in Cards, GradeOffline(d, e, c)
      PROVE  SentOnlyIfAcked'
  <2>1. PICK n : n = Len(made[d]) + 1
    OBVIOUS
  <2>2. /\ DOMAIN made'[d] = DOMAIN made[d] \cup {n}
        /\ \A i \in DOMAIN made[d] : made'[d][i] = made[d][i]
        /\ \A f \in Devices \ {d} : made'[f] = made[f]
    BY <1>1, <2>1, GradeOfflineWrites
  <2>3. /\ outbox'[d] = outbox[d] \cup {n} /\ acked' = acked
        /\ \A f \in Devices \ {d} : outbox'[f] = outbox[f]
    BY <1>1, <2>1 DEF GradeOffline, TypeOK
  <2>4. ASSUME NEW f \in Devices, NEW i \in DOMAIN made'[f]
        PROVE  i \in outbox'[f] \/ made'[f][i].id \in acked'
    BY <2>2, <2>3 DEF SentOnlyIfAcked
  <2> QED BY <2>4 DEF SentOnlyIfAcked
<1>2. ASSUME NEW p \in Requests, Reply(p) PROVE SentOnlyIfAcked'
  <2>1. push[p].device \in Devices
    BY <1>2, PushTypes DEF Reply
  <2>2. PICK d, batch : d \in Devices /\ d = push[p].device /\ batch = push[p].batch
    BY <2>1
  <2>3. /\ outbox'[d] = outbox[d] \ batch /\ acked' = acked \cup Ids(made[d], batch)
        /\ made' = made /\ \A f \in Devices \ {d} : outbox'[f] = outbox[f]
    BY <1>2, <2>2 DEF Reply, TypeOK
  <2>4. \A i \in batch : made[d][i].id \in acked'
    BY <2>3 DEF Ids
  <2> QED BY <2>3, <2>4 DEF SentOnlyIfAcked
<1>3. ASSUME UNCHANGED <<made, outbox, acked>> PROVE SentOnlyIfAcked'
  BY <1>3 DEF SentOnlyIfAcked
<1> QED BY <1>1, <1>2, <1>3 DEF Next, Step, Pull, Send, ReadCards, ReadExisting, InsertReview,
           UpdateCard, FinishPush, Fail, vars

\* Each grading made offline is still to be sent or has exactly one row in the log.
NothingIsDropped ==
    \A d \in Devices : \A i \in DOMAIN made[d] :
        i \in outbox[d] \/ log[made[d][i].id] = 1

\* DeviceSync, from the device to the server's log: whatever fails, overlaps and
\* is repeated, a grading made offline is still in the outbox of its device or
\* has exactly one row in the log.
THEOREM GradingsReachTheLog == Spec => []NothingIsDropped
<1>1. TypeOK /\ AppliedAtMostOnce /\ LoggedInv /\ SentOnlyIfAcked => NothingIsDropped
  <2> SUFFICES ASSUME TypeOK, AppliedAtMostOnce, LoggedInv, SentOnlyIfAcked,
                      NEW d \in Devices, NEW i \in DOMAIN made[d], i \notin outbox[d]
               PROVE  log[made[d][i].id] = 1
    BY DEF NothingIsDropped
  <2>1. PICK e \in Events : e = made[d][i].id
    BY PositionsAre DEF TypeOK
  <2>2. log[e] # 0 /\ log[e] <= 1 /\ log[e] \in Nat
    BY <2>1 DEF SentOnlyIfAcked, LoggedInv, Logged, AppliedAtMostOnce, TypeOK
  <2> QED BY <2>1, <2>2
<1> QED BY <1>1, TypesStart, TypesStep, LoggedStarts, LoggedStep, OutboxStarts, OutboxStep,
           EventsCountOnce, PTL DEF Spec

================================================================================
