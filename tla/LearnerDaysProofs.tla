--------------------------- MODULE LearnerDaysProofs ---------------------------
(***************************************************************************)
(* Proofs about ExamSession, XpLedger and DailyQueue.                      *)
(*                                                                         *)
(* The first two add up the rows of a table with MapThenSumSet.  The first *)
(* part derives the laws of such sums; its inductions are on the smallest  *)
(* set for which a law would fail, which well-foundedness of the strict    *)
(* subset relation provides.  The third part is about the plan of a day,   *)
(* the last one about the three run together.                              *)
(***************************************************************************)
EXTENDS LearnerDays, FiniteSetTheorems, SequenceTheorems, WellFoundedInduction, TLAPS

--------------------------------------------------------------------------------
(***************************************************************************)
(* Sums                                                                    *)
(***************************************************************************)
SumOver(w, S) == MapThenSumSet(LAMBDA i : w[i], S)

Picked(s) == CHOOSE x \in s : TRUE

SumStep(w, g, s) == IF s = {} THEN 0 ELSE w[Picked(s)] + g[s \ {Picked(s)}]

Adds(w, S, g) == g = [s \in SUBSET S |-> SumStep(w, g, s)]

\* A family of subsets of a finite set has a smallest member.
LEMMA SmallestMember ==
    ASSUME NEW S, IsFiniteSet(S), NEW B \in SUBSET SUBSET S, B # {}
    PROVE  \E T \in B : \A U \in B : U \subseteq T => U = T
<1>1. IsWellFoundedOn(StrictSubsetOrdering(S), SUBSET S)
  BY FS_StrictSubsetOrderingWellFounded, FS_FiniteSubsetsOfFinite
<1>2. PICK T \in B : \A U \in B : <<U, T>> \notin StrictSubsetOrdering(S)
  <2> DEFINE R == StrictSubsetOrdering(S)
  <2>1. IsWellFoundedOn(R, SUBSET S)
    BY <1>1
  <2> HIDE DEF R
  <2>2. \E T \in B : \A U \in B : <<U, T>> \notin R
    BY <2>1, WFMin
  <2> QED BY <2>2 DEF R
<1> QED BY <1>2 DEF StrictSubsetOrdering

LEMMA PickedIsMember == \A s : s # {} => Picked(s) \in s
BY DEF Picked

LEMMA AddsValue ==
    ASSUME NEW w, NEW S, NEW g, Adds(w, S, g), NEW s \in SUBSET S
    PROVE  g[s] = SumStep(w, g, s)
BY DEF Adds

LEMMA AddsAgree ==
    ASSUME NEW w, NEW S, IsFiniteSet(S), NEW T, NEW g, NEW h, Adds(w, S, g), Adds(w, T, h)
    PROVE  \A s \in SUBSET (S \cap T) : g[s] = h[s]
<1> DEFINE B == {s \in SUBSET (S \cap T) : g[s] # h[s]}
<1>1. SUFFICES ASSUME B # {} PROVE FALSE
  OBVIOUS
<1>2. PICK s \in B : \A u \in B : u \subseteq s => u = s
  <2>1. B \in SUBSET SUBSET S
    OBVIOUS
  <2> HIDE DEF B
  <2> QED BY <1>1, <2>1, SmallestMember
<1>3. s # {}
  BY <1>2, AddsValue DEF SumStep
<1>4. Picked(s) \in s
  BY <1>3, PickedIsMember
<1>5. g[s \ {Picked(s)}] = h[s \ {Picked(s)}]
  BY <1>2, <1>4
<1>6. g[s] = SumStep(w, g, s) /\ h[s] = SumStep(w, h, s)
  BY AddsValue
<1> QED BY <1>2, <1>3, <1>5, <1>6 DEF SumStep

LEMMA AddsExists ==
    ASSUME NEW w, NEW S, IsFiniteSet(S)
    PROVE  \A T \in SUBSET S : \E g : Adds(w, T, g)
<1> DEFINE B == {T \in SUBSET S : ~\E g : Adds(w, T, g)}
<1>1. SUFFICES ASSUME B # {} PROVE FALSE
  OBVIOUS
<1>2. PICK T \in B : \A U \in B : U \subseteq T => U = T
  <2>1. B \in SUBSET SUBSET S
    OBVIOUS
  <2> HIDE DEF B
  <2> QED BY <1>1, <2>1, SmallestMember
<1> DEFINE h(s) == CHOOSE g : Adds(w, s, g)
           rest == T \ {Picked(T)}
           total == IF T = {} THEN 0 ELSE w[Picked(T)] + h(rest)[rest]
           g == [s \in SUBSET T |-> IF s = T THEN total ELSE h(s)[s]]
<1>3. \A s \in SUBSET T : s # T => Adds(w, s, h(s))
  BY <1>2
<1>4. T # {} => rest \in SUBSET T /\ rest # T
  BY PickedIsMember
<1>5. ASSUME NEW s \in SUBSET T PROVE g[s] = SumStep(w, g, s)
  <2>1. CASE s = T
    <3>1. T # {} => g[rest] = h(rest)[rest]
      BY <1>4
    <3> QED BY <2>1, <3>1 DEF SumStep
  <2>2. CASE s # T
    <3> DEFINE less == s \ {Picked(s)}
    <3>1. g[s] = SumStep(w, h(s), s)
      <4>1. Adds(w, s, h(s))
        BY <1>3, <2>2
      <4> HIDE DEF h
      <4>2. h(s)[s] = SumStep(w, h(s), s)
        BY <4>1, AddsValue
      <4> QED BY <2>2, <4>2
    <3>2. s # {} => h(s)[less] = h(less)[less]
      <4> SUFFICES ASSUME s # {} PROVE h(s)[less] = h(less)[less]
        OBVIOUS
      <4>1. less \in SUBSET T /\ less # T /\ less \subseteq s
        BY <2>2, PickedIsMember
      <4>2. Adds(w, s, h(s)) /\ Adds(w, less, h(less))
        BY <1>3, <2>2, <4>1
      <4>3. IsFiniteSet(s)
        BY FS_Subset
      <4> HIDE DEF h, less
      <4> QED BY <4>1, <4>2, <4>3, AddsAgree
    <3>3. s # {} => g[less] = h(less)[less]
      BY <2>2, PickedIsMember
    <3> HIDE DEF h, g
    <3> QED BY <3>1, <3>2, <3>3 DEF SumStep
  <2> QED BY <2>1, <2>2
<1>6. g = [s \in SUBSET T |-> SumStep(w, g, s)]
  <2>1. g = [s \in SUBSET T |-> g[s]]
    OBVIOUS
  <2> HIDE DEF g
  <2> QED BY <1>5, <2>1
<1> QED
  <2> HIDE DEF g
  <2>1. Adds(w, T, g)
    BY <1>6 DEF Adds
  <2> QED BY <1>2, <2>1

LEMMA SumIsAdded ==
    ASSUME NEW w, NEW S, IsFiniteSet(S)
    PROVE  \E g : Adds(w, S, g) /\ SumOver(w, S) = g[S]
<1> DEFINE g == CHOOSE h : Adds(w, S, h)
<1>1. Adds(w, S, g)
  BY AddsExists
<1>2. SumOver(w, S) = (CHOOSE h : h = [s \in SUBSET S |-> SumStep(w, h, s)])[S]
  BY DEF SumOver, MapThenSumSet, MapThenFoldSet, SumStep, Picked
<1>3. SumOver(w, S) = g[S]
  BY <1>2 DEF Adds
<1> QED BY <1>1, <1>3

LEMMA SumUnfolds ==
    ASSUME NEW w, NEW S, IsFiniteSet(S)
    PROVE  /\ S = {} => SumOver(w, S) = 0
           /\ S # {} => /\ Picked(S) \in S
                        /\ SumOver(w, S) = w[Picked(S)] + SumOver(w, S \ {Picked(S)})
<1>1. PICK g : Adds(w, S, g) /\ SumOver(w, S) = g[S]
  BY SumIsAdded
<1>2. SumOver(w, S) = SumStep(w, g, S)
  BY <1>1, AddsValue
<1>3. ASSUME S # {}
      PROVE  Picked(S) \in S /\ SumOver(w, S) = w[Picked(S)] + SumOver(w, S \ {Picked(S)})
  <2> DEFINE rest == S \ {Picked(S)}
  <2>1. Picked(S) \in S
    BY <1>3, PickedIsMember
  <2>2. IsFiniteSet(rest)
    BY FS_Subset
  <2> HIDE DEF rest
  <2>3. PICK h : Adds(w, rest, h) /\ SumOver(w, rest) = h[rest]
    BY <2>2, SumIsAdded
  <2>4. \A s \in SUBSET (S \cap rest) : g[s] = h[s]
    BY <1>1, <2>3, AddsAgree
  <2>5. g[rest] = h[rest]
    BY <2>4 DEF rest
  <2> QED BY <1>2, <1>3, <2>1, <2>3, <2>5 DEF SumStep, rest
<1> QED BY <1>2, <1>3 DEF SumStep

LEMMA SumIsNat ==
    ASSUME NEW w, NEW S, IsFiniteSet(S), \A i \in S : w[i] \in Nat
    PROVE  SumOver(w, S) \in Nat
<1> DEFINE B == {T \in SUBSET S : SumOver(w, T) \notin Nat}
<1>1. SUFFICES ASSUME B # {} PROVE FALSE
  OBVIOUS
<1>2. PICK T \in B : \A U \in B : U \subseteq T => U = T
  <2>1. B \in SUBSET SUBSET S
    OBVIOUS
  <2> HIDE DEF B
  <2> QED BY <1>1, <2>1, SmallestMember
<1>3. IsFiniteSet(T)
  BY FS_Subset
<1>4. T # {} /\ Picked(T) \in T /\ SumOver(w, T) = w[Picked(T)] + SumOver(w, T \ {Picked(T)})
  <2>1. SumOver(w, T) \notin Nat
    BY <1>2
  <2>2. T = {} => SumOver(w, T) = 0
    BY <1>3, SumUnfolds
  <2>3. T # {}
    BY <2>1, <2>2
  <2> QED BY <1>3, <2>3, SumUnfolds
<1>5. SumOver(w, T \ {Picked(T)}) \in Nat
  BY <1>2, <1>4
<1> QED BY <1>2, <1>4, <1>5

\* The order of summation does not matter.
LEMMA SumRemoves ==
    ASSUME NEW w, NEW S, IsFiniteSet(S), \A i \in S : w[i] \in Nat
    PROVE  \A x \in S : SumOver(w, S) = w[x] + SumOver(w, S \ {x})
<1> DEFINE B == {T \in SUBSET S : \E x \in T : SumOver(w, T) # w[x] + SumOver(w, T \ {x})}
<1>1. SUFFICES ASSUME B # {} PROVE FALSE
  OBVIOUS
<1>2. PICK T \in B : \A U \in B : U \subseteq T => U = T
  <2>1. B \in SUBSET SUBSET S
    OBVIOUS
  <2> HIDE DEF B
  <2> QED BY <1>1, <2>1, SmallestMember
<1>3. PICK x \in T : SumOver(w, T) # w[x] + SumOver(w, T \ {x})
  BY <1>2
<1> DEFINE y == Picked(T)
<1>4. \A U \in SUBSET T : IsFiniteSet(U) /\ SumOver(w, U) \in Nat
  BY FS_Subset, SumIsNat
<1>5. y \in T /\ SumOver(w, T) = w[y] + SumOver(w, T \ {y})
  BY <1>3, <1>4, SumUnfolds
<1>6. x # y
  BY <1>3, <1>5
<1>7. SumOver(w, T \ {y}) = w[x] + SumOver(w, (T \ {y}) \ {x})
  BY <1>2, <1>5, <1>6
<1>8. SumOver(w, T \ {x}) = w[y] + SumOver(w, (T \ {x}) \ {y})
  BY <1>2, <1>3, <1>5, <1>6
<1>9. (T \ {y}) \ {x} = (T \ {x}) \ {y}
  OBVIOUS
<1>10. w[x] \in Nat /\ w[y] \in Nat /\ SumOver(w, (T \ {x}) \ {y}) \in Nat
  <2>1. T \subseteq S /\ (T \ {x}) \ {y} \in SUBSET T
    BY <1>2
  <2> HIDE DEF y
  <2> QED BY <1>4, <1>5, <2>1
<1> DEFINE a == w[x]
           b == w[y]
           c == SumOver(w, (T \ {x}) \ {y})
<1>11. SumOver(w, T) = b + (a + c) /\ SumOver(w, T \ {x}) = b + c
  BY <1>5, <1>7, <1>8, <1>9
<1>12. SumOver(w, T) # a + (b + c)
  BY <1>3, <1>11
<1>13. a \in Nat /\ b \in Nat /\ c \in Nat
  BY <1>10
<1> HIDE DEF a, b, c
<1> QED BY <1>11, <1>12, <1>13

LEMMA SumOfSubset ==
    ASSUME NEW w, NEW S, IsFiniteSet(S), \A i \in S : w[i] \in Nat, NEW T \in SUBSET S
    PROVE  SumOver(w, T) <= SumOver(w, S)
<1> DEFINE B == {U \in SUBSET S : T \subseteq U /\ ~(SumOver(w, T) <= SumOver(w, U))}
<1>1. SUFFICES ASSUME B # {} PROVE FALSE
  OBVIOUS
<1>2. PICK U \in B : \A V \in B : V \subseteq U => V = U
  <2>1. B \in SUBSET SUBSET S
    OBVIOUS
  <2> HIDE DEF B
  <2> QED BY <1>1, <2>1, SmallestMember
<1>3. \A V \in SUBSET S : IsFiniteSet(V) /\ SumOver(w, V) \in Nat
  BY FS_Subset, SumIsNat
<1>4. T # U
  BY <1>2, <1>3
<1>5. PICK x \in U : x \notin T
  BY <1>2, <1>4
<1>6. SumOver(w, U) = w[x] + SumOver(w, U \ {x})
  BY <1>2, <1>3, SumRemoves
<1>7. SumOver(w, T) <= SumOver(w, U \ {x})
  BY <1>2, <1>5
<1>8. w[x] \in Nat /\ SumOver(w, U \ {x}) \in Nat /\ SumOver(w, T) \in Nat
  BY <1>2, <1>3
<1> QED BY <1>2, <1>6, <1>7, <1>8

LEMMA SumOfEquals ==
    ASSUME NEW v, NEW w, NEW S, IsFiniteSet(S), \A i \in S : v[i] = w[i]
    PROVE  SumOver(v, S) = SumOver(w, S)
<1> DEFINE B == {T \in SUBSET S : SumOver(v, T) # SumOver(w, T)}
<1>1. SUFFICES ASSUME B # {} PROVE FALSE
  OBVIOUS
<1>2. PICK T \in B : \A U \in B : U \subseteq T => U = T
  <2>1. B \in SUBSET SUBSET S
    OBVIOUS
  <2> HIDE DEF B
  <2> QED BY <1>1, <2>1, SmallestMember
<1>3. IsFiniteSet(T)
  BY FS_Subset
<1>4. /\ T # {}
      /\ Picked(T) \in T
      /\ SumOver(v, T) = v[Picked(T)] + SumOver(v, T \ {Picked(T)})
      /\ SumOver(w, T) = w[Picked(T)] + SumOver(w, T \ {Picked(T)})
  BY <1>2, <1>3, SumUnfolds
<1>5. SumOver(v, T \ {Picked(T)}) = SumOver(w, T \ {Picked(T)})
  BY <1>2, <1>4
<1> QED BY <1>2, <1>4, <1>5
--------------------------------------------------------------------------------
(***************************************************************************)
(* The ledger                                                              *)
(***************************************************************************)
Counted(rows, u, day) ==
    {i \in DOMAIN rows : rows[i].user = u /\ rows[i].day = day /\ ~rows[i].revoked}

PointsOf(rows) == [i \in DOMAIN rows |-> rows[i].points]

DaySum(rows, u, day) == SumOver(PointsOf(rows), Counted(rows, u, day))

\* Adding the points of rows is adding a function of their positions.
LEMMA RowsAreSummed ==
    ASSUME NEW rows, NEW S, IsFiniteSet(S), S \subseteq DOMAIN rows
    PROVE  MapThenSumSet(LAMBDA i : rows[i].points, S) = SumOver(PointsOf(rows), S)
<1> DEFINE w == PointsOf(rows)
           RowStep(g, s) == IF s = {} THEN 0
                            ELSE rows[Picked(s)].points + g[s \ {Picked(s)}]
<1>1. MapThenSumSet(LAMBDA i : rows[i].points, S)
          = (CHOOSE g : g = [s \in SUBSET S |-> RowStep(g, s)])[S]
  BY DEF MapThenSumSet, MapThenFoldSet, Picked
<1>2. SumOver(w, S) = (CHOOSE g : g = [s \in SUBSET S |-> SumStep(w, g, s)])[S]
  BY DEF SumOver, MapThenSumSet, MapThenFoldSet, SumStep, Picked
<1>3. ASSUME NEW g PROVE [s \in SUBSET S |-> RowStep(g, s)] = [s \in SUBSET S |-> SumStep(w, g, s)]
  <2>1. ASSUME NEW s \in SUBSET S, s # {} PROVE w[Picked(s)] = rows[Picked(s)].points
    BY <2>1, PickedIsMember DEF PointsOf
  <2> HIDE DEF w
  <2> QED BY <2>1 DEF SumStep
<1>4. PICK f : Adds(w, S, f) /\ SumOver(w, S) = f[S]
  BY SumIsAdded
<1> DEFINE h == CHOOSE g : g = [s \in SUBSET S |-> RowStep(g, s)]
<1>5. Adds(w, S, h)
  <2>1. f = [s \in SUBSET S |-> RowStep(f, s)]
    BY <1>3, <1>4 DEF Adds
  <2>2. h = [s \in SUBSET S |-> RowStep(h, s)]
    <3> HIDE DEF RowStep
    <3> QED BY <2>1
  <2> HIDE DEF h
  <2>3. h = [s \in SUBSET S |-> SumStep(w, h, s)]
    BY <1>3, <2>2
  <2> QED BY <2>3 DEF Adds
<1>6. h[S] = f[S]
  <2> HIDE DEF h
  <2> QED BY <1>4, <1>5, AddsAgree
<1> QED BY <1>1, <1>4, <1>6

LEMMA CountedIsFinite ==
    ASSUME NEW rows \in Seq(XpEvent), NEW u, NEW day
    PROVE  /\ IsFiniteSet(Counted(rows, u, day))
           /\ Counted(rows, u, day) \subseteq DOMAIN rows
           /\ \A i \in DOMAIN rows : PointsOf(rows)[i] \in Nat
<1>1. DOMAIN rows = 1..Len(rows) /\ Len(rows) \in Nat
  OBVIOUS
<1>2. IsFiniteSet(DOMAIN rows)
  BY <1>1, FS_Interval
<1>3. Counted(rows, u, day) \in SUBSET DOMAIN rows
  BY DEF Counted
<1>4. ASSUME NEW i \in DOMAIN rows PROVE rows[i].points \in Nat
  <2>1. rows[i] \in XpEvent
    BY <1>1
  <2> QED BY <2>1 DEF XpEvent
<1> QED BY <1>2, <1>3, <1>4, FS_Subset DEF PointsOf

LEMMA DaySumIsNat ==
    ASSUME NEW rows \in Seq(XpEvent), NEW u, NEW day
    PROVE  DaySum(rows, u, day) \in Nat
BY CountedIsFinite, SumIsNat DEF DaySum

LEMMA AwardedOnIsDaySum ==
    /\ events \in Seq(XpEvent) =>
          \A u, day : AwardedOn(u, day) = DaySum(events, u, day)
    /\ events' \in Seq(XpEvent) =>
          \A u, day : AwardedOn(u, day)' = DaySum(events', u, day)
<1>1. ASSUME NEW rows \in Seq(XpEvent), NEW u, NEW day
      PROVE  MapThenSumSet(LAMBDA i : rows[i].points, Counted(rows, u, day)) = DaySum(rows, u, day)
  BY CountedIsFinite, RowsAreSummed DEF DaySum
<1>2. ASSUME events \in Seq(XpEvent), NEW u, NEW day
      PROVE  AwardedOn(u, day) = DaySum(events, u, day)
  <2>1. AwardedOn(u, day) = MapThenSumSet(LAMBDA i : events[i].points, Counted(events, u, day))
    BY DEF AwardedOn, Counted
  <2> QED BY <1>1, <1>2, <2>1
<1>3. ASSUME events' \in Seq(XpEvent), NEW u, NEW day
      PROVE  AwardedOn(u, day)' = DaySum(events', u, day)
  <2>1. AwardedOn(u, day)'
            = MapThenSumSet(LAMBDA i : events'[i].points, Counted(events', u, day))
    BY DEF AwardedOn, Counted, MapThenSumSet, MapThenFoldSet
  <2> QED BY <1>1, <1>3, <2>1
<1> QED BY <1>2, <1>3

LEMMA AwardedTodayIsDaySum ==
    /\ events \in Seq(XpEvent) =>
          \A u : AwardedOn(u, today) = DaySum(events, u, today)
    /\ events' \in Seq(XpEvent) =>
          \A u : AwardedOn(u, today)' = DaySum(events', u, today')
<1>1. events \in Seq(XpEvent) => \A u : AwardedOn(u, today) = DaySum(events, u, today)
  BY AwardedOnIsDaySum
<1>2. ASSUME events' \in Seq(XpEvent), NEW u
      PROVE  AwardedOn(u, today)' = DaySum(events', u, today')
  <2>1. AwardedOn(u, today)'
            = MapThenSumSet(LAMBDA i : events'[i].points, Counted(events', u, today'))
    BY DEF AwardedOn, Counted, MapThenSumSet, MapThenFoldSet
  <2>2. MapThenSumSet(LAMBDA i : events'[i].points, Counted(events', u, today'))
            = DaySum(events', u, today')
    BY <1>2, CountedIsFinite, RowsAreSummed DEF DaySum
  <2> QED BY <2>1, <2>2
<1> QED BY <1>1, <1>2

LEMMA AppendedSum ==
    ASSUME NEW rows \in Seq(XpEvent), NEW row \in XpEvent, ~row.revoked, NEW u, NEW day
    PROVE  DaySum(Append(rows, row), u, day)
               = IF row.user = u /\ row.day = day
                 THEN DaySum(rows, u, day) + row.points
                 ELSE DaySum(rows, u, day)
<1> DEFINE more == Append(rows, row)
           new == Len(rows) + 1
           old == Counted(rows, u, day)
<1>1. /\ more \in Seq(XpEvent)
      /\ DOMAIN rows = 1..Len(rows)
      /\ DOMAIN more = 1..new
      /\ more[new] = row
      /\ \A i \in DOMAIN rows : more[i] = rows[i]
      /\ new \notin DOMAIN rows
      /\ DOMAIN more = DOMAIN rows \cup {new}
  OBVIOUS
<1> HIDE DEF more, new
<1>2. Counted(more, u, day) = IF row.user = u /\ row.day = day THEN old \cup {new} ELSE old
  BY <1>1 DEF Counted
<1>3. IsFiniteSet(old) /\ old \subseteq DOMAIN rows
  BY CountedIsFinite
<1>4. SumOver(PointsOf(more), old) = SumOver(PointsOf(rows), old)
  <2>1. \A i \in old : PointsOf(more)[i] = PointsOf(rows)[i]
    BY <1>1, <1>3 DEF PointsOf
  <2> HIDE DEF old
  <2> QED BY <1>3, <2>1, SumOfEquals
<1>5. CASE row.user = u /\ row.day = day
  <2>1. Counted(more, u, day) = old \cup {new} /\ new \notin old
    BY <1>1, <1>2, <1>3, <1>5
  <2>2. PointsOf(more)[new] = row.points
    BY <1>1 DEF PointsOf
  <2>3. /\ IsFiniteSet(Counted(more, u, day))
        /\ \A i \in Counted(more, u, day) : PointsOf(more)[i] \in Nat
    BY <1>1, CountedIsFinite
  <2>4. SumOver(PointsOf(more), Counted(more, u, day))
            = PointsOf(more)[new] + SumOver(PointsOf(more), Counted(more, u, day) \ {new})
    BY <2>1, <2>3, SumRemoves
  <2>5. Counted(more, u, day) \ {new} = old
    BY <2>1
  <2>6. row.points \in Nat /\ SumOver(PointsOf(rows), old) \in Nat
    BY DaySumIsNat DEF XpEvent, DaySum
  <2> HIDE DEF old
  <2>7. DaySum(more, u, day) = row.points + SumOver(PointsOf(rows), old)
    BY <1>4, <2>2, <2>4, <2>5 DEF DaySum
  <2>8. DaySum(rows, u, day) = SumOver(PointsOf(rows), old)
    BY DEF DaySum, old
  <2> QED BY <1>5, <2>6, <2>7, <2>8 DEF more
<1>6. CASE ~(row.user = u /\ row.day = day)
  BY <1>2, <1>4, <1>6 DEF DaySum, more
<1> QED BY <1>5, <1>6

\* Revoking takes rows out of the sums and changes no points.
LEMMA RevokedSum ==
    ASSUME NEW rows \in Seq(XpEvent), NEW less \in Seq(XpEvent), Len(less) = Len(rows),
           \A i \in 1..Len(rows) : \/ less[i] = rows[i]
                                  \/ less[i] = [rows[i] EXCEPT !.revoked = TRUE],
           NEW u, NEW day
    PROVE  DaySum(less, u, day) <= DaySum(rows, u, day)
<1>1. DOMAIN rows = 1..Len(rows) /\ DOMAIN less = DOMAIN rows
  OBVIOUS
<1>2. ASSUME NEW i \in DOMAIN rows
      PROVE  /\ less[i].points = rows[i].points
             /\ less[i].user = rows[i].user
             /\ less[i].day = rows[i].day
             /\ less[i].revoked = rows[i].revoked \/ less[i].revoked
  <2>1. rows[i] \in XpEvent
    BY <1>1
  <2> QED BY <1>1, <2>1 DEF XpEvent
<1>3. Counted(less, u, day) \subseteq Counted(rows, u, day)
  BY <1>1, <1>2 DEF Counted
<1>4. SumOver(PointsOf(less), Counted(less, u, day)) = SumOver(PointsOf(rows), Counted(less, u, day))
  <2>1. \A i \in Counted(less, u, day) : PointsOf(less)[i] = PointsOf(rows)[i]
    BY <1>1, <1>2 DEF PointsOf, Counted
  <2>2. IsFiniteSet(Counted(less, u, day))
    BY CountedIsFinite
  <2> QED BY <2>1, <2>2, SumOfEquals
<1>5. SumOver(PointsOf(rows), Counted(less, u, day)) <= SumOver(PointsOf(rows), Counted(rows, u, day))
  <2>1. /\ IsFiniteSet(Counted(rows, u, day))
        /\ \A i \in Counted(rows, u, day) : PointsOf(rows)[i] \in Nat
    BY CountedIsFinite
  <2> QED BY <1>3, <2>1, SumOfSubset
<1> QED BY <1>4, <1>5 DEF DaySum

\* No row is of that day.
LEMMA NothingSummed ==
    ASSUME NEW rows \in Seq(XpEvent), NEW u, NEW day, \A i \in DOMAIN rows : rows[i].day # day
    PROVE  DaySum(rows, u, day) = 0
<1>1. Counted(rows, u, day) = {}
  BY DEF Counted
<1> QED BY <1>1, FS_EmptySet, SumUnfolds DEF DaySum
AwardRecord == [stage : AwardStages, user : Users, key : Keys, raw : Nat,
                day : Days \cup {Now}, points : Nat, outcome : AwardOutcomes]

LEMMA LedgerTypeInit == LedgerInit => LedgerTypeOK
<1> SUFFICES ASSUME LedgerInit PROVE LedgerTypeOK
  OBVIOUS
<1>1. NoAward \in AwardRecord
  BY LedgerAssumption DEF NoAward, AwardRecord, AwardStages, AwardOutcomes, Days, Now
<1>2. events \in Seq(XpEvent)
  BY DEF LedgerInit
<1>3. today \in Days
  BY LedgerAssumption DEF LedgerInit, Days
<1> QED BY <1>1, <1>2, <1>3 DEF LedgerInit, LedgerTypeOK, AwardRecord

LEMMA EndKeepsType ==
    ASSUME LedgerTypeOK, NEW p \in AwardSlots, NEW outcome \in AwardOutcomes, End(p, outcome)
    PROVE  awards' \in [AwardSlots -> AwardRecord]
BY DEF LedgerTypeOK, End, AwardRecord, AwardStages

\* What an inserted award is in the ledger.
InsertedRow(p) ==
    [user |-> awards[p].user, key |-> awards[p].key, points |-> awards[p].points,
     revoked |-> FALSE, day |-> OccurredAt(awards[p].day)]

LEMMA InsertedRowType ==
    ASSUME LedgerTypeOK, NEW p \in AwardSlots
    PROVE  InsertedRow(p) \in XpEvent
<1>1. awards[p] \in AwardRecord
  BY DEF LedgerTypeOK, AwardRecord
<1>2. OccurredAt(awards[p].day) \in Days
  BY <1>1 DEF LedgerTypeOK, OccurredAt, AwardRecord
<1> QED BY <1>1, <1>2 DEF InsertedRow, XpEvent, AwardRecord

\* Revoking keeps the rows, their learners and their keys.
LEMMA RevokedRows ==
    ASSUME LedgerTypeOK, NEW users, NEW k, RevokeByDedupeKey(users, k)
    PROVE  /\ events' \in Seq(XpEvent)
           /\ Len(events') = Len(events)
           /\ \A i \in 1..Len(events) :
                 /\ events'[i] = events[i] \/ events'[i] = [events[i] EXCEPT !.revoked = TRUE]
                 /\ events'[i].user = events[i].user
                 /\ events'[i].key = events[i].key
                 /\ events'[i].day = events[i].day
<1>1. events \in Seq(XpEvent) /\ DOMAIN events = 1..Len(events) /\ Len(events) \in Nat
  BY DEF LedgerTypeOK
<1>2. events' = [i \in 1..Len(events) |->
                    IF events[i].key = k /\ events[i].user \in users
                    THEN [events[i] EXCEPT !.revoked = TRUE]
                    ELSE events[i]]
  BY <1>1 DEF RevokeByDedupeKey
<1>3. ASSUME NEW i \in 1..Len(events)
      PROVE  /\ events'[i] \in XpEvent
             /\ events'[i] = events[i] \/ events'[i] = [events[i] EXCEPT !.revoked = TRUE]
             /\ events'[i].user = events[i].user
             /\ events'[i].key = events[i].key
             /\ events'[i].day = events[i].day
  <2>1. events[i] \in XpEvent
    BY <1>1
  <2> QED BY <1>2, <2>1 DEF XpEvent
<1>4. events' \in [1..Len(events) -> XpEvent]
  BY <1>2, <1>3
<1>5. events' \in Seq(XpEvent) /\ Len(events') = Len(events)
  BY <1>1, <1>4
<1> QED BY <1>3, <1>5

LEMMA LedgerTypeStep ==
    ASSUME LedgerTypeOK, [LedgerNext]_ledgerVars
    PROVE  LedgerTypeOK'
<1>1. ASSUME NEW p \in AwardSlots, NEW u \in Users, NEW k \in Keys, NEW raw \in RawPoints,
             NEW day \in Days \cup {Now}, Report(p, u, k, raw, day)
      PROVE  LedgerTypeOK'
  BY <1>1, LedgerAssumption DEF Report, LedgerTypeOK, AwardStages, AwardOutcomes
<1>2. ASSUME NEW p \in AwardSlots, FindExisting(p) PROVE LedgerTypeOK'
  <2>1. awards' \in [AwardSlots -> AwardRecord]
    <3>1. "duplicate" \in AwardOutcomes
      BY DEF AwardOutcomes
    <3>2. CASE IsDuplicate(awards[p].user, awards[p].key)
      BY <1>2, <3>1, <3>2, EndKeepsType DEF FindExisting
    <3>3. CASE ~IsDuplicate(awards[p].user, awards[p].key)
      <4>1. awards[p] \in AwardRecord /\ "sum" \in AwardStages
        BY DEF LedgerTypeOK, AwardRecord, AwardStages
      <4>2. [awards[p] EXCEPT !.stage = "sum"] \in AwardRecord
        BY <4>1 DEF AwardRecord
      <4>3. awards' = [awards EXCEPT ![p] = [awards[p] EXCEPT !.stage = "sum"]]
        BY <1>2, <3>3 DEF FindExisting
      <4> QED BY <4>2, <4>3 DEF LedgerTypeOK, AwardRecord
    <3> QED BY <3>2, <3>3
  <2> QED BY <1>2, <2>1 DEF FindExisting, LedgerTypeOK, AwardRecord
<1>3. ASSUME NEW p \in AwardSlots, Score(p) PROVE LedgerTypeOK'
  <2> DEFINE total == AwardedOn(awards[p].user, today)
             points == Finalise(awards[p].raw, total)
  <2>1. total \in Nat
    BY AwardedOnIsDaySum, DaySumIsNat DEF LedgerTypeOK
  <2>2. awards[p].raw \in Nat
    BY DEF LedgerTypeOK
  <2> HIDE DEF total
  <2>3. points \in Int
    BY <2>1, <2>2, LedgerAssumption DEF Finalise
  <2>4. awards' \in [AwardSlots -> AwardRecord]
    <3>1. "skipped" \in AwardOutcomes
      BY DEF AwardOutcomes
    <3> HIDE DEF points
    <3>2. CASE points <= 0
      BY <1>3, <3>1, <3>2, EndKeepsType DEF Score, points, total
    <3>3. CASE ~(points <= 0)
      <4>1. awards' = [awards EXCEPT ![p].stage = "insert", ![p].points = points]
        BY <1>3, <3>3 DEF Score, points, total
      <4>2. points \in Nat
        BY <2>3, <3>3
      <4> QED BY <4>1, <4>2 DEF LedgerTypeOK, AwardRecord, AwardStages
    <3> QED BY <3>2, <3>3
  <2> QED BY <1>3, <2>4 DEF Score, LedgerTypeOK, AwardRecord
<1>4. ASSUME NEW p \in AwardSlots, Insert(p) PROVE LedgerTypeOK'
  <2>1. awards' \in [AwardSlots -> AwardRecord]
    BY <1>4, EndKeepsType DEF Insert, AwardOutcomes
  <2>2. events' \in Seq(XpEvent)
    <3>1. events' = Append(events, InsertedRow(p)) \/ events' = events
      BY <1>4 DEF Insert, InsertedRow
    <3> QED BY <3>1, InsertedRowType DEF LedgerTypeOK
  <2> QED BY <1>4, <2>1, <2>2 DEF Insert, LedgerTypeOK, AwardRecord
<1>5. ASSUME NEW p \in AwardSlots, Fail(p) PROVE LedgerTypeOK'
  <2>1. awards' \in [AwardSlots -> AwardRecord]
    BY <1>5, EndKeepsType DEF Fail, AwardOutcomes
  <2> QED BY <1>5, <2>1 DEF Fail, LedgerTypeOK, AwardRecord
<1>6. ASSUME NEW users, NEW k, RevokeByDedupeKey(users, k) PROVE LedgerTypeOK'
  BY <1>6, RevokedRows DEF RevokeByDedupeKey, LedgerTypeOK
<1>7. ASSUME NextDay PROVE LedgerTypeOK'
  BY <1>7, LedgerAssumption DEF NextDay, LedgerTypeOK, Days
<1>8. ASSUME UNCHANGED ledgerVars PROVE LedgerTypeOK'
  BY <1>8 DEF ledgerVars, LedgerTypeOK
<1> QED BY <1>1, <1>2, <1>3, <1>4, <1>5, <1>6, <1>7, <1>8 DEF LedgerNext, Award
\* XpLedger: the rows and the locals of the awards keep their types, on any
\* number of learners, keys, slots and days.
THEOREM LedgerIsTyped == LedgerSpec => []LedgerTypeOK
<1>1. LedgerInit => LedgerTypeOK
  BY LedgerTypeInit
<1>2. LedgerTypeOK /\ [LedgerNext]_ledgerVars => LedgerTypeOK'
  BY LedgerTypeStep
<1> QED BY <1>1, <1>2, PTL DEF LedgerSpec

\* What was paid stays in the ledger.
LEMMA AppendedRowIsLast ==
    ASSUME LedgerTypeOK, NEW row, events' = Append(events, row)
    PROVE  /\ DOMAIN events = 1..Len(events)
           /\ DOMAIN events' = 1..(Len(events) + 1)
           /\ Len(events) \in Nat
           /\ \A i \in DOMAIN events : events'[i] = events[i]
           /\ events'[Len(events) + 1] = row
BY DEF LedgerTypeOK

LEMMA PaidStep ==
    ASSUME LedgerTypeOK, [LedgerNext]_ledgerVars, NEW u, NEW k, Paid(u, k)
    PROVE  Paid(u, k)'
<1>1. ASSUME NEW p \in AwardSlots, Insert(p) PROVE Paid(u, k)'
  <2>1. events' = Append(events, InsertedRow(p)) \/ events' = events
    BY <1>1 DEF Insert, InsertedRow
  <2>2. CASE events' = Append(events, InsertedRow(p))
    BY <2>2, AppendedRowIsLast DEF Paid
  <2> QED BY <2>1, <2>2 DEF Paid
<1>2. ASSUME NEW users, NEW key, RevokeByDedupeKey(users, key) PROVE Paid(u, k)'
  <2>1. DOMAIN events = 1..Len(events)
    BY DEF LedgerTypeOK
  <2>2. DOMAIN events' = 1..Len(events)
    BY <1>2, RevokedRows
  <2> QED BY <1>2, <2>1, <2>2, RevokedRows DEF Paid
<1>3. CASE UNCHANGED events
  BY <1>3 DEF Paid
<1> QED BY <1>1, <1>2, <1>3 DEF LedgerNext, Award, Report, FindExisting, Score, Fail, NextDay,
         ledgerVars

LEMMA PaidOnceStep ==
    ASSUME LedgerTypeOK, PaidOnce, [LedgerNext]_ledgerVars
    PROVE  PaidOnce'
<1> DEFINE OncePerKey == \A i, j \in DOMAIN events :
                             (/\ events[i].key \notin Keyless
                              /\ events[i].user = events[j].user
                              /\ events[i].key = events[j].key)
                             => i = j
           RefusedIsPaid == \A p \in AwardSlots :
                               awards[p].outcome = "duplicate"
                                   => Paid(awards[p].user, awards[p].key)
<1>1. OncePerKey'
  <2>1. ASSUME NEW p \in AwardSlots, Insert(p) PROVE OncePerKey'
    <3>1. CASE events' = events
      BY <3>1 DEF PaidOnce
    <3>2. CASE events' # events
      <4>1. events' = Append(events, InsertedRow(p)) /\ KeyIsFree(awards[p].user, awards[p].key)
        BY <2>1, <3>2 DEF Insert, InsertedRow
      <4>2. /\ DOMAIN events' = DOMAIN events \cup {Len(events) + 1}
            /\ \A i \in DOMAIN events : events'[i] = events[i]
            /\ events'[Len(events) + 1].user = awards[p].user
            /\ events'[Len(events) + 1].key = awards[p].key
        BY <4>1, AppendedRowIsLast DEF InsertedRow
      <4> QED BY <4>1, <4>2 DEF PaidOnce, KeyIsFree, Paid
    <3> QED BY <3>1, <3>2
  <2>2. ASSUME NEW users, NEW k, RevokeByDedupeKey(users, k) PROVE OncePerKey'
    <3>1. DOMAIN events = 1..Len(events)
      BY DEF LedgerTypeOK
    <3>2. DOMAIN events' = 1..Len(events)
      BY <2>2, RevokedRows
    <3> QED BY <2>2, <3>1, <3>2, RevokedRows DEF PaidOnce
  <2>3. CASE UNCHANGED events
    BY <2>3 DEF PaidOnce
  <2> QED BY <2>1, <2>2, <2>3 DEF LedgerNext, Award, Report, FindExisting, Score, Fail, NextDay,
           ledgerVars
<1>2. RefusedIsPaid'
  <2> SUFFICES ASSUME NEW q \in AwardSlots, NEW u, NEW k,
                      u = awards'[q].user, k = awards'[q].key,
                      awards'[q].outcome = "duplicate"
               PROVE  Paid(u, k)'
    BY DEF Paid
  <2>1. Paid(u, k) => Paid(u, k)'
    BY PaidStep
  <2>2. awards \in [AwardSlots -> AwardRecord]
    BY DEF LedgerTypeOK, AwardRecord
  <2>3. ASSUME NEW p \in AwardSlots, Award(p)
        PROVE  Paid(u, k)
    <3>1. ASSUME NEW v \in Users, NEW l \in Keys, NEW raw \in RawPoints,
                 NEW day \in Days \cup {Now}, Report(p, v, l, raw, day)
          PROVE  Paid(u, k)
      BY <2>2, <3>1 DEF Report, PaidOnce, AwardRecord
    <3>2. CASE FindExisting(p)
      BY <2>2, <3>2 DEF FindExisting, End, IsDuplicate, PaidOnce, AwardRecord
    <3>3. CASE Score(p)
      BY <2>2, <3>3 DEF Score, End, PaidOnce, AwardRecord
    <3>4. CASE Insert(p)
      <4>1. awards[p] \in AwardRecord /\ awards[q] \in AwardRecord
        BY <2>2
      <4>2. CASE End(p, "awarded")
        BY <2>2, <4>1, <4>2 DEF End, PaidOnce, AwardRecord
      <4>3. CASE End(p, "duplicate") /\ ~KeyIsFree(awards[p].user, awards[p].key)
        BY <2>2, <4>1, <4>3 DEF End, KeyIsFree, PaidOnce, AwardRecord
      <4> QED BY <3>4, <4>2, <4>3 DEF Insert
    <3>5. CASE Fail(p)
      BY <2>2, <3>5 DEF Fail, End, PaidOnce, AwardRecord
    <3> QED BY <2>3, <3>1, <3>2, <3>3, <3>4, <3>5 DEF Award
  <2>4. CASE UNCHANGED awards
    BY <2>1, <2>4 DEF PaidOnce
  <2>5. CASE \E p \in AwardSlots : Award(p)
    BY <2>1, <2>3, <2>5
  <2> QED BY <2>4, <2>5 DEF LedgerNext, RevokeByDedupeKey, NextDay, ledgerVars
<1> QED BY <1>1, <1>2 DEF PaidOnce

\* XpLedger: whatever the interleaving of the lookup and the insert of any
\* number of awards, a dedupe key is paid once per learner, revoked or not,
\* and an award is refused as a duplicate only when its key was paid.
THEOREM KeysArePaidOnce == LedgerSpec => []PaidOnce
<1>1. LedgerInit => PaidOnce
  BY DEF LedgerInit, PaidOnce, NoAward
<1>2. LedgerTypeOK /\ PaidOnce /\ [LedgerNext]_ledgerVars => PaidOnce'
  BY PaidOnceStep
<1> QED BY <1>1, <1>2, LedgerIsTyped, PTL DEF LedgerSpec
--------------------------------------------------------------------------------
(***************************************************************************)
(* The daily cap                                                           *)
(*                                                                         *)
(* An award is scored against a sum to which the other pending awards are  *)
(* still to be added.  Room says how far the sum may be over the cap: by   *)
(* one award for each slot that is neither pending nor the last to have    *)
(* been scored; with the points of the one scored last, by one award for   *)
(* each slot that is not pending.                                          *)
(***************************************************************************)
Biggest == Max(RawPoints)

Slots == Cardinality(AwardSlots)

Room(total, pending, points) ==
    LET n == Cardinality(pending)
    IN  \/ total <= DailyCap + (Slots - 1 - n) * Biggest
        \/ \E p \in pending : total + points[p] <= DailyCap + (Slots - n) * Biggest

LEMMA BiggestBounds ==
    /\ Biggest \in Nat
    /\ \A raw \in RawPoints : raw <= Biggest
<1>1. PICK m \in RawPoints : \A raw \in RawPoints : m >= raw
  BY LedgerAssumption
<1>2. Biggest \in RawPoints /\ \A raw \in RawPoints : Biggest >= raw
  BY <1>1 DEF Biggest, Max
<1> QED BY <1>2, LedgerAssumption

LEMMA PendingCount ==
    ASSUME NEW A \in SUBSET AwardSlots
    PROVE  /\ IsFiniteSet(A)
           /\ Slots \in Nat
           /\ Slots >= 1
           /\ Cardinality(A) \in 0..Slots
           /\ Cardinality(A) = 0 => A = {}
<1>1. IsFiniteSet(AwardSlots) /\ AwardSlots # {}
  BY LedgerAssumption
<1>2. IsFiniteSet(A) /\ Cardinality(A) <= Cardinality(AwardSlots)
  BY <1>1, FS_Subset
<1>3. Cardinality(A) \in Nat /\ Cardinality(AwardSlots) \in Nat
  BY <1>1, <1>2, FS_CardinalityType
<1>4. Cardinality(AwardSlots) # 0
  BY <1>1, FS_EmptySet
<1> QED BY <1>2, <1>3, <1>4, FS_EmptySet DEF Slots

LEMMA Multiples ==
    ASSUME NEW B \in Nat
    PROVE  /\ \A m \in Int : m * B \in Int /\ (m + 1) * B = m * B + B
           /\ \A m, n \in Int : m <= n => m * B <= n * B
<1>1. ASSUME NEW m \in Int PROVE m * B \in Int /\ (m + 1) * B = m * B + B
  OBVIOUS
<1>2. ASSUME NEW m \in Int, NEW n \in Int, m <= n PROVE m * B <= n * B
  BY <1>2
<1> QED BY <1>1, <1>2

LEMMA RoomBounds ==
    ASSUME NEW total \in Nat, NEW A \in SUBSET AwardSlots, NEW points \in [AwardSlots -> Nat],
           Room(total, A, points)
    PROVE  total <= DailyCap + (Slots - 1) * Biggest
<1> DEFINE n == Cardinality(A)
           B == Biggest
<1>1. n \in 0..Slots /\ Slots \in Nat /\ B \in Nat /\ DailyCap \in Nat
  BY PendingCount, BiggestBounds, LedgerAssumption
<1>2. n = 0 => A = {}
  BY PendingCount
<1>3. CASE total <= DailyCap + (Slots - 1 - n) * B
  <2>1. (Slots - 1 - n) * B <= (Slots - 1) * B /\ (Slots - 1 - n) * B \in Int /\ (Slots - 1) * B \in Int
    <3> HIDE DEF n, B
    <3> QED BY <1>1, Multiples
  <2> HIDE DEF n, B
  <2> QED BY <1>1, <1>3, <2>1 DEF B
<1>4. ASSUME NEW p \in A, total + points[p] <= DailyCap + (Slots - n) * B
      PROVE  total <= DailyCap + (Slots - 1) * B
  <2>1. n >= 1
    BY <1>1, <1>2
  <2>2. (Slots - n) * B <= (Slots - 1) * B /\ (Slots - n) * B \in Int /\ (Slots - 1) * B \in Int
    <3> HIDE DEF n, B
    <3> QED BY <1>1, <2>1, Multiples
  <2>3. points[p] \in Nat
    OBVIOUS
  <2> HIDE DEF n, B
  <2> QED BY <1>1, <1>4, <2>2, <2>3
<1> QED BY <1>3, <1>4 DEF Room

LEMMA RoomShrinks ==
    ASSUME NEW total \in Nat, NEW less \in Nat, less <= total,
           NEW A \in SUBSET AwardSlots, NEW p,
           NEW points \in [AwardSlots -> Nat], NEW later \in [AwardSlots -> Nat],
           \A q \in A \ {p} : later[q] = points[q],
           Room(total, A, points)
    PROVE  Room(less, A \ {p}, later)
<1> DEFINE n == Cardinality(A)
           m == Cardinality(A \ {p})
           B == Biggest
<1>1. n \in 0..Slots /\ m \in 0..Slots /\ Slots \in Nat /\ B \in Nat /\ DailyCap \in Nat
  BY PendingCount, BiggestBounds, LedgerAssumption
<1>2. IF p \in A THEN n = m + 1 ELSE n = m /\ A \ {p} = A
  BY PendingCount, FS_RemoveElement
<1>3. /\ (Slots - 1 - n) * B <= (Slots - 1 - m) * B
      /\ (Slots - n) * B <= (Slots - m) * B
      /\ p \in A => (Slots - n) * B = (Slots - 1 - m) * B
      /\ (Slots - 1 - n) * B \in Int
      /\ (Slots - 1 - m) * B \in Int
      /\ (Slots - n) * B \in Int
      /\ (Slots - m) * B \in Int
  <2>1. p \in A => Slots - n = Slots - 1 - m
    BY <1>1, <1>2
  <2>2. m <= n
    BY <1>1, <1>2
  <2> HIDE DEF n, m, B
  <2> QED BY <1>1, <2>1, <2>2, Multiples
<1>4. CASE total <= DailyCap + (Slots - 1 - n) * B
  <2>1. less <= DailyCap + (Slots - 1 - m) * B
    <3> HIDE DEF n, m, B
    <3> QED BY <1>1, <1>3, <1>4
  <2> QED BY <2>1 DEF Room
<1>5. ASSUME NEW q \in A, total + points[q] <= DailyCap + (Slots - n) * B
      PROVE  Room(less, A \ {p}, later)
  <2>1. points[q] \in Nat
    OBVIOUS
  <2>2. CASE q = p
    <3>1. less <= DailyCap + (Slots - 1 - m) * B
      <4> HIDE DEF n, m, B
      <4> QED BY <1>1, <1>3, <1>5, <2>1, <2>2
    <3> QED BY <3>1 DEF Room
  <2>3. CASE q # p
    <3>1. q \in A \ {p} /\ later[q] = points[q]
      BY <2>3
    <3>2. less + points[q] <= DailyCap + (Slots - m) * B
      <4> HIDE DEF n, m, B
      <4> QED BY <1>1, <1>3, <1>5, <2>1
    <3> QED BY <3>1, <3>2 DEF Room
  <2> QED BY <2>2, <2>3
<1> QED BY <1>4, <1>5 DEF Room

LEMMA RoomInserts ==
    ASSUME NEW total \in Nat, NEW A \in SUBSET AwardSlots, NEW p \in A,
           NEW points \in [AwardSlots -> Nat], NEW later \in [AwardSlots -> Nat],
           points[p] <= Biggest,
           \A q \in A \ {p} : later[q] = points[q],
           Room(total, A, points)
    PROVE  Room(total + points[p], A \ {p}, later)
<1> DEFINE n == Cardinality(A)
           m == Cardinality(A \ {p})
           B == Biggest
<1>1. n \in 0..Slots /\ m \in 0..Slots /\ Slots \in Nat /\ B \in Nat /\ DailyCap \in Nat
  BY PendingCount, BiggestBounds, LedgerAssumption
<1>2. n = m + 1
  BY PendingCount, FS_RemoveElement
<1>3. /\ (Slots - 1 - m) * B = (Slots - 1 - n) * B + B
      /\ (Slots - m) * B = (Slots - n) * B + B
      /\ (Slots - n) * B = (Slots - 1 - m) * B
      /\ (Slots - 1 - n) * B \in Int
      /\ (Slots - n) * B \in Int
  <2>1. Slots - n = Slots - 1 - m /\ Slots - m = (Slots - n) + 1
        /\ Slots - 1 - m = (Slots - 1 - n) + 1
    BY <1>1, <1>2
  <2> HIDE DEF n, m, B
  <2> QED BY <1>1, <2>1, Multiples
<1>4. points[p] \in Nat
  OBVIOUS
<1>5. CASE total <= DailyCap + (Slots - 1 - n) * B
  <2>1. total + points[p] <= DailyCap + (Slots - 1 - m) * B
    <3>1. points[p] <= B
      OBVIOUS
    <3> HIDE DEF n, m, B
    <3> QED BY <1>1, <1>3, <1>4, <1>5, <3>1
  <2> QED BY <2>1 DEF Room
<1>6. ASSUME NEW q \in A, total + points[q] <= DailyCap + (Slots - n) * B
      PROVE  Room(total + points[p], A \ {p}, later)
  <2>1. points[q] \in Nat /\ points[p] <= B
    OBVIOUS
  <2>2. CASE q = p
    <3>1. total + points[p] <= DailyCap + (Slots - 1 - m) * B
      <4> HIDE DEF n, m, B
      <4> QED BY <1>1, <1>3, <1>6, <2>2
    <3> QED BY <3>1 DEF Room
  <2>3. CASE q # p
    <3>1. q \in A \ {p} /\ later[q] = points[q]
      BY <2>3
    <3>2. (total + points[p]) + points[q] <= DailyCap + (Slots - m) * B
      <4> HIDE DEF n, m, B
      <4> QED BY <1>1, <1>3, <1>4, <1>6, <2>1
    <3> QED BY <3>1, <3>2 DEF Room
  <2> QED BY <2>2, <2>3
<1> QED BY <1>5, <1>6 DEF Room

LEMMA RoomScores ==
    ASSUME NEW total \in Nat, NEW A \in SUBSET AwardSlots, NEW p \in AwardSlots \ A,
           NEW later \in [AwardSlots -> Nat], total + later[p] <= DailyCap
    PROVE  Room(total, A \cup {p}, later)
<1> DEFINE m == Cardinality(A \cup {p})
           B == Biggest
<1>1. m \in 0..Slots /\ Slots \in Nat /\ B \in Nat /\ DailyCap \in Nat
  BY PendingCount, BiggestBounds, LedgerAssumption
<1>2. (Slots - m) * B >= 0 /\ (Slots - m) * B \in Int
  <2>1. 0 <= Slots - m /\ 0 * B = 0
    BY <1>1
  <2> HIDE DEF m, B
  <2> QED BY <1>1, <2>1, Multiples
<1>3. total + later[p] <= DailyCap + (Slots - m) * B
  <2>1. later[p] \in Nat
    OBVIOUS
  <2> HIDE DEF m, B
  <2> QED BY <1>1, <1>2, <2>1
<1> QED BY <1>3 DEF Room

LEMMA RoomOpens ==
    ASSUME NEW A \in SUBSET AwardSlots, NEW points \in [AwardSlots -> Nat],
           \A q \in A : points[q] <= DailyCap
    PROVE  Room(0, A, points)
<1> DEFINE n == Cardinality(A)
           B == Biggest
<1>1. /\ n \in 0..Slots /\ Slots \in Nat /\ Slots >= 1
      /\ B \in Nat /\ DailyCap \in Nat
      /\ n = 0 => A = {}
  BY PendingCount, BiggestBounds, LedgerAssumption
<1>2. CASE n = Slots
  <2>1. A # {}
    BY <1>1, <1>2, FS_EmptySet
  <2>2. PICK q \in A : points[q] <= DailyCap
    BY <2>1
  <2>3. (Slots - n) * B = 0
    BY <1>1, <1>2
  <2>4. 0 + points[q] <= DailyCap + (Slots - n) * B
    BY <1>1, <2>2, <2>3
  <2> QED BY <2>4 DEF Room
<1>3. CASE n # Slots
  <2>1. (Slots - 1 - n) * B >= 0 /\ (Slots - 1 - n) * B \in Int
    <3>1. 0 <= Slots - 1 - n /\ 0 * B = 0
      BY <1>1, <1>3
    <3> HIDE DEF n, B
    <3> QED BY <1>1, <3>1, Multiples
  <2>2. 0 <= DailyCap + (Slots - 1 - n) * B
    <3> HIDE DEF n, B
    <3> QED BY <1>1, <2>1
  <2> QED BY <2>2 DEF Room
<1> QED BY <1>2, <1>3
PendingFor(u) == {p \in AwardSlots : AwardAt(p, "insert") /\ awards[p].user = u}

PendingPoints == [p \in AwardSlots |-> awards[p].points]

\* Every event is dated by its insertion, and every pending award is within
\* the rule and its cap.
Undated ==
    /\ \A i \in DOMAIN events : events[i].day <= today
    /\ \A p \in AwardSlots : /\ awards[p].day = Now
                             /\ awards[p].raw <= Biggest
                             /\ AwardAt(p, "insert") => /\ awards[p].points <= Biggest
                                                        /\ awards[p].points <= DailyCap

RoomLeft == \A u \in Users : Room(AwardedOn(u, today), PendingFor(u), PendingPoints)

CapInv == LedgerTypeOK /\ Undated /\ RoomLeft /\ CapNearlyHolds

LEMMA CapInit == LedgerInit /\ DailyCap > 0 => CapInv
<1> SUFFICES ASSUME LedgerInit, DailyCap > 0 PROVE CapInv
  OBVIOUS
<1>1. LedgerTypeOK
  BY LedgerTypeInit
<1>2. Undated
  BY BiggestBounds DEF Undated, LedgerInit, NoAward, AwardAt
<1>3. ASSUME NEW u, NEW day PROVE AwardedOn(u, day) = 0
  <2>1. events \in Seq(XpEvent) /\ DOMAIN events = {}
    BY <1>1 DEF LedgerTypeOK, LedgerInit
  <2> QED BY <2>1, AwardedOnIsDaySum, NothingSummed
<1>4. RoomLeft
  <2> SUFFICES ASSUME NEW u \in Users
               PROVE  Room(0, PendingFor(u), PendingPoints)
    BY <1>3 DEF RoomLeft
  <2>1. PendingFor(u) \in SUBSET AwardSlots /\ PendingPoints \in [AwardSlots -> Nat]
    BY <1>1 DEF PendingFor, PendingPoints, LedgerTypeOK
  <2>2. \A p \in PendingFor(u) : PendingPoints[p] <= DailyCap
    BY <1>2 DEF PendingFor, PendingPoints, Undated
  <2> QED BY <2>1, <2>2, RoomOpens
<1>5. CapNearlyHolds
  <2> SUFFICES ASSUME NEW u \in Users, NEW day \in Days
               PROVE  AwardedOn(u, day) <= DailyCap + (Slots - 1) * Biggest
    BY DEF CapNearlyHolds, Slots, Biggest
  <2>1. PendingFor(u) \in SUBSET AwardSlots /\ PendingPoints \in [AwardSlots -> Nat]
    BY <1>1 DEF PendingFor, PendingPoints, LedgerTypeOK
  <2>2. Room(0, PendingFor(u), PendingPoints)
    BY <1>3, <1>4 DEF RoomLeft
  <2> QED BY <1>3, <2>1, <2>2, RoomBounds
<1> QED BY <1>1, <1>2, <1>4, <1>5 DEF CapInv

\* The sums of a step that inserts nothing and does not change the day.
LEMMA CapFromRoom ==
    ASSUME LedgerTypeOK', CapNearlyHolds, RoomLeft', NEW day \in Days, today' = day,
           \A u \in Users, d \in Days : d # day => AwardedOn(u, d)' <= AwardedOn(u, d),
           LedgerTypeOK
    PROVE  CapNearlyHolds'
<1> SUFFICES ASSUME DailyCap > 0, NEW u \in Users, NEW d \in Days
             PROVE  AwardedOn(u, d)' <= DailyCap + (Slots - 1) * Biggest
  BY DEF CapNearlyHolds, Slots, Biggest
<1>1. CASE d = day
  <2>1. AwardedOn(u, day)' = DaySum(events', u, day) /\ DaySum(events', u, day) \in Nat
    BY AwardedOnIsDaySum, DaySumIsNat DEF LedgerTypeOK
  <2>2. AwardedOn(u, today)' = DaySum(events', u, today')
    BY AwardedTodayIsDaySum DEF LedgerTypeOK
  <2>3. PendingFor(u)' \in SUBSET AwardSlots /\ PendingPoints' \in [AwardSlots -> Nat]
    BY DEF PendingFor, PendingPoints, LedgerTypeOK
  <2>4. Room(DaySum(events', u, day), PendingFor(u)', PendingPoints')
    BY <2>2 DEF RoomLeft
  <2> QED BY <1>1, <2>1, <2>3, <2>4, RoomBounds
<1>2. CASE d # day
  <2>1. AwardedOn(u, d) <= DailyCap + (Slots - 1) * Biggest
    BY DEF CapNearlyHolds, Slots, Biggest
  <2>2. AwardedOn(u, d) \in Nat /\ AwardedOn(u, d)' \in Nat
    BY AwardedOnIsDaySum, DaySumIsNat DEF LedgerTypeOK
  <2>3. AwardedOn(u, d)' <= AwardedOn(u, d)
    BY <1>2
  <2>4. (Slots - 1) * Biggest \in Int /\ DailyCap \in Nat
    <3>1. Slots - 1 \in Int /\ Biggest \in Nat
      <4>1. PendingFor(u) \in SUBSET AwardSlots
        BY DEF PendingFor
      <4>2. Slots \in Nat
        BY <4>1, PendingCount
      <4> QED BY <4>2, BiggestBounds
    <3> QED BY <3>1, Multiples, LedgerAssumption
  <2> QED BY <2>1, <2>2, <2>3, <2>4
<1> QED BY <1>1, <1>2
\* No award is inserted and the slot p is not pending afterwards.
LEMMA CapQuietStep ==
    ASSUME CapInv, LedgerTypeOK', UNCHANGED <<events, today>>, Undated', NEW p,
           \A q \in AwardSlots \ {p} : awards'[q] = awards[q],
           p \in AwardSlots => awards'[p].stage # "insert"
    PROVE  RoomLeft' /\ CapNearlyHolds'
<1>1. \A u, d : AwardedOn(u, d)' = AwardedOn(u, d)
  BY AwardedOnIsDaySum DEF CapInv, LedgerTypeOK
<1>2. ASSUME NEW u \in Users PROVE Room(AwardedOn(u, today)', PendingFor(u)', PendingPoints')
  <2>1. AwardedOn(u, today)' = AwardedOn(u, today) /\ AwardedOn(u, today) \in Nat
    BY AwardedTodayIsDaySum, DaySumIsNat DEF CapInv, LedgerTypeOK
  <2>2. PendingFor(u)' = PendingFor(u) \ {p}
    BY DEF PendingFor, AwardAt
  <2>3. /\ PendingFor(u) \in SUBSET AwardSlots
        /\ PendingPoints \in [AwardSlots -> Nat]
        /\ PendingPoints' \in [AwardSlots -> Nat]
        /\ \A q \in PendingFor(u) \ {p} : PendingPoints'[q] = PendingPoints[q]
    BY DEF PendingFor, PendingPoints, LedgerTypeOK, CapInv
  <2>4. Room(AwardedOn(u, today), PendingFor(u), PendingPoints)
    BY DEF CapInv, RoomLeft
  <2>5. AwardedOn(u, today) <= AwardedOn(u, today)
    BY <2>1
  <2>6. Room(AwardedOn(u, today), PendingFor(u) \ {p}, PendingPoints')
    BY <2>1, <2>3, <2>4, <2>5, RoomShrinks
  <2> QED BY <2>1, <2>2, <2>6
<1>3. RoomLeft'
  BY <1>2 DEF RoomLeft
<1>4. CapNearlyHolds'
  BY <1>1 DEF CapInv, CapNearlyHolds
<1> QED BY <1>3, <1>4

LEMMA CapScore ==
    ASSUME CapInv, DailyCap > 0, LedgerTypeOK', NEW p \in AwardSlots, Score(p)
    PROVE  CapInv'
<1> DEFINE u == awards[p].user
           total == AwardedOn(awards[p].user, today)
           points == Finalise(awards[p].raw, total)
<1>1. total \in Nat /\ awards[p].raw \in Nat /\ u \in Users /\ DailyCap \in Nat
  BY AwardedOnIsDaySum, DaySumIsNat, LedgerAssumption DEF CapInv, LedgerTypeOK
<1>2. CASE points <= 0
  <2>1. awards' = [awards EXCEPT ![p].stage = "idle", ![p].outcome = "skipped"]
    BY <1>2 DEF Score, End
  <2>2. UNCHANGED <<events, today>>
    BY DEF Score
  <2>3. Undated'
    BY <2>1, <2>2 DEF Undated, AwardAt, CapInv, LedgerTypeOK
  <2>4. (\A q \in AwardSlots \ {p} : awards'[q] = awards[q]) /\ awards'[p].stage # "insert"
    BY <2>1 DEF CapInv, LedgerTypeOK
  <2> QED BY <2>2, <2>3, <2>4, CapQuietStep DEF CapInv
<1>3. CASE ~(points <= 0)
  <2>1. awards' = [awards EXCEPT ![p].stage = "insert", ![p].points = points]
    BY <1>3 DEF Score
  <2>2. UNCHANGED <<events, today>> /\ awards[p].stage = "sum"
    BY DEF Score, AwardAt
  <2>3. points \in Nat /\ points <= awards[p].raw /\ total + points <= DailyCap
    <3> HIDE DEF total
    <3> QED BY <1>1, <1>3 DEF Finalise
  <2>4. /\ awards'[p].points = points
        /\ awards'[p].stage = "insert"
        /\ awards'[p].user = u
        /\ awards'[p].day = awards[p].day
        /\ awards'[p].raw = awards[p].raw
        /\ \A q \in AwardSlots \ {p} : awards'[q] = awards[q]
    <3> HIDE DEF points
    <3> QED BY <2>1 DEF CapInv, LedgerTypeOK
  <2> HIDE DEF points
  <2>5. Undated'
    <3>1. points <= Biggest /\ points <= DailyCap
      <4>1. awards[p].raw <= Biggest /\ Biggest \in Nat
        BY BiggestBounds DEF CapInv, Undated
      <4> HIDE DEF total
      <4> QED BY <1>1, <2>3, <4>1
    <3> QED BY <2>2, <2>4, <3>1 DEF Undated, AwardAt, CapInv
  <2>6. \A v, d : AwardedOn(v, d)' = AwardedOn(v, d)
    BY <2>2, AwardedOnIsDaySum DEF CapInv, LedgerTypeOK
  <2>7. ASSUME NEW v \in Users PROVE Room(AwardedOn(v, today)', PendingFor(v)', PendingPoints')
    <3>1. AwardedOn(v, today)' = AwardedOn(v, today) /\ AwardedOn(v, today) \in Nat
      BY <2>2, AwardedTodayIsDaySum, DaySumIsNat DEF CapInv, LedgerTypeOK
    <3>2. /\ PendingFor(v) \in SUBSET AwardSlots
          /\ PendingPoints \in [AwardSlots -> Nat]
          /\ PendingPoints' \in [AwardSlots -> Nat]
          /\ \A q \in AwardSlots \ {p} : PendingPoints'[q] = PendingPoints[q]
          /\ PendingPoints'[p] = points
      BY <2>4 DEF PendingFor, PendingPoints, LedgerTypeOK, CapInv
    <3>3. CASE v = u
      <4>1. PendingFor(v)' = PendingFor(v) \cup {p} /\ p \notin PendingFor(v)
        BY <2>2, <2>4, <3>3 DEF PendingFor, AwardAt
      <4>2. AwardedOn(v, today) + PendingPoints'[p] <= DailyCap
        BY <2>3, <3>2, <3>3
      <4> QED BY <3>1, <3>2, <4>1, <4>2, RoomScores
    <3>4. CASE v # u
      <4>1. PendingFor(v)' = PendingFor(v) \ {p}
        BY <2>4, <3>4 DEF PendingFor, AwardAt
      <4>2. Room(AwardedOn(v, today), PendingFor(v), PendingPoints)
        BY DEF CapInv, RoomLeft
      <4>3. AwardedOn(v, today) <= AwardedOn(v, today)
        BY <3>1
      <4>4. Room(AwardedOn(v, today), PendingFor(v) \ {p}, PendingPoints')
        BY <3>1, <3>2, <4>2, <4>3, RoomShrinks
      <4> QED BY <3>1, <4>1, <4>4
    <3> QED BY <3>3, <3>4
  <2>8. RoomLeft'
    BY <2>7 DEF RoomLeft
  <2>9. CapNearlyHolds'
    BY <2>6 DEF CapInv, CapNearlyHolds
  <2> QED BY <2>5, <2>8, <2>9 DEF CapInv
<1> QED BY <1>2, <1>3

LEMMA CapInsert ==
    ASSUME CapInv, DailyCap > 0, LedgerTypeOK', NEW p \in AwardSlots, Insert(p)
    PROVE  CapInv'
<1>1. /\ awards[p].stage = "insert"
      /\ awards'[p].stage = "idle"
      /\ awards'[p].day = awards[p].day
      /\ awards'[p].raw = awards[p].raw
      /\ \A q \in AwardSlots \ {p} : awards'[q] = awards[q]
      /\ today' = today
  BY DEF Insert, End, AwardAt, CapInv, LedgerTypeOK
<1>2. CASE events' = events
  <2>1. Undated'
    BY <1>1, <1>2 DEF Undated, AwardAt, CapInv
  <2> QED BY <1>1, <1>2, <2>1, CapQuietStep DEF CapInv
<1>3. CASE events' # events
  <2> DEFINE row == InsertedRow(p)
             u == awards[p].user
             points == awards[p].points
             day == today
  <2>1. events' = Append(events, row)
    BY <1>3 DEF Insert, InsertedRow
  <2>2. /\ row \in XpEvent /\ ~row.revoked
        /\ row.user = u /\ row.points = points /\ row.day = today
    <3>1. awards[p].day = Now
      BY DEF CapInv, Undated
    <3> QED BY <3>1, InsertedRowType DEF InsertedRow, OccurredAt, CapInv
  <2>3. u \in Users /\ points \in Nat /\ today \in Days /\ events \in Seq(XpEvent)
    BY DEF CapInv, LedgerTypeOK
  <2>4. points <= Biggest
    BY <1>1 DEF CapInv, Undated, AwardAt
  <2>5. Undated'
    <3>1. /\ DOMAIN events' = DOMAIN events \cup {Len(events) + 1}
          /\ \A i \in DOMAIN events : events'[i] = events[i]
          /\ events'[Len(events) + 1].day = today
      BY <2>1, <2>2, AppendedRowIsLast DEF CapInv
    <3>2. \A i \in DOMAIN events : events[i].day <= today
      BY DEF CapInv, Undated
    <3>3. today <= today
      BY <2>3 DEF Days
    <3>4. \A i \in DOMAIN events' : events'[i].day <= today
      BY <3>1, <3>2, <3>3
    <3> QED BY <1>1, <3>4 DEF Undated, AwardAt, CapInv
  <2> HIDE DEF row, points
  <2>6. ASSUME NEW v, NEW d
        PROVE  AwardedOn(v, d)' = IF v = u /\ d = today THEN AwardedOn(v, d) + points
                                  ELSE AwardedOn(v, d)
    <3>1. DaySum(events', v, d) = IF v = u /\ d = today THEN DaySum(events, v, d) + points
                                  ELSE DaySum(events, v, d)
      BY <2>1, <2>2, <2>3, AppendedSum
    <3> QED BY <2>3, <3>1, AwardedOnIsDaySum DEF CapInv, LedgerTypeOK
  <2>7. ASSUME NEW v \in Users PROVE Room(AwardedOn(v, today)', PendingFor(v)', PendingPoints')
    <3>1. AwardedOn(v, today)' = IF v = u THEN AwardedOn(v, today) + points
                                 ELSE AwardedOn(v, today)
      <4>1. AwardedOn(v, today)' = DaySum(events', v, today)
        BY <1>1, AwardedTodayIsDaySum DEF LedgerTypeOK
      <4>2. AwardedOn(v, today) = DaySum(events, v, today)
        BY <2>3, AwardedTodayIsDaySum
      <4> QED BY <2>1, <2>2, <2>3, <4>1, <4>2, AppendedSum
    <3>2. AwardedOn(v, today) \in Nat
      BY <2>3, AwardedOnIsDaySum, DaySumIsNat
    <3>3. /\ PendingFor(v) \in SUBSET AwardSlots
          /\ PendingPoints \in [AwardSlots -> Nat]
          /\ PendingPoints' \in [AwardSlots -> Nat]
          /\ \A q \in AwardSlots \ {p} : PendingPoints'[q] = PendingPoints[q]
          /\ PendingPoints[p] = points
      BY <1>1 DEF PendingFor, PendingPoints, LedgerTypeOK, CapInv, points
    <3>4. PendingFor(v)' = PendingFor(v) \ {p}
      BY <1>1 DEF PendingFor, AwardAt
    <3>5. Room(AwardedOn(v, today), PendingFor(v), PendingPoints)
      BY DEF CapInv, RoomLeft
    <3>6. CASE v = u
      <4>1. p \in PendingFor(v)
        BY <1>1, <3>6 DEF PendingFor, AwardAt
      <4>2. Room(AwardedOn(v, today) + PendingPoints[p], PendingFor(v) \ {p}, PendingPoints')
        BY <2>4, <3>2, <3>3, <3>5, <4>1, RoomInserts
      <4> QED BY <3>1, <3>3, <3>4, <3>6, <4>2
    <3>7. CASE v # u
      <4>1. AwardedOn(v, today) <= AwardedOn(v, today)
        BY <3>2
      <4>2. Room(AwardedOn(v, today), PendingFor(v) \ {p}, PendingPoints')
        BY <3>2, <3>3, <3>5, <4>1, RoomShrinks
      <4> QED BY <3>1, <3>4, <3>7, <4>2
    <3> QED BY <3>6, <3>7
  <2>8. RoomLeft'
    BY <2>7 DEF RoomLeft
  <2>9. CapNearlyHolds'
    <3>1. \A v \in Users, d \in Days : d # day => AwardedOn(v, d)' <= AwardedOn(v, d)
      <4> SUFFICES ASSUME NEW v \in Users, NEW d \in Days, d # day
                   PROVE  AwardedOn(v, d)' <= AwardedOn(v, d)
        OBVIOUS
      <4>1. AwardedOn(v, d)' = AwardedOn(v, d)
        BY <2>6
      <4>2. AwardedOn(v, d) \in Nat
        BY <2>3, AwardedOnIsDaySum, DaySumIsNat
      <4> QED BY <4>1, <4>2
    <3>2. day \in Days /\ today' = day
      BY <1>1, <2>3
    <3> HIDE DEF day
    <3> QED BY <2>8, <3>1, <3>2, CapFromRoom DEF CapInv
  <2> QED BY <2>5, <2>8, <2>9 DEF CapInv
<1> QED BY <1>2, <1>3

LEMMA CapRevoke ==
    ASSUME CapInv, LedgerTypeOK', NEW users, NEW k, RevokeByDedupeKey(users, k)
    PROVE  CapInv'
<1>1. events \in Seq(XpEvent) /\ events' \in Seq(XpEvent) /\ today \in Days
  BY DEF CapInv, LedgerTypeOK
<1>2. UNCHANGED <<today, awards>>
  BY DEF RevokeByDedupeKey
<1>3. ASSUME NEW v, NEW d PROVE DaySum(events', v, d) <= DaySum(events, v, d)
  BY <1>1, RevokedRows, RevokedSum DEF CapInv
<1>4. Undated'
  <2>1. DOMAIN events = 1..Len(events) /\ DOMAIN events' = 1..Len(events')
    BY <1>1
  <2>2. DOMAIN events' = DOMAIN events /\ \A i \in DOMAIN events : events'[i].day = events[i].day
    BY <2>1, RevokedRows DEF CapInv
  <2> QED BY <1>2, <2>2 DEF Undated, AwardAt, CapInv
<1>5. RoomLeft'
  <2> SUFFICES ASSUME NEW v \in Users
               PROVE  Room(AwardedOn(v, today)', PendingFor(v)', PendingPoints')
    BY DEF RoomLeft
  <2>1. AwardedOn(v, today)' = DaySum(events', v, today)
    BY <1>1, <1>2, AwardedTodayIsDaySum
  <2>2. Room(DaySum(events, v, today), PendingFor(v), PendingPoints)
    BY <1>1, AwardedTodayIsDaySum DEF CapInv, RoomLeft
  <2>3. PendingFor(v)' = PendingFor(v) /\ PendingPoints' = PendingPoints
    BY <1>2 DEF PendingFor, PendingPoints, AwardAt
  <2>4. /\ PendingFor(v) \in SUBSET AwardSlots
        /\ PendingPoints \in [AwardSlots -> Nat]
        /\ DaySum(events, v, today) \in Nat
        /\ DaySum(events', v, today) \in Nat
        /\ DaySum(events', v, today) <= DaySum(events, v, today)
    BY <1>1, <1>3, DaySumIsNat DEF PendingFor, PendingPoints, LedgerTypeOK, CapInv
  <2>5. PICK nobody : nobody \notin AwardSlots
    <3>1. {x \in AwardSlots : x \notin x} \notin AwardSlots
      OBVIOUS
    <3> QED BY <3>1
  <2>6. Room(DaySum(events', v, today), PendingFor(v) \ {nobody}, PendingPoints)
    BY <2>2, <2>4, RoomShrinks
  <2>7. PendingFor(v) \ {nobody} = PendingFor(v)
    BY <2>4, <2>5
  <2> QED BY <2>1, <2>3, <2>6, <2>7
<1>6. CapNearlyHolds'
  <2>1. \A v \in Users, d \in Days : AwardedOn(v, d)' <= AwardedOn(v, d)
    BY <1>1, <1>3, AwardedOnIsDaySum
  <2>2. PICK day \in Days : day = today
    BY <1>1
  <2> QED BY <1>2, <1>5, <2>1, <2>2, CapFromRoom DEF CapInv
<1> QED BY <1>4, <1>5, <1>6 DEF CapInv

LEMMA CapNextDay ==
    ASSUME CapInv, LedgerTypeOK', NextDay
    PROVE  CapInv'
<1>1. /\ events \in Seq(XpEvent) /\ today \in Int
      /\ today' = today + 1 /\ UNCHANGED <<events, awards>>
  BY LedgerAssumption DEF CapInv, LedgerTypeOK, NextDay, Days
<1>2. /\ \A i \in DOMAIN events : events[i].day \in Int
      /\ \A i \in DOMAIN events : events[i].day <= today
  <2>1. ASSUME NEW i \in DOMAIN events PROVE events[i].day \in Int
    <3>1. events[i] \in XpEvent
      BY <1>1
    <3> QED BY <3>1, LedgerAssumption DEF XpEvent, Days
  <2> QED BY <2>1 DEF CapInv, Undated
<1>3. Undated'
  BY <1>1, <1>2 DEF Undated, AwardAt, CapInv
<1>4. \A v : DaySum(events, v, today') = 0
  BY <1>1, <1>2, NothingSummed
<1>5. RoomLeft'
  <2> SUFFICES ASSUME NEW v \in Users
               PROVE  Room(AwardedOn(v, today)', PendingFor(v)', PendingPoints')
    BY DEF RoomLeft
  <2>1. AwardedOn(v, today)' = 0
    BY <1>1, <1>4, AwardedTodayIsDaySum
  <2>2. PendingFor(v)' = PendingFor(v) /\ PendingPoints' = PendingPoints
    BY <1>1 DEF PendingFor, PendingPoints, AwardAt
  <2>3. PendingFor(v) \in SUBSET AwardSlots /\ PendingPoints \in [AwardSlots -> Nat]
    BY DEF PendingFor, PendingPoints, LedgerTypeOK, CapInv
  <2>4. \A q \in PendingFor(v) : PendingPoints[q] <= DailyCap
    BY DEF PendingFor, PendingPoints, CapInv, Undated
  <2> QED BY <2>1, <2>2, <2>3, <2>4, RoomOpens
<1>6. CapNearlyHolds'
  <2>1. \A v, d : AwardedOn(v, d)' = AwardedOn(v, d)
    BY <1>1, AwardedOnIsDaySum
  <2> QED BY <2>1 DEF CapInv, CapNearlyHolds
<1> QED BY <1>3, <1>5, <1>6 DEF CapInv

LEMMA CapStep ==
    ASSUME CapInv, ~Dated, DailyCap > 0, [LedgerNext]_ledgerVars
    PROVE  CapInv'
<1>1. LedgerTypeOK'
  BY LedgerTypeStep DEF CapInv
<1>2. ASSUME NEW p \in AwardSlots, NEW u \in Users, NEW k \in Keys, NEW raw \in RawPoints,
             NEW day \in Days \cup {Now}, Report(p, u, k, raw, day)
      PROVE  CapInv'
  <2>1. /\ UNCHANGED <<events, today>>
        /\ awards'[p].stage = "find" /\ awards'[p].day = Now /\ awards'[p].raw = raw
        /\ \A q \in AwardSlots \ {p} : awards'[q] = awards[q]
    BY <1>2 DEF Report, CapInv, LedgerTypeOK
  <2>2. raw <= Biggest
    BY BiggestBounds
  <2>3. Undated'
    BY <2>1, <2>2 DEF Undated, AwardAt, CapInv
  <2> QED BY <1>1, <2>1, <2>3, CapQuietStep DEF CapInv
<1>3. ASSUME NEW p \in AwardSlots, FindExisting(p) \/ Fail(p)
      PROVE  CapInv'
  <2>1. /\ UNCHANGED <<events, today>>
        /\ awards'[p].stage # "insert" /\ awards'[p].day = awards[p].day
        /\ awards'[p].raw = awards[p].raw
        /\ \A q \in AwardSlots \ {p} : awards'[q] = awards[q]
    BY <1>3 DEF FindExisting, Fail, End, CapInv, LedgerTypeOK
  <2>2. Undated'
    BY <2>1 DEF Undated, AwardAt, CapInv
  <2> QED BY <1>1, <2>1, <2>2, CapQuietStep DEF CapInv
<1>4. ASSUME NEW p \in AwardSlots, Score(p) PROVE CapInv'
  BY <1>1, <1>4, CapScore
<1>5. ASSUME NEW p \in AwardSlots, Insert(p) PROVE CapInv'
  BY <1>1, <1>5, CapInsert
<1>6. ASSUME NEW users, NEW k, RevokeByDedupeKey(users, k) PROVE CapInv'
  BY <1>1, <1>6, CapRevoke
<1>7. CASE NextDay
  BY <1>1, <1>7, CapNextDay
<1>8. CASE UNCHANGED ledgerVars
  <2>1. \A v, d : AwardedOn(v, d)' = AwardedOn(v, d)
    BY <1>8, <1>1, AwardedOnIsDaySum DEF ledgerVars, CapInv, LedgerTypeOK
  <2>2. Undated' /\ \A v : PendingFor(v)' = PendingFor(v) /\ PendingPoints' = PendingPoints
    BY <1>8 DEF ledgerVars, CapInv, Undated, AwardAt, PendingFor, PendingPoints
  <2>3. \A v : AwardedOn(v, today)' = AwardedOn(v, today)
    BY <1>8, <1>1, AwardedTodayIsDaySum DEF ledgerVars, CapInv, LedgerTypeOK
  <2> QED BY <1>1, <2>1, <2>2, <2>3 DEF CapInv, RoomLeft, CapNearlyHolds
<1> QED BY <1>2, <1>3, <1>4, <1>5, <1>6, <1>7, <1>8 DEF LedgerNext, Award

\* XpLedger: while events are dated by their insertion, awards that overlap
\* exceed the cap of a day by less than one award for each other request, for
\* any rule, any cap and any number of requests.
THEOREM CapIsNearlyKept ==
    ASSUME ~Dated
    PROVE  LedgerSpec => []CapNearlyHolds
<1>1. CASE DailyCap > 0
  <2>1. LedgerInit => CapInv
    BY <1>1, CapInit
  <2>2. CapInv /\ [LedgerNext]_ledgerVars => CapInv'
    BY <1>1, CapStep
  <2>3. CapInv => CapNearlyHolds
    BY DEF CapInv
  <2> QED BY <2>1, <2>2, <2>3, PTL DEF LedgerSpec
<1>2. CASE ~(DailyCap > 0)
  <2>1. CapNearlyHolds
    BY <1>2 DEF CapNearlyHolds
  <2> QED BY <2>1, PTL
<1> QED BY <1>1, <1>2
--------------------------------------------------------------------------------
(***************************************************************************)
(* Exams                                                                   *)
(***************************************************************************)
PageRow == [sheet : Sheet, phase : Phases]

SessionRow == [status : Statuses, asked : SUBSET Questions, score : Nat]

Environment == [exams : SUBSET Sessions, slots : SUBSET Requests, late : BOOLEAN, faults : BOOLEAN]

ExamTypeOK == TypeOK /\ env \in Environment

LEMMA IdleType == Idle \in Request
BY DEF Idle, Request, Stages, Blank, Sheet, Marks

LEMMA ExamTypeInit == Init => ExamTypeOK
<1> SUFFICES ASSUME Init PROVE ExamTypeOK
  OBVIOUS
<1>1. Blank \in Sheet
  BY DEF Blank, Sheet, Marks
<1>2. page \in [Sessions -> PageRow]
  BY <1>1 DEF Init, PageRow, Phases
<1>3. sessions \in [Sessions -> SessionRow]
  BY DEF Init, SessionRow, Statuses
<1>4. answers \in [Sessions -> Sheet]
  BY <1>1 DEF Init
<1>5. req \in [Requests -> Request] /\ \A p \in Requests : At(p, "idle")
  BY IdleType DEF Init, At, Idle
<1>6. env \in Environment
  BY ExamAssumption DEF Init, Environment
<1> QED BY <1>2, <1>3, <1>4, <1>5, <1>6 DEF Init, ExamTypeOK, TypeOK, PageRow, SessionRow

(***************************************************************************)
(* What the actions write                                                  *)
(***************************************************************************)
LEMMA StartWrites ==
    ASSUME ExamTypeOK, NEW s \in Sessions, NEW asked \in Selections, Start(s, asked)
    PROVE  /\ ExamTypeOK'
           /\ sessions[s].status = "none"
           /\ sessions'[s].status = "in_progress" /\ sessions'[s].asked = asked
           /\ page'[s].sheet = page[s].sheet /\ page'[s].phase = "working"
           /\ \A t \in Sessions \ {s} : sessions'[t] = sessions[t] /\ page'[t] = page[t]
<1>1. page \in [Sessions -> PageRow] /\ sessions \in [Sessions -> SessionRow]
  BY DEF ExamTypeOK, TypeOK, PageRow, SessionRow
<1>2. [status |-> "in_progress", asked |-> asked, score |-> 0] \in SessionRow
  BY ExamAssumption DEF SessionRow, Statuses
<1>3. page[s] \in PageRow
  BY <1>1
<1>4. page' = [page EXCEPT ![s] = [page[s] EXCEPT !.phase = "working"]]
  BY DEF Start
<1>5. [page[s] EXCEPT !.phase = "working"] = [sheet |-> page[s].sheet, phase |-> "working"]
  BY <1>3 DEF PageRow
<1>6. [sheet |-> page[s].sheet, phase |-> "working"] \in PageRow
  BY <1>3 DEF PageRow, Phases
<1>7. page' \in [Sessions -> PageRow] /\ sessions' \in [Sessions -> SessionRow]
  BY <1>1, <1>2, <1>4, <1>5, <1>6 DEF Start
<1>8. ExamTypeOK'
  BY <1>7 DEF Start, ExamTypeOK, TypeOK, PageRow, SessionRow, At
<1>9. sessions'[s].status = "in_progress" /\ sessions'[s].asked = asked
      /\ \A t \in Sessions \ {s} : sessions'[t] = sessions[t]
  BY <1>1 DEF Start
<1>10. page'[s].sheet = page[s].sheet /\ page'[s].phase = "working"
       /\ \A t \in Sessions \ {s} : page'[t] = page[t]
  BY <1>1, <1>4, <1>5
<1> QED BY <1>8, <1>9, <1>10 DEF Start

LEMMA ChooseWrites ==
    ASSUME ExamTypeOK, NEW s \in Sessions, NEW q \in Questions, NEW choice \in {"right", "wrong"},
           Choose(s, q, choice)
    PROVE  /\ ExamTypeOK'
           /\ page'[s].phase = page[s].phase
           /\ \A r \in Questions \ {q} : page'[s].sheet[r] = page[s].sheet[r]
           /\ \A t \in Sessions \ {s} : page'[t] = page[t]
<1>1. page \in [Sessions -> PageRow]
  BY DEF ExamTypeOK, TypeOK, PageRow
<1>2. page[s] \in PageRow /\ page[s].sheet \in Sheet
  BY <1>1 DEF PageRow
<1>3. page' = [page EXCEPT ![s] = [page[s] EXCEPT !.sheet = [page[s].sheet EXCEPT ![q] = choice]]]
  BY DEF Choose
<1> DEFINE sheet == [page[s].sheet EXCEPT ![q] = choice]
<1>4. sheet \in Sheet
  BY <1>2 DEF Sheet, Marks
<1> HIDE DEF sheet
<1>5. [page[s] EXCEPT !.sheet = sheet] = [sheet |-> sheet, phase |-> page[s].phase]
  BY <1>2 DEF PageRow
<1>6. [sheet |-> sheet, phase |-> page[s].phase] \in PageRow
  BY <1>2, <1>4 DEF PageRow
<1>7. page' = [page EXCEPT ![s] = [sheet |-> sheet, phase |-> page[s].phase]]
  BY <1>3, <1>5 DEF sheet
<1>8. page' \in [Sessions -> PageRow]
  BY <1>1, <1>6, <1>7
<1>9. mail' \subseteq [session : Sessions, question : Questions, choice : {"right", "wrong"}]
  BY DEF Choose, ExamTypeOK, TypeOK
<1>10. ExamTypeOK'
  BY <1>8, <1>9 DEF Choose, ExamTypeOK, TypeOK, PageRow, At
<1>11. page'[s].phase = page[s].phase /\ page'[s].sheet = sheet
       /\ \A t \in Sessions \ {s} : page'[t] = page[t]
  BY <1>1, <1>7
<1>12. \A r \in Questions \ {q} : sheet[r] = page[s].sheet[r]
  BY <1>2 DEF sheet, Sheet
<1> QED BY <1>10, <1>11, <1>12

Saved(s, q, choice) ==
    /\ answers' \in [Sessions -> Sheet]
    /\ answers'[s] = [answers[s] EXCEPT ![q] = choice]
    /\ answers'[s][q] = choice
    /\ \A r \in Questions \ {q} : answers'[s][r] = answers[s][r]
    /\ \A t \in Sessions \ {s} : answers'[t] = answers[t]

LEMMA SaveWrites ==
    ASSUME ExamTypeOK, NEW s \in Sessions, NEW q \in Questions, NEW choice \in Marks,
           SaveAnswer(s, q, choice)
    PROVE  Saved(s, q, choice)
<1>1. answers \in [Sessions -> Sheet] /\ answers[s] \in Sheet
  BY DEF ExamTypeOK, TypeOK
<1>2. answers' = [answers EXCEPT ![s] = [answers[s] EXCEPT ![q] = choice]]
  BY DEF SaveAnswer
<1>3. [answers[s] EXCEPT ![q] = choice] \in Sheet
  BY <1>1 DEF Sheet
<1>4. answers' \in [Sessions -> Sheet]
  BY <1>1, <1>2, <1>3
<1>5. answers'[s] = [answers[s] EXCEPT ![q] = choice]
  BY <1>1, <1>2
<1>6. answers'[s][q] = choice /\ \A r \in Questions \ {q} : answers'[s][r] = answers[s][r]
  BY <1>1, <1>5 DEF Sheet
<1>7. \A t \in Sessions \ {s} : answers'[t] = answers[t]
  BY <1>1, <1>2
<1> QED BY <1>4, <1>5, <1>6, <1>7 DEF Saved

LEMMA RequestWrites ==
    ASSUME ExamTypeOK, NEW p \in Requests, NEW r \in Request, req' = [req EXCEPT ![p] = r],
           r.stage # "idle" => r.session \in Sessions
    PROVE  /\ req' \in [Requests -> Request]
           /\ req'[p] = r
           /\ \A q \in Requests \ {p} : req'[q] = req[q]
           /\ \A q \in Requests : req'[q].stage # "idle" => req'[q].session \in Sessions
<1>1. req \in [Requests -> Request]
  BY DEF ExamTypeOK, TypeOK
<1>2. \A q \in Requests : req[q].stage # "idle" => req[q].session \in Sessions
  BY DEF ExamTypeOK, TypeOK, At
<1> QED BY <1>1, <1>2

\* The locals of a submission that moves to another stage.
Moved(p, stage) == [req[p] EXCEPT !.stage = stage]

LEMMA MovedType ==
    ASSUME ExamTypeOK, NEW p \in Requests, NEW stage \in Stages
    PROVE  /\ Moved(p, stage) \in Request
           /\ Moved(p, stage).stage = stage
           /\ Moved(p, stage).session = req[p].session
           /\ Moved(p, stage).final = req[p].final
           /\ Moved(p, stage).todo = req[p].todo
           /\ Moved(p, stage).right = req[p].right
           /\ Moved(p, stage).existing = req[p].existing
           /\ Moved(p, stage).awaited = req[p].awaited
<1>1. req[p] \in Request
  BY DEF ExamTypeOK, TypeOK
<1> QED BY <1>1 DEF Moved, Request

LEMMA GoToWrites ==
    ASSUME ExamTypeOK, NEW p \in Requests, NEW stage \in Stages, GoTo(p, stage),
           req[p].stage # "idle"
    PROVE  /\ req' \in [Requests -> Request]
           /\ req'[p].stage = stage
           /\ req'[p].session = req[p].session
           /\ req'[p].final = req[p].final
           /\ req'[p].todo = req[p].todo
           /\ req'[p].right = req[p].right
           /\ req'[p].existing = req[p].existing
           /\ req'[p].awaited = req[p].awaited
           /\ \A q \in Requests \ {p} : req'[q] = req[q]
           /\ \A q \in Requests : req'[q].stage # "idle" => req'[q].session \in Sessions
<1>1. req' = [req EXCEPT ![p] = Moved(p, stage)]
  BY DEF GoTo, Moved
<1>2. req[p].session \in Sessions
  BY DEF ExamTypeOK, TypeOK, At
<1>3. /\ Moved(p, stage) \in Request
      /\ Moved(p, stage).stage = stage /\ Moved(p, stage).session = req[p].session
      /\ Moved(p, stage).final = req[p].final /\ Moved(p, stage).todo = req[p].todo
      /\ Moved(p, stage).right = req[p].right
      /\ Moved(p, stage).existing = req[p].existing
      /\ Moved(p, stage).awaited = req[p].awaited
  BY MovedType
<1>4. /\ req' \in [Requests -> Request]
      /\ req'[p] = Moved(p, stage)
      /\ \A q \in Requests \ {p} : req'[q] = req[q]
      /\ \A q \in Requests : req'[q].stage # "idle" => req'[q].session \in Sessions
  <2>1. PICK r \in Request : r = Moved(p, stage)
    BY <1>3
  <2>2. req' = [req EXCEPT ![p] = r] /\ (r.stage # "idle" => r.session \in Sessions)
    BY <1>1, <1>2, <1>3, <2>1
  <2> QED BY <2>1, <2>2, RequestWrites
<1> QED BY <1>3, <1>4

LEMMA SubmitWrites ==
    ASSUME ExamTypeOK, NEW p \in Requests, NEW s \in Sessions, Submit(p, s)
    PROVE  /\ ExamTypeOK'
           /\ page'[s].sheet = page[s].sheet /\ page'[s].phase = "submitting"
           /\ \A t \in Sessions \ {s} : page'[t] = page[t]
           /\ req'[p].stage = "save"
           /\ req'[p].session = s
           /\ req'[p].awaited = TRUE
           /\ req'[p].todo = sessions[s].asked
           /\ RightOnes(req'[p].final) = RightOnes(page[s].sheet)
           /\ \A q \in Requests \ {p} : req'[q] = req[q]
<1>1. page \in [Sessions -> PageRow] /\ sessions \in [Sessions -> SessionRow]
  BY DEF ExamTypeOK, TypeOK, PageRow, SessionRow
<1>2. page[s] \in PageRow /\ page[s].sheet \in Sheet /\ sessions[s].asked \subseteq Questions
  BY <1>1 DEF PageRow, SessionRow
<1>3. page' = [page EXCEPT ![s] = [sheet |-> page[s].sheet, phase |-> "submitting"]]
  <2>1. page' = [page EXCEPT ![s] = [page[s] EXCEPT !.phase = "submitting"]]
    BY DEF Submit
  <2>2. [page[s] EXCEPT !.phase = "submitting"] = [sheet |-> page[s].sheet, phase |-> "submitting"]
    BY <1>2 DEF PageRow
  <2> QED BY <2>1, <2>2
<1>4. page' \in [Sessions -> PageRow]
  <2>1. [sheet |-> page[s].sheet, phase |-> "submitting"] \in PageRow
    BY <1>2 DEF PageRow, Phases
  <2> QED BY <1>1, <1>3, <2>1
<1> DEFINE final == [q \in Questions |->
                       IF q \in sessions[s].asked /\ page[s].sheet[q] = "none"
                       THEN "wrong" ELSE page[s].sheet[q]]
           r == [Idle EXCEPT !.stage = "save", !.session = s, !.awaited = TRUE,
                             !.todo = sessions[s].asked, !.final = final]
<1>5. final \in Sheet /\ RightOnes(final) = RightOnes(page[s].sheet)
  BY <1>2 DEF Sheet, Marks, RightOnes
<1>6. req' = [req EXCEPT ![p] = r]
  BY DEF Submit
<1> HIDE DEF final
<1>7. /\ r \in Request /\ r.stage = "save" /\ r.session = s /\ r.awaited = TRUE
      /\ r.todo = sessions[s].asked /\ r.final = final
  <2>1. Idle \in Request
    BY IdleType
  <2> QED BY <1>2, <1>5, <2>1 DEF Request, Stages
<1> HIDE DEF r
<1>8. /\ req' \in [Requests -> Request]
      /\ req'[p] = r
      /\ \A q \in Requests \ {p} : req'[q] = req[q]
      /\ \A q \in Requests : req'[q].stage # "idle" => req'[q].session \in Sessions
  BY <1>6, <1>7, RequestWrites
<1>9. ExamTypeOK'
  BY <1>4, <1>8 DEF Submit, ExamTypeOK, TypeOK, PageRow, At
<1>10. page'[s].sheet = page[s].sheet /\ page'[s].phase = "submitting"
       /\ \A t \in Sessions \ {s} : page'[t] = page[t]
  BY <1>1, <1>3
<1> QED BY <1>5, <1>7, <1>8, <1>9, <1>10

LEMMA SaveFinalWrites ==
    ASSUME ExamTypeOK, NEW p \in Requests, SaveFinal(p)
    PROVE  \E q \in req[p].todo :
               /\ ExamTypeOK'
               /\ req[p].session \in Sessions
               /\ q \in Questions
               /\ answers'[req[p].session][q] = req[p].final[q]
               /\ \A r \in Questions \ {q} : answers'[req[p].session][r] = answers[req[p].session][r]
               /\ \A t \in Sessions \ {req[p].session} : answers'[t] = answers[t]
               /\ req'[p].stage = "save"
               /\ req'[p].session = req[p].session
               /\ req'[p].final = req[p].final
               /\ req'[p].awaited = req[p].awaited
               /\ req'[p].todo = req[p].todo \ {q}
               /\ \A r \in Requests \ {p} : req'[r] = req[r]
<1>1. PICK q \in req[p].todo : /\ SaveAnswer(req[p].session, q, req[p].final[q])
                              /\ req' = [req EXCEPT ![p].todo = @ \ {q}]
  BY DEF SaveFinal
<1>2. /\ req[p] \in Request /\ req[p].stage = "save" /\ req[p].session \in Sessions
      /\ req[p].todo \subseteq Questions /\ req[p].final \in Sheet /\ q \in Questions
      /\ req[p].final[q] \in Marks
  BY DEF SaveFinal, ExamTypeOK, TypeOK, At, Request, Sheet
<1>3. /\ answers' \in [Sessions -> Sheet]
      /\ answers'[req[p].session][q] = req[p].final[q]
      /\ \A r \in Questions \ {q} : answers'[req[p].session][r] = answers[req[p].session][r]
      /\ \A t \in Sessions \ {req[p].session} : answers'[t] = answers[t]
  <2>1. PICK s \in Sessions, choice \in Marks : s = req[p].session /\ choice = req[p].final[q]
    BY <1>2
  <2>2. SaveAnswer(s, q, choice)
    BY <1>1, <2>1 DEF SaveAnswer
  <2>3. q \in Questions
    BY <1>2
  <2>4. Saved(s, q, choice)
    BY <2>2, <2>3, SaveWrites
  <2> QED BY <2>1, <2>4 DEF Saved
<1> DEFINE r == [req[p] EXCEPT !.todo = req[p].todo \ {q}]
<1>4. /\ r \in Request /\ r.stage = "save" /\ r.session = req[p].session
      /\ r.final = req[p].final /\ r.awaited = req[p].awaited /\ r.todo = req[p].todo \ {q}
  BY <1>2 DEF Request
<1>5. req' = [req EXCEPT ![p] = r]
  BY <1>1
<1> HIDE DEF r
<1>6. /\ req' \in [Requests -> Request]
      /\ req'[p] = r
      /\ \A t \in Requests \ {p} : req'[t] = req[t]
      /\ \A t \in Requests : req'[t].stage # "idle" => req'[t].session \in Sessions
  BY <1>2, <1>4, <1>5, RequestWrites
<1>7. ExamTypeOK'
  BY <1>3, <1>6 DEF SaveFinal, ExamTypeOK, TypeOK, At
<1> QED BY <1>1, <1>2, <1>3, <1>4, <1>6, <1>7

LEMMA DeliverWrites ==
    ASSUME ExamTypeOK, NEW m \in mail, DeliverSave(m)
    PROVE  /\ ExamTypeOK'
           /\ m.session \in Sessions /\ m.question \in Questions
           /\ \A r \in Questions \ {m.question} : answers'[m.session][r] = answers[m.session][r]
           /\ \A t \in Sessions \ {m.session} : answers'[t] = answers[t]
<1>1. m.session \in Sessions /\ m.question \in Questions /\ m.choice \in Marks
  BY DEF ExamTypeOK, TypeOK, Marks
<1>2. PICK s \in Sessions, q \in Questions, choice \in Marks :
         s = m.session /\ q = m.question /\ choice = m.choice
  BY <1>1
<1>3. SaveAnswer(s, q, choice)
  BY <1>2 DEF DeliverSave
<1>4. /\ answers' \in [Sessions -> Sheet]
      /\ \A r \in Questions \ {q} : answers'[s][r] = answers[s][r]
      /\ \A t \in Sessions \ {s} : answers'[t] = answers[t]
  BY <1>3, SaveWrites DEF Saved
<1>5. ExamTypeOK'
  BY <1>4 DEF DeliverSave, ExamTypeOK, TypeOK, At
<1> QED BY <1>1, <1>2, <1>4, <1>5

LEMMA LoseSaveType ==
    ASSUME ExamTypeOK, NEW m \in mail, LoseSave(m)
    PROVE  ExamTypeOK'
BY DEF LoseSave, ExamTypeOK, TypeOK, At

LEMMA ReloadWrites ==
    ASSUME ExamTypeOK, NEW p \in Requests, Reload(p)
    PROVE  /\ ExamTypeOK'
           /\ req[p].stage = "save" /\ req[p].todo = {}
           /\ req[p].session \in Sessions
           /\ req'[p].stage = "complete"
           /\ req'[p].session = req[p].session
           /\ req'[p].todo = {}
           /\ req'[p].right = RightOnes(answers[req[p].session])
           /\ req'[p].awaited = req[p].awaited
           /\ \A q \in Requests \ {p} : req'[q] = req[q]
<1>1. req[p] \in Request /\ req[p].stage = "save" /\ req[p].todo = {} /\ req[p].session \in Sessions
  BY DEF Reload, ExamTypeOK, TypeOK, At
<1> DEFINE right == RightOnes(answers[req[p].session])
           r == [req[p] EXCEPT !.stage = "complete", !.right = right]
<1>2. right \subseteq Questions
  BY DEF RightOnes
<1>3. req' = [req EXCEPT ![p] = r]
  BY DEF Reload
<1> HIDE DEF right
<1>4. /\ r \in Request /\ r.stage = "complete" /\ r.session = req[p].session /\ r.todo = req[p].todo
      /\ r.right = right /\ r.awaited = req[p].awaited
  BY <1>1, <1>2 DEF Request, Stages
<1> HIDE DEF r
<1>5. /\ req' \in [Requests -> Request]
      /\ req'[p] = r
      /\ \A q \in Requests \ {p} : req'[q] = req[q]
      /\ \A q \in Requests : req'[q].stage # "idle" => req'[q].session \in Sessions
  BY <1>1, <1>3, <1>4, RequestWrites
<1>6. ExamTypeOK'
  BY <1>5 DEF Reload, ExamTypeOK, TypeOK, At
<1> QED BY <1>1, <1>4, <1>5, <1>6 DEF right

LEMMA SubsetCount ==
    /\ \A right \in SUBSET Questions : Cardinality(right) \in Nat
    /\ Cardinality(Questions) \in Nat
<1>1. ASSUME NEW right \in SUBSET Questions PROVE Cardinality(right) \in Nat
  <2>1. IsFiniteSet(right)
    BY ExamAssumption, FS_Subset
  <2> QED BY <2>1, FS_CardinalityType
<1> QED BY <1>1

LEMMA CompleteWrites ==
    ASSUME ExamTypeOK, NEW p \in Requests, Complete(p)
    PROVE  /\ ExamTypeOK'
           /\ req[p].stage = "complete"
           /\ req[p].session \in Sessions
           /\ sessions'[req[p].session].status = "completed"
           /\ sessions'[req[p].session].asked = sessions[req[p].session].asked
           /\ sessions'[req[p].session].score = Cardinality(req[p].right)
           /\ \A t \in Sessions \ {req[p].session} : sessions'[t] = sessions[t]
           /\ req'[p].stage = "find"
           /\ req'[p].session = req[p].session
           /\ req'[p].todo = req[p].todo
           /\ req'[p].right = req[p].right
           /\ req'[p].awaited = req[p].awaited
           /\ \A q \in Requests \ {p} : req'[q] = req[q]
<1>1. req[p] \in Request /\ req[p].stage = "complete" /\ req[p].session \in Sessions
  BY DEF Complete, ExamTypeOK, TypeOK, At
<1>2. Cardinality(req[p].right) \in Nat
  <2>1. req[p].right \in SUBSET Questions
    BY <1>1 DEF Request
  <2> QED BY <2>1, SubsetCount
<1>3. PICK s \in Sessions : s = req[p].session
  BY <1>1
<1> DEFINE score == Cardinality(req[p].right)
           row == [sessions[s] EXCEPT !.status = "completed", !.score = score]
<1>4. sessions \in [Sessions -> SessionRow] /\ sessions[s] \in SessionRow
  BY DEF ExamTypeOK, TypeOK, SessionRow
<1>5. sessions' = [sessions EXCEPT ![s] = row]
  <2>1. sessions' = [sessions EXCEPT ![s].status = "completed", ![s].score = score]
    BY <1>3 DEF Complete
  <2> QED BY <1>4, <2>1
<1>6. /\ row \in SessionRow /\ row.status = "completed" /\ row.score = score
      /\ row.asked = sessions[s].asked
  <2> HIDE DEF score
  <2>1. score \in Nat
    BY <1>2 DEF score
  <2> QED BY <1>4, <2>1 DEF SessionRow, Statuses
<1>7. sessions' \in [Sessions -> SessionRow] /\ sessions'[s] = row
      /\ \A t \in Sessions \ {s} : sessions'[t] = sessions[t]
  <2> HIDE DEF row
  <2> QED BY <1>4, <1>5, <1>6
<1>8. GoTo(p, "find") /\ "find" \in Stages /\ req[p].stage # "idle"
  BY <1>1 DEF Complete, Stages
<1>9. /\ req' \in [Requests -> Request]
      /\ req'[p].stage = "find"
      /\ req'[p].session = req[p].session
      /\ req'[p].todo = req[p].todo
      /\ req'[p].right = req[p].right
      /\ req'[p].awaited = req[p].awaited
      /\ \A q \in Requests \ {p} : req'[q] = req[q]
      /\ \A q \in Requests : req'[q].stage # "idle" => req'[q].session \in Sessions
  BY <1>8, GoToWrites
<1>10. ExamTypeOK'
  BY <1>7, <1>9 DEF Complete, ExamTypeOK, TypeOK, At, SessionRow
<1> HIDE DEF row
<1> QED BY <1>1, <1>3, <1>6, <1>7, <1>9, <1>10

LEMMA FindWrites ==
    ASSUME ExamTypeOK, NEW p \in Requests, FindAnalytics(p)
    PROVE  /\ ExamTypeOK'
           /\ req[p].stage = "find"
           /\ req'[p].stage = "write"
           /\ req'[p].session = req[p].session
           /\ req'[p].todo = req[p].todo
           /\ req'[p].right = req[p].right
           /\ req'[p].existing = analytics
           /\ req'[p].awaited = req[p].awaited
           /\ \A q \in Requests \ {p} : req'[q] = req[q]
<1>1. req[p] \in Request /\ req[p].stage = "find" /\ req[p].session \in Sessions
  BY DEF FindAnalytics, ExamTypeOK, TypeOK, At
<1> DEFINE r == [req[p] EXCEPT !.stage = "write", !.existing = analytics]
<1>2. req' = [req EXCEPT ![p] = r]
  BY DEF FindAnalytics
<1>3. /\ r \in Request /\ r.stage = "write" /\ r.session = req[p].session /\ r.todo = req[p].todo
      /\ r.right = req[p].right /\ r.existing = analytics /\ r.awaited = req[p].awaited
  <2>1. analytics \in Analytics \cup {None}
    BY DEF ExamTypeOK, TypeOK
  <2> QED BY <1>1, <2>1 DEF Request, Stages
<1> HIDE DEF r
<1>4. /\ req' \in [Requests -> Request]
      /\ req'[p] = r
      /\ \A q \in Requests \ {p} : req'[q] = req[q]
      /\ \A q \in Requests : req'[q].stage # "idle" => req'[q].session \in Sessions
  BY <1>1, <1>2, <1>3, RequestWrites
<1>5. ExamTypeOK'
  BY <1>4 DEF FindAnalytics, ExamTypeOK, TypeOK, At
<1> QED BY <1>1, <1>3, <1>4, <1>5

LEMMA TotalsType ==
    ASSUME NEW existing \in Analytics \cup {None}, NEW right \in SUBSET Questions
    PROVE  Totals(existing, right) \in Analytics
<1> DEFINE old == IF existing = None THEN NoTotals ELSE existing
<1>1. Cardinality(right) \in Nat /\ Cardinality(Questions) \in Nat
  BY SubsetCount
<1>2. old \in Analytics
  BY DEF NoTotals, Analytics
<1>3. old.exams \in Nat /\ old.answered \in Nat /\ old.correct \in Nat
  BY <1>2 DEF Analytics
<1>4. Totals(existing, right) = [exams |-> old.exams + 1,
                                 answered |-> old.answered + Cardinality(Questions),
                                 correct |-> old.correct + Cardinality(right)]
  BY DEF Totals
<1> HIDE DEF old
<1> QED BY <1>1, <1>3, <1>4 DEF Analytics

LEMMA WriteWrites ==
    ASSUME ExamTypeOK, NEW p \in Requests, WriteAnalytics(p)
    PROVE  /\ ExamTypeOK'
           /\ req[p].stage = "write"
           /\ req'[p].stage = "award"
           /\ req'[p].session = req[p].session
           /\ req'[p].todo = req[p].todo
           /\ req'[p].right = req[p].right
           /\ req'[p].awaited = req[p].awaited
           /\ \A q \in Requests \ {p} : req'[q] = req[q]
<1>1. req[p] \in Request /\ req[p].stage = "write"
  BY DEF WriteAnalytics, ExamTypeOK, TypeOK, At
<1>2. analytics' \in Analytics \cup {None}
  <2>1. Totals(req[p].existing, req[p].right) \in Analytics
    BY <1>1, TotalsType DEF Request
  <2> QED BY <2>1 DEF WriteAnalytics, ExamTypeOK, TypeOK
<1>3. GoTo(p, "award") /\ "award" \in Stages
  BY DEF WriteAnalytics, Stages
<1>4. /\ req' \in [Requests -> Request]
      /\ req'[p].stage = "award"
      /\ req'[p].session = req[p].session
      /\ req'[p].todo = req[p].todo
      /\ req'[p].right = req[p].right
      /\ req'[p].awaited = req[p].awaited
      /\ \A q \in Requests \ {p} : req'[q] = req[q]
      /\ \A q \in Requests : req'[q].stage # "idle" => req'[q].session \in Sessions
  BY <1>1, <1>3, GoToWrites
<1>5. ExamTypeOK'
  BY <1>2, <1>4 DEF WriteAnalytics, ExamTypeOK, TypeOK, At
<1> QED BY <1>1, <1>4, <1>5

LEMMA AnalyticsFailWrites ==
    ASSUME ExamTypeOK, NEW p \in Requests, AnalyticsFail(p)
    PROVE  /\ ExamTypeOK'
           /\ req[p].stage \in {"find", "write"}
           /\ req'[p].stage = "award"
           /\ req'[p].session = req[p].session
           /\ req'[p].todo = req[p].todo
           /\ req'[p].right = req[p].right
           /\ req'[p].awaited = req[p].awaited
           /\ \A q \in Requests \ {p} : req'[q] = req[q]
<1>1. GoTo(p, "award") /\ "award" \in Stages /\ req[p].stage # "idle"
  BY DEF AnalyticsFail, Stages
<1>2. /\ req' \in [Requests -> Request]
      /\ req'[p].stage = "award"
      /\ req'[p].session = req[p].session
      /\ req'[p].todo = req[p].todo
      /\ req'[p].right = req[p].right
      /\ req'[p].awaited = req[p].awaited
      /\ \A q \in Requests \ {p} : req'[q] = req[q]
      /\ \A q \in Requests : req'[q].stage # "idle" => req'[q].session \in Sessions
  BY <1>1, GoToWrites
<1>3. ExamTypeOK'
  BY <1>2 DEF AnalyticsFail, ExamTypeOK, TypeOK, At
<1> QED BY <1>2, <1>3 DEF AnalyticsFail

LEMMA ExamEventsType ==
    ASSUME NEW s \in Sessions, NEW right
    PROVE  ExamEvents(s, right) \subseteq Events
<1>1. ASSUME NEW q \in Questions \cup {None}, NEW b \in BOOLEAN
      PROVE  [session |-> s, question |-> q, wasCorrect |-> b] \in Events
  BY DEF Events
<1>2. ASSUME NEW q \in Questions
      PROVE  [session |-> s, question |-> q, wasCorrect |-> q \in right] \in Events
  <2>1. (q \in right) \in BOOLEAN
    OBVIOUS
  <2>2. \A b \in BOOLEAN : [session |-> s, question |-> q, wasCorrect |-> b] \in Events
    BY <1>1
  <2> QED BY <2>1, <2>2, Zenon
<1>3. [session |-> s, question |-> None, wasCorrect |-> TRUE] \in Events
  BY <1>1
<1> QED BY <1>2, <1>3, Zenon DEF ExamEvents

LEMMA AwardWrites ==
    ASSUME ExamTypeOK, NEW p \in Requests, AwardXp(p)
    PROVE  /\ ExamTypeOK'
           /\ req[p].stage = "award"
           /\ req[p].session \in Sessions
           /\ ledger' \subseteq ledger \cup ExamEvents(req[p].session, req[p].right)
           /\ req'[p].stage = "respond"
           /\ req'[p].session = req[p].session
           /\ req'[p].todo = req[p].todo
           /\ req'[p].right = req[p].right
           /\ req'[p].awaited = req[p].awaited
           /\ \A q \in Requests \ {p} : req'[q] = req[q]
<1>1. req[p].stage = "award" /\ req[p].session \in Sessions
  BY DEF AwardXp, ExamTypeOK, TypeOK, At
<1>2. ledger' \subseteq ledger \cup ExamEvents(req[p].session, req[p].right)
  BY DEF AwardXp
<1>3. ledger' \subseteq Events
  <2>1. ExamEvents(req[p].session, req[p].right) \subseteq Events
    BY <1>1, ExamEventsType
  <2> QED BY <1>2, <2>1 DEF ExamTypeOK, TypeOK
<1>4. GoTo(p, "respond") /\ "respond" \in Stages
  BY DEF AwardXp, Stages
<1>5. /\ req' \in [Requests -> Request]
      /\ req'[p].stage = "respond"
      /\ req'[p].session = req[p].session
      /\ req'[p].todo = req[p].todo
      /\ req'[p].right = req[p].right
      /\ req'[p].awaited = req[p].awaited
      /\ \A q \in Requests \ {p} : req'[q] = req[q]
      /\ \A q \in Requests : req'[q].stage # "idle" => req'[q].session \in Sessions
  BY <1>1, <1>4, GoToWrites
<1>6. ExamTypeOK'
  BY <1>3, <1>5 DEF AwardXp, ExamTypeOK, TypeOK, At
<1> QED BY <1>1, <1>2, <1>5, <1>6

LEMMA FinishWrites ==
    ASSUME ExamTypeOK, NEW p \in Requests, Finish(p)
    PROVE  /\ req' \in [Requests -> Request]
           /\ req'[p] = Idle
           /\ req'[p].stage = "idle" /\ req'[p].awaited = FALSE
           /\ \A q \in Requests \ {p} : req'[q] = req[q]
           /\ \A q \in Requests : req'[q].stage # "idle" => req'[q].session \in Sessions
<1>1. Idle.stage = "idle" /\ Idle.awaited = FALSE
  BY DEF Idle
<1>2. req' = [req EXCEPT ![p] = Idle]
  BY DEF Finish
<1> HIDE DEF Idle
<1> QED BY <1>1, <1>2, IdleType, RequestWrites

LEMMA RespondWrites ==
    ASSUME ExamTypeOK, NEW p \in Requests, Respond(p)
    PROVE  /\ ExamTypeOK'
           /\ req[p].stage = "respond"
           /\ req[p].session \in Sessions
           /\ page'[req[p].session].sheet = page[req[p].session].sheet
           /\ page'[req[p].session].phase = IF req[p].awaited THEN "left"
                                            ELSE page[req[p].session].phase
           /\ \A t \in Sessions \ {req[p].session} : page'[t] = page[t]
           /\ req'[p].stage = "idle" /\ req'[p].awaited = FALSE
           /\ \A q \in Requests \ {p} : req'[q] = req[q]
<1>1. req[p].stage = "respond" /\ req[p].session \in Sessions
  BY DEF Respond, ExamTypeOK, TypeOK, At
<1>2. PICK s \in Sessions : s = req[p].session
  BY <1>1
<1> DEFINE phase == IF req[p].awaited THEN "left" ELSE page[s].phase
           row == [page[s] EXCEPT !.phase = phase]
<1>3. page \in [Sessions -> PageRow] /\ page[s] \in PageRow
  BY DEF ExamTypeOK, TypeOK, PageRow
<1>4. page' = [page EXCEPT ![s] = row]
  BY <1>2, <1>3 DEF Respond
<1>5. phase \in Phases
  BY <1>3 DEF PageRow, Phases
<1> HIDE DEF phase
<1>6. row \in PageRow /\ row.sheet = page[s].sheet /\ row.phase = phase
  BY <1>3, <1>5 DEF PageRow
<1> HIDE DEF row
<1>7. page' \in [Sessions -> PageRow] /\ page'[s] = row
      /\ \A t \in Sessions \ {s} : page'[t] = page[t]
  BY <1>3, <1>4, <1>6
<1>8. /\ req' \in [Requests -> Request]
      /\ req'[p].stage = "idle" /\ req'[p].awaited = FALSE
      /\ \A q \in Requests \ {p} : req'[q] = req[q]
      /\ \A q \in Requests : req'[q].stage # "idle" => req'[q].session \in Sessions
  BY FinishWrites DEF Respond
<1>9. ExamTypeOK'
  BY <1>7, <1>8 DEF Respond, ExamTypeOK, TypeOK, At, PageRow
<1> QED BY <1>1, <1>2, <1>6, <1>7, <1>8, <1>9 DEF phase

LEMMA LoseResponseWrites ==
    ASSUME ExamTypeOK, NEW p \in Requests, LoseResponse(p), req[p].stage # "idle"
    PROVE  /\ ExamTypeOK'
           /\ req[p].awaited
           /\ req[p].session \in Sessions
           /\ page'[req[p].session].sheet = page[req[p].session].sheet
           /\ page'[req[p].session].phase = "working"
           /\ \A t \in Sessions \ {req[p].session} : page'[t] = page[t]
           /\ req'[p].stage = req[p].stage
           /\ req'[p].session = req[p].session
           /\ req'[p].todo = req[p].todo
           /\ req'[p].right = req[p].right
           /\ req'[p].awaited = FALSE
           /\ \A q \in Requests \ {p} : req'[q] = req[q]
<1>1. req[p].awaited /\ req[p].session \in Sessions /\ req[p] \in Request
  BY DEF LoseResponse, ExamTypeOK, TypeOK, At
<1>2. PICK s \in Sessions : s = req[p].session
  BY <1>1
<1> DEFINE row == [page[s] EXCEPT !.phase = "working"]
           r == [req[p] EXCEPT !.awaited = FALSE]
<1>3. page \in [Sessions -> PageRow] /\ page[s] \in PageRow
  BY DEF ExamTypeOK, TypeOK, PageRow
<1>4. page' = [page EXCEPT ![s] = row]
  BY <1>2, <1>3 DEF LoseResponse
<1>5. row \in PageRow /\ row.sheet = page[s].sheet /\ row.phase = "working"
  BY <1>3 DEF PageRow, Phases
<1>6. /\ r \in Request /\ r.stage = req[p].stage /\ r.session = req[p].session
      /\ r.todo = req[p].todo /\ r.right = req[p].right /\ r.awaited = FALSE
  BY <1>1 DEF Request
<1>7. req' = [req EXCEPT ![p] = r]
  BY DEF LoseResponse
<1> HIDE DEF row, r
<1>8. page' \in [Sessions -> PageRow] /\ page'[s] = row
      /\ \A t \in Sessions \ {s} : page'[t] = page[t]
  BY <1>3, <1>4, <1>5
<1>9. /\ req' \in [Requests -> Request]
      /\ req'[p] = r
      /\ \A q \in Requests \ {p} : req'[q] = req[q]
      /\ \A q \in Requests : req'[q].stage # "idle" => req'[q].session \in Sessions
  BY <1>1, <1>6, <1>7, RequestWrites
<1>10. ExamTypeOK'
  BY <1>8, <1>9 DEF LoseResponse, ExamTypeOK, TypeOK, At, PageRow
<1> QED BY <1>1, <1>2, <1>5, <1>6, <1>8, <1>9, <1>10

LEMMA CrashWrites ==
    ASSUME ExamTypeOK, NEW p \in Requests, Crash(p)
    PROVE  /\ ExamTypeOK'
           /\ req[p].stage # "idle"
           /\ req[p].session \in Sessions
           /\ \A t \in Sessions : page'[t].sheet = page[t].sheet
           /\ req[p].awaited => page'[req[p].session].phase = "working"
           /\ ~req[p].awaited => page'[req[p].session].phase = page[req[p].session].phase
           /\ \A t \in Sessions \ {req[p].session} : page'[t] = page[t]
           /\ req'[p].stage = "idle" /\ req'[p].awaited = FALSE
           /\ \A q \in Requests \ {p} : req'[q] = req[q]
<1>1. req[p].stage # "idle" /\ req[p].session \in Sessions
  BY DEF Crash, ExamTypeOK, TypeOK, At
<1>2. page \in [Sessions -> PageRow]
  BY DEF ExamTypeOK, TypeOK, PageRow
<1>3. ASSUME NEW s \in Sessions
      PROVE  LET row == [page[s] EXCEPT !.phase = "working"]
             IN  row \in PageRow /\ row.sheet = page[s].sheet /\ row.phase = "working"
  <2>1. page[s] \in PageRow
    BY <1>2
  <2> QED BY <2>1 DEF PageRow, Phases
<1>4. \A s \in Sessions : page'[s] = IF s = req[p].session /\ req[p].awaited
                                      THEN [page[s] EXCEPT !.phase = "working"] ELSE page[s]
  BY DEF Crash
<1>5. page' \in [Sessions -> PageRow]
  BY <1>2, <1>3, <1>4 DEF Crash
<1>6. \A t \in Sessions : page'[t].sheet = page[t].sheet
  BY <1>3, <1>4
<1>7. /\ req[p].awaited => page'[req[p].session].phase = "working"
      /\ ~req[p].awaited => page'[req[p].session].phase = page[req[p].session].phase
      /\ \A t \in Sessions \ {req[p].session} : page'[t] = page[t]
  BY <1>1, <1>3, <1>4
<1>8. /\ req' \in [Requests -> Request]
      /\ req'[p].stage = "idle" /\ req'[p].awaited = FALSE
      /\ \A q \in Requests \ {p} : req'[q] = req[q]
      /\ \A q \in Requests : req'[q].stage # "idle" => req'[q].session \in Sessions
  BY FinishWrites DEF Crash
<1>9. ExamTypeOK'
  BY <1>5, <1>8 DEF Crash, ExamTypeOK, TypeOK, At, PageRow
<1> QED BY <1>1, <1>6, <1>7, <1>8, <1>9
--------------------------------------------------------------------------------
(***************************************************************************)
(* The invariants of exams                                                 *)
(***************************************************************************)
Active(p) == req[p].stage # "idle"

\* Nothing is stored for a question that is not asked, and a submission is
\* about a session that was started and, once past Complete, completed.
RowsAsked ==
    \A s \in Sessions :
        /\ sessions[s].status = "none" => sessions[s].asked = {} /\ page[s].phase = "closed"
        /\ \A q \in Questions \ sessions[s].asked :
              page[s].sheet[q] = "none" /\ answers[s][q] = "none"

WorkAsked ==
    \A p \in Requests :
        /\ req[p].awaited => Active(p)
        /\ \A s \in Sessions : Active(p) /\ req[p].session = s =>
              /\ sessions[s].status # "none"
              /\ req[p].todo \subseteq sessions[s].asked
              /\ \/ req[p].stage \in {"save", "complete"}
                 \/ sessions[s].status = "completed"

AskedInv ==
    /\ RowsAsked
    /\ WorkAsked
    /\ \A m \in mail : m.question \in sessions[m.session].asked

LEMMA AskedStep ==
    ASSUME ExamTypeOK, AskedInv, [Next]_vars
    PROVE  ExamTypeOK' /\ AskedInv'
<1> DEFINE Goal == ExamTypeOK' /\ AskedInv'
<1>0. /\ \A m \in mail : m.session \in Sessions /\ m.question \in Questions
      /\ req \in [Requests -> Request]
      /\ \A p \in Requests : Active(p) => req[p].session \in Sessions
      /\ \A s \in Sessions : sessions[s].asked \subseteq Questions
  BY DEF ExamTypeOK, TypeOK, At, Active
<1>1. ASSUME NEW s \in Sessions, NEW asked \in Selections, Start(s, asked) PROVE Goal
  <2>1. UNCHANGED <<mail, answers, req>>
    BY <1>1 DEF Start
  <2>2. /\ sessions'[s].status = "in_progress" /\ sessions'[s].asked = asked
        /\ page'[s].sheet = page[s].sheet
    BY <1>1, StartWrites
  <2> QED BY <1>0, <1>1, <2>1, <2>2, StartWrites DEF AskedInv, RowsAsked, WorkAsked, Active
<1>2. ASSUME NEW s \in Sessions, NEW q \in Questions, NEW choice \in {"right", "wrong"},
             Choose(s, q, choice)
      PROVE  Goal
  <2>1. /\ UNCHANGED <<sessions, answers, req>> /\ q \in sessions[s].asked
        /\ mail' = mail \cup {[session |-> s, question |-> q, choice |-> choice]}
    BY <1>2 DEF Choose
  <2>2. /\ page'[s].phase = page[s].phase
        /\ \A r \in Questions \ {q} : page'[s].sheet[r] = page[s].sheet[r]
    BY <1>2, ChooseWrites
  <2> QED BY <1>2, <2>1, <2>2, ChooseWrites DEF AskedInv, RowsAsked, WorkAsked, Active
<1>3. ASSUME NEW m \in mail, DeliverSave(m) PROVE Goal
  <2>1. UNCHANGED <<page, sessions, req>> /\ mail' = mail \ {m}
    BY <1>3 DEF DeliverSave
  <2> QED BY <1>3, <2>1, DeliverWrites DEF AskedInv, RowsAsked, WorkAsked, Active
<1>4. ASSUME NEW m \in mail, LoseSave(m) PROVE Goal
  <2>1. UNCHANGED <<page, sessions, answers, req>> /\ mail' = mail \ {m}
    BY <1>4 DEF LoseSave
  <2> QED BY <1>4, <2>1, LoseSaveType DEF AskedInv, RowsAsked, WorkAsked, Active
<1>5. ASSUME NEW p \in Requests, NEW s \in Sessions, Submit(p, s) PROVE Goal
  <2>1. UNCHANGED <<mail, sessions, answers>> /\ page[s].phase = "working"
    BY <1>5 DEF Submit
  <2>2. sessions[s].status # "none"
    BY <2>1 DEF AskedInv, RowsAsked
  <2>3. page'[s].sheet = page[s].sheet /\ \A t \in Sessions \ {s} : page'[t] = page[t]
    BY <1>5, SubmitWrites
  <2>4. RowsAsked'
    BY <2>1, <2>2, <2>3 DEF AskedInv, RowsAsked
  <2>5. /\ ExamTypeOK'
        /\ req'[p].stage = "save" /\ req'[p].session = s /\ req'[p].todo = sessions[s].asked
        /\ \A q \in Requests \ {p} : req'[q] = req[q]
    BY <1>5, SubmitWrites
  <2>6. WorkAsked'
    BY <2>1, <2>2, <2>5 DEF AskedInv, WorkAsked, Active
  <2> QED BY <2>1, <2>4, <2>5, <2>6 DEF AskedInv
<1>6. ASSUME NEW p \in Requests, SaveFinal(p) PROVE Goal
  <2>1. UNCHANGED <<page, mail, sessions>> /\ req[p].stage = "save"
    BY <1>6 DEF SaveFinal, At
  <2> QED BY <1>0, <1>6, <2>1, SaveFinalWrites DEF AskedInv, RowsAsked, WorkAsked, Active
<1>7. ASSUME NEW p \in Requests, Reload(p) PROVE Goal
  <2>1. UNCHANGED <<page, mail, sessions, answers>>
    BY <1>7 DEF Reload
  <2> QED BY <1>7, <2>1, ReloadWrites DEF AskedInv, RowsAsked, WorkAsked, Active
<1>8. ASSUME NEW p \in Requests, Complete(p) PROVE Goal
  <2>1. UNCHANGED <<page, mail, answers>>
    BY <1>8 DEF Complete
  <2> QED BY <1>0, <1>8, <2>1, CompleteWrites DEF AskedInv, RowsAsked, WorkAsked, Active
<1>9. ASSUME NEW p \in Requests, FindAnalytics(p) PROVE Goal
  <2>1. UNCHANGED <<page, mail, sessions, answers>>
    BY <1>9 DEF FindAnalytics
  <2> QED BY <1>9, <2>1, FindWrites DEF AskedInv, RowsAsked, WorkAsked, Active
<1>10. ASSUME NEW p \in Requests, WriteAnalytics(p) PROVE Goal
  <2>1. UNCHANGED <<page, mail, sessions, answers>>
    BY <1>10 DEF WriteAnalytics
  <2> QED BY <1>10, <2>1, WriteWrites DEF AskedInv, RowsAsked, WorkAsked, Active
<1>11. ASSUME NEW p \in Requests, AnalyticsFail(p) PROVE Goal
  <2>1. UNCHANGED <<page, mail, sessions, answers>>
    BY <1>11 DEF AnalyticsFail
  <2> QED BY <1>11, <2>1, AnalyticsFailWrites DEF AskedInv, RowsAsked, WorkAsked, Active
<1>12. ASSUME NEW p \in Requests, AwardXp(p) PROVE Goal
  <2>1. UNCHANGED <<page, mail, sessions, answers>>
    BY <1>12 DEF AwardXp
  <2> QED BY <1>12, <2>1, AwardWrites DEF AskedInv, RowsAsked, WorkAsked, Active
<1>13. ASSUME NEW p \in Requests, Respond(p) PROVE Goal
  <2>1. UNCHANGED <<mail, sessions, answers>>
    BY <1>13 DEF Respond
  <2>2. sessions[req[p].session].status # "none" /\ req[p].session \in Sessions
    BY <1>13, <2>1, RespondWrites DEF AskedInv, WorkAsked, Active
  <2>3. \A t \in Sessions : /\ page'[t].sheet = page[t].sheet
                            /\ sessions[t].status = "none" => page'[t].phase = page[t].phase
    BY <1>13, <2>1, <2>2, RespondWrites
  <2>4. RowsAsked'
    BY <2>1, <2>3 DEF AskedInv, RowsAsked
  <2>5. WorkAsked'
    <3>1. /\ req'[p].stage = "idle" /\ req'[p].awaited = FALSE
          /\ \A q \in Requests \ {p} : req'[q] = req[q]
      BY <1>13, RespondWrites
    <3> QED BY <2>1, <3>1 DEF AskedInv, WorkAsked, Active
  <2> QED BY <1>13, <2>1, <2>4, <2>5, RespondWrites DEF AskedInv
<1>14. ASSUME NEW p \in Requests, LoseResponse(p) PROVE Goal
  <2>1. UNCHANGED <<mail, sessions, answers>> /\ req[p].stage # "idle"
    BY <1>14 DEF LoseResponse, AskedInv, WorkAsked, Active
  <2>2. sessions[req[p].session].status # "none" /\ req[p].session \in Sessions
    BY <1>14, <2>1, LoseResponseWrites DEF AskedInv, WorkAsked, Active
  <2>3. \A t \in Sessions : /\ page'[t].sheet = page[t].sheet
                            /\ sessions[t].status = "none" => page'[t].phase = page[t].phase
    BY <1>14, <2>1, <2>2, LoseResponseWrites
  <2>4. RowsAsked'
    BY <2>1, <2>3 DEF AskedInv, RowsAsked
  <2>5. WorkAsked'
    <3>1. /\ req'[p].stage = req[p].stage /\ req'[p].session = req[p].session
          /\ req'[p].todo = req[p].todo /\ req'[p].awaited = FALSE
          /\ \A q \in Requests \ {p} : req'[q] = req[q]
      BY <1>14, <2>1, LoseResponseWrites
    <3> QED BY <2>1, <3>1 DEF AskedInv, WorkAsked, Active
  <2> QED BY <1>14, <2>1, <2>4, <2>5, LoseResponseWrites DEF AskedInv
<1>15. ASSUME NEW p \in Requests, Crash(p) PROVE Goal
  <2>1. UNCHANGED <<mail, sessions, answers>>
    BY <1>15 DEF Crash
  <2>2. sessions[req[p].session].status # "none" /\ req[p].session \in Sessions
    BY <1>15, <2>1, CrashWrites DEF AskedInv, WorkAsked, Active
  <2>3. \A t \in Sessions : /\ page'[t].sheet = page[t].sheet
                            /\ sessions[t].status = "none" => page'[t].phase = page[t].phase
    BY <1>15, <2>1, <2>2, CrashWrites
  <2>4. RowsAsked'
    BY <2>1, <2>3 DEF AskedInv, RowsAsked
  <2>5. WorkAsked'
    <3>1. /\ req'[p].stage = "idle" /\ req'[p].awaited = FALSE
          /\ \A q \in Requests \ {p} : req'[q] = req[q]
      BY <1>15, CrashWrites
    <3> QED BY <2>1, <3>1 DEF AskedInv, WorkAsked, Active
  <2> QED BY <1>15, <2>1, <2>4, <2>5, CrashWrites DEF AskedInv
<1>16. ASSUME UNCHANGED vars PROVE Goal
  BY <1>16 DEF vars, ExamTypeOK, TypeOK, At, AskedInv, RowsAsked, WorkAsked, Active
<1> HIDE DEF Goal
<1>17. Goal
  BY <1>1, <1>2, <1>3, <1>4, <1>5, <1>6, <1>7, <1>8, <1>9, <1>10, <1>11, <1>12, <1>13, <1>14,
     <1>15, <1>16 DEF Next, Work, Network, SubmitSession, UpdateUserAnalytics
<1> QED BY <1>17 DEF Goal
\* Either one slot is in use or nothing fails: two submissions of a session
\* cannot be on their way together.
Separate == Alone \/ ~env.faults

SlotInv ==
    /\ \A p \in Requests : Active(p) => p \in env.slots
    /\ \A p \in Requests, s \in Sessions :
          req[p].awaited /\ req[p].session = s => page[s].phase = "submitting"
    /\ \A p, q \in Requests :
          req[p].awaited /\ req[q].awaited /\ req[p].session = req[q].session => p = q
    /\ Separate =>
          /\ \A p, q \in Requests :
                Active(p) /\ Active(q) /\ req[p].session = req[q].session => p = q
          /\ \A p \in Requests, s \in Sessions :
                Active(p) /\ req[p].session = s => page[s].phase # "left"
    /\ ~env.faults => \A p \in Requests : Active(p) => req[p].awaited

LEMMA EnvStep == [Next]_vars => env' = env
BY DEF Next, Work, Network, SubmitSession, UpdateUserAnalytics, Start, Choose, DeliverSave, LoseSave,
       Submit, SaveFinal, Reload, Complete, FindAnalytics, WriteAnalytics, AnalyticsFail, AwardXp,
       Respond, LoseResponse, Crash, vars

LEMMA OneSlot ==
    ASSUME ExamTypeOK, Alone
    PROVE  \A p, q \in env.slots : p = q
<1>1. IsFiniteSet(Requests)
  BY ExamAssumption
<1>2. env.slots \in SUBSET Requests
  BY DEF ExamTypeOK, Environment
<1>3. IsFiniteSet(env.slots)
  BY <1>1, <1>2, FS_Subset
<1>4. \E p : env.slots = {p}
  BY <1>3, FS_Singleton DEF Alone
<1> QED BY <1>4

\* Steps that leave the pages where they are and start and answer nothing.
LEMMA SlotQuiet ==
    ASSUME SlotInv, env' = env,
           \A s \in Sessions : page'[s].phase = page[s].phase,
           \A p \in Requests : /\ req'[p].stage # "idle" <=> req[p].stage # "idle"
                               /\ req'[p].session = req[p].session
                               /\ req'[p].awaited = req[p].awaited
    PROVE  SlotInv'
BY DEF SlotInv, Separate, Alone, Active

LEMMA SlotStep ==
    ASSUME ExamTypeOK, AskedInv, SlotInv, [Next]_vars
    PROVE  SlotInv'
<1> DEFINE Goal == SlotInv'
<1>0. env' = env
  BY EnvStep
<1>1. ASSUME NEW s \in Sessions, NEW asked \in Selections, Start(s, asked) PROVE Goal
  <2>1. req' = req /\ page[s].phase = "closed"
    BY <1>1, StartWrites DEF Start, AskedInv, RowsAsked
  <2>2. page'[s].phase = "working" /\ \A t \in Sessions \ {s} : page'[t] = page[t]
    BY <1>1, StartWrites
  <2> QED BY <1>0, <2>1, <2>2 DEF SlotInv, Separate, Alone, Active
<1>2. ASSUME NEW s \in Sessions, NEW q \in Questions, NEW choice \in {"right", "wrong"},
             Choose(s, q, choice)
      PROVE  Goal
  <2>1. req' = req
    BY <1>2 DEF Choose
  <2>2. \A t \in Sessions : page'[t].phase = page[t].phase
    BY <1>2, ChooseWrites
  <2> QED BY <1>0, <2>1, <2>2, SlotQuiet
<1>3. ASSUME NEW m \in mail, DeliverSave(m) \/ LoseSave(m) PROVE Goal
  BY <1>0, <1>3, SlotQuiet DEF DeliverSave, LoseSave
<1>5. ASSUME NEW p \in Requests, NEW s \in Sessions, Submit(p, s) PROVE Goal
  <2>1. /\ req[p].stage = "idle" /\ p \in env.slots /\ page[s].phase = "working"
    BY <1>5 DEF Submit, At
  <2>2. page'[s].phase = "submitting" /\ \A t \in Sessions \ {s} : page'[t] = page[t]
    BY <1>5, SubmitWrites
  <2>3. /\ req'[p].stage = "save" /\ req'[p].session = s /\ req'[p].awaited = TRUE
        /\ \A q \in Requests \ {p} : req'[q] = req[q]
    BY <1>5, SubmitWrites
  <2>4. ASSUME NEW q \in Requests, q # p, req[q].session = s PROVE ~req[q].awaited
    BY <2>1, <2>4 DEF SlotInv
  <2>5. ASSUME Separate, NEW q \in Requests, q # p, req[q].session = s PROVE ~Active(q)
    <3>1. CASE ~env.faults
      BY <2>4, <2>5, <3>1 DEF SlotInv
    <3>2. CASE Alone
      BY <2>1, <2>5, <3>2, OneSlot DEF SlotInv
    <3> QED BY <2>5, <3>1, <3>2 DEF Separate
  <2>6. Separate' <=> Separate
    BY <1>0 DEF Separate, Alone
  <2>7. /\ \A q \in Requests : Active(q)' => q \in env'.slots
        /\ \A q \in Requests, t \in Sessions :
              req'[q].awaited /\ req'[q].session = t => page'[t].phase = "submitting"
        /\ \A q, r \in Requests :
              req'[q].awaited /\ req'[r].awaited /\ req'[q].session = req'[r].session => q = r
    BY <1>0, <2>1, <2>2, <2>3, <2>4 DEF SlotInv, Active
  <2>8. ASSUME Separate
        PROVE  /\ \A q, r \in Requests :
                     Active(q)' /\ Active(r)' /\ req'[q].session = req'[r].session => q = r
               /\ \A q \in Requests, t \in Sessions :
                     Active(q)' /\ req'[q].session = t => page'[t].phase # "left"
    BY <2>2, <2>3, <2>5, <2>8 DEF SlotInv, Active
  <2>9. ~env'.faults => \A q \in Requests : Active(q)' => req'[q].awaited
    BY <1>0, <2>3 DEF SlotInv, Active
  <2> QED BY <2>6, <2>7, <2>8, <2>9 DEF SlotInv
<1>6. ASSUME NEW p \in Requests, SaveFinal(p) PROVE Goal
  <2>1. page' = page /\ req[p].stage = "save"
    BY <1>6 DEF SaveFinal, At
  <2> QED BY <1>0, <1>6, <2>1, SaveFinalWrites, SlotQuiet
<1>7. ASSUME NEW p \in Requests, Reload(p) PROVE Goal
  <2>1. page' = page
    BY <1>7 DEF Reload
  <2> QED BY <1>0, <1>7, <2>1, ReloadWrites, SlotQuiet
<1>8. ASSUME NEW p \in Requests, Complete(p) PROVE Goal
  <2>1. page' = page
    BY <1>8 DEF Complete
  <2> QED BY <1>0, <1>8, <2>1, CompleteWrites, SlotQuiet
<1>9. ASSUME NEW p \in Requests, FindAnalytics(p) PROVE Goal
  <2>1. page' = page
    BY <1>9 DEF FindAnalytics
  <2> QED BY <1>0, <1>9, <2>1, FindWrites, SlotQuiet
<1>10. ASSUME NEW p \in Requests, WriteAnalytics(p) PROVE Goal
  <2>1. page' = page
    BY <1>10 DEF WriteAnalytics
  <2> QED BY <1>0, <1>10, <2>1, WriteWrites, SlotQuiet
<1>11. ASSUME NEW p \in Requests, AnalyticsFail(p) PROVE Goal
  <2>1. page' = page
    BY <1>11 DEF AnalyticsFail
  <2> QED BY <1>0, <1>11, <2>1, AnalyticsFailWrites, SlotQuiet
<1>12. ASSUME NEW p \in Requests, AwardXp(p) PROVE Goal
  <2>1. page' = page
    BY <1>12 DEF AwardXp
  <2> QED BY <1>0, <1>12, <2>1, AwardWrites, SlotQuiet
<1>13. ASSUME NEW p \in Requests, Respond(p) PROVE Goal
  <2>1. /\ req[p].stage = "respond" /\ req[p].session \in Sessions
        /\ page'[req[p].session].phase = IF req[p].awaited THEN "left"
                                         ELSE page[req[p].session].phase
        /\ \A t \in Sessions \ {req[p].session} : page'[t] = page[t]
    BY <1>13, RespondWrites
  <2>2. /\ req'[p].stage = "idle" /\ req'[p].awaited = FALSE
        /\ \A q \in Requests \ {p} : req'[q] = req[q]
    BY <1>13, RespondWrites
  <2> QED BY <1>0, <2>1, <2>2 DEF SlotInv, Separate, Alone, Active
<1>14. ASSUME NEW p \in Requests, LoseResponse(p) PROVE Goal
  <2>1. req[p].stage # "idle" /\ env.faults
    BY <1>14 DEF LoseResponse, AskedInv, WorkAsked, Active
  <2>2. /\ req[p].awaited /\ req[p].session \in Sessions
        /\ page'[req[p].session].phase = "working"
        /\ \A t \in Sessions \ {req[p].session} : page'[t] = page[t]
    BY <1>14, <2>1, LoseResponseWrites
  <2>3. /\ req'[p].stage = req[p].stage /\ req'[p].session = req[p].session
        /\ req'[p].awaited = FALSE
        /\ \A q \in Requests \ {p} : req'[q] = req[q]
    BY <1>14, <2>1, LoseResponseWrites
  <2> QED BY <1>0, <2>1, <2>2, <2>3 DEF SlotInv, Separate, Alone, Active
<1>15. ASSUME NEW p \in Requests, Crash(p) PROVE Goal
  <2>1. /\ req[p].stage # "idle" /\ req[p].session \in Sessions
        /\ req[p].awaited => page'[req[p].session].phase = "working"
        /\ ~req[p].awaited => page'[req[p].session].phase = page[req[p].session].phase
        /\ \A t \in Sessions \ {req[p].session} : page'[t] = page[t]
    BY <1>15, CrashWrites
  <2>2. /\ req'[p].stage = "idle" /\ req'[p].awaited = FALSE
        /\ \A q \in Requests \ {p} : req'[q] = req[q]
    BY <1>15, CrashWrites
  <2> QED BY <1>0, <2>1, <2>2 DEF SlotInv, Separate, Alone, Active
<1>16. ASSUME UNCHANGED vars PROVE Goal
  BY <1>16 DEF vars, SlotInv, Separate, Alone, Active
<1> HIDE DEF Goal
<1>17. Goal
  BY <1>1, <1>2, <1>3, <1>5, <1>6, <1>7, <1>8, <1>9, <1>10, <1>11, <1>12, <1>13, <1>14,
     <1>15, <1>16 DEF Next, Work, Network, SubmitSession, UpdateUserAnalytics
<1> QED BY <1>17 DEF Goal

\* Without failures a session is completed once, and its page never works on it
\* again.
OnceInv ==
    ~env.faults =>
        /\ \A p \in Requests, s \in Sessions :
              req[p].stage \in {"save", "complete"} /\ req[p].session = s
                  => sessions[s].status = "in_progress"
        /\ \A s \in Sessions :
              sessions[s].status = "completed" => page[s].phase \in {"submitting", "left"}

LEMMA OnceQuiet ==
    ASSUME OnceInv, env' = env,
           \A s \in Sessions : /\ page'[s].phase = page[s].phase
                               /\ sessions'[s].status = sessions[s].status,
           \A p \in Requests : req'[p].stage \in {"save", "complete"} =>
                                   /\ req[p].stage \in {"save", "complete"}
                                   /\ req'[p].session = req[p].session
    PROVE  OnceInv'
BY DEF OnceInv

LEMMA OnceStep ==
    ASSUME ExamTypeOK, AskedInv, SlotInv, OnceInv, [Next]_vars
    PROVE  OnceInv'
<1> DEFINE Goal == OnceInv'
<1>0. env' = env
  BY EnvStep
<1>1. ASSUME NEW s \in Sessions, NEW asked \in Selections, Start(s, asked) PROVE Goal
  <2>1. req' = req /\ sessions'[s].status = "in_progress"
    BY <1>1, StartWrites DEF Start
  <2>2. \A t \in Sessions \ {s} : sessions'[t] = sessions[t] /\ page'[t] = page[t]
    BY <1>1, StartWrites
  <2> QED BY <1>0, <2>1, <2>2 DEF OnceInv
<1>2. ASSUME NEW s \in Sessions, NEW q \in Questions, NEW choice \in {"right", "wrong"},
             Choose(s, q, choice)
      PROVE  Goal
  <2>1. req' = req /\ sessions' = sessions
    BY <1>2 DEF Choose
  <2>2. \A t \in Sessions : page'[t].phase = page[t].phase
    BY <1>2, ChooseWrites
  <2> QED BY <1>0, <2>1, <2>2, OnceQuiet
<1>3. ASSUME NEW m \in mail, DeliverSave(m) \/ LoseSave(m) PROVE Goal
  BY <1>0, <1>3, OnceQuiet DEF DeliverSave, LoseSave
<1>5. ASSUME NEW p \in Requests, NEW s \in Sessions, Submit(p, s) PROVE Goal
  <2>1. sessions' = sessions /\ page[s].phase = "working"
    BY <1>5 DEF Submit
  <2>2. page'[s].phase = "submitting" /\ \A t \in Sessions \ {s} : page'[t] = page[t]
    BY <1>5, SubmitWrites
  <2>3. /\ req'[p].stage = "save" /\ req'[p].session = s
        /\ \A q \in Requests \ {p} : req'[q] = req[q]
    BY <1>5, SubmitWrites
  <2>4. sessions[s].status \in Statuses /\ sessions[s].status # "none"
    BY <2>1 DEF ExamTypeOK, TypeOK, AskedInv, RowsAsked
  <2>5. ~env.faults => sessions[s].status = "in_progress"
    BY <2>1, <2>4 DEF OnceInv, Statuses
  <2> QED BY <1>0, <2>1, <2>2, <2>3, <2>5 DEF OnceInv
<1>6. ASSUME NEW p \in Requests, SaveFinal(p) PROVE Goal
  <2>1. page' = page /\ sessions' = sessions /\ req[p].stage = "save"
    BY <1>6 DEF SaveFinal, At
  <2> QED BY <1>0, <1>6, <2>1, SaveFinalWrites, OnceQuiet
<1>7. ASSUME NEW p \in Requests, Reload(p) PROVE Goal
  <2>1. page' = page /\ sessions' = sessions
    BY <1>7 DEF Reload
  <2> QED BY <1>0, <1>7, <2>1, ReloadWrites, OnceQuiet
<1>8. ASSUME NEW p \in Requests, Complete(p) PROVE Goal
  <2>1. page' = page
    BY <1>8 DEF Complete
  <2>2. /\ req[p].stage = "complete" /\ req[p].session \in Sessions
        /\ \A t \in Sessions \ {req[p].session} : sessions'[t] = sessions[t]
        /\ req'[p].stage = "find"
        /\ \A q \in Requests \ {p} : req'[q] = req[q]
    BY <1>8, CompleteWrites
  <2>3. ASSUME ~env.faults
        PROVE  /\ page[req[p].session].phase = "submitting"
               /\ \A q \in Requests : Active(q) /\ req[q].session = req[p].session => q = p
    BY <2>2, <2>3 DEF SlotInv, Active, Separate
  <2> QED BY <1>0, <2>1, <2>2, <2>3 DEF OnceInv, Active
<1>9. ASSUME NEW p \in Requests, FindAnalytics(p) PROVE Goal
  <2>1. page' = page /\ sessions' = sessions
    BY <1>9 DEF FindAnalytics
  <2> QED BY <1>0, <1>9, <2>1, FindWrites, OnceQuiet
<1>10. ASSUME NEW p \in Requests, WriteAnalytics(p) PROVE Goal
  <2>1. page' = page /\ sessions' = sessions
    BY <1>10 DEF WriteAnalytics
  <2> QED BY <1>0, <1>10, <2>1, WriteWrites, OnceQuiet
<1>11. ASSUME NEW p \in Requests, AwardXp(p) PROVE Goal
  <2>1. page' = page /\ sessions' = sessions
    BY <1>11 DEF AwardXp
  <2> QED BY <1>0, <1>11, <2>1, AwardWrites, OnceQuiet
<1>12. ASSUME NEW p \in Requests, Respond(p) PROVE Goal
  <2>1. sessions' = sessions
    BY <1>12 DEF Respond
  <2>2. /\ req[p].session \in Sessions
        /\ page'[req[p].session].phase = "left"
              \/ page'[req[p].session].phase = page[req[p].session].phase
        /\ \A t \in Sessions \ {req[p].session} : page'[t] = page[t]
        /\ req'[p].stage = "idle"
        /\ \A q \in Requests \ {p} : req'[q] = req[q]
    BY <1>12, RespondWrites
  <2> QED BY <1>0, <2>1, <2>2 DEF OnceInv
<1>13. ASSUME NEW p \in Requests, LoseResponse(p) \/ Crash(p) \/ AnalyticsFail(p) PROVE Goal
  BY <1>0, <1>13 DEF LoseResponse, Crash, AnalyticsFail, OnceInv
<1>14. ASSUME UNCHANGED vars PROVE Goal
  BY <1>14 DEF vars, OnceInv
<1> HIDE DEF Goal
<1>15. Goal
  BY <1>1, <1>2, <1>3, <1>5, <1>6, <1>7, <1>8, <1>9, <1>10, <1>11, <1>12, <1>13, <1>14
     DEF Next, Work, Network, SubmitSession, UpdateUserAnalytics
<1> QED BY <1>15 DEF Goal

\* No answer comes after the submission and no two submissions of a session
\* overlap.
Orderly == ~env.late /\ Separate

\* What the page was shown, is shown next or has sent is what is stored.
Shown(s) ==
    page[s].phase = "left" =>
        /\ RightOnes(answers[s]) = RightOnes(page[s].sheet)
        /\ sessions[s].score = Cardinality(RightOnes(page[s].sheet))

Serves(p, s) ==
    req[p].awaited /\ req[p].session = s =>
        /\ req[p].stage = "save" =>
              /\ RightOnes(req[p].final) = RightOnes(page[s].sheet)
              /\ \A q \in sessions[s].asked \ req[p].todo : answers[s][q] = req[p].final[q]
        /\ req[p].stage # "save" =>
              /\ req[p].right = RightOnes(answers[s])
              /\ req[p].right = RightOnes(page[s].sheet)
        /\ req[p].stage \in {"find", "write", "award", "respond"} =>
              sessions[s].score = Cardinality(req[p].right)

SheetInv ==
    Orderly =>
        /\ \A m \in mail : page[m.session].phase = "working"
        /\ \A s \in Sessions : Shown(s)
        /\ \A p \in Requests, s \in Sessions : Serves(p, s)

\* A step that changes one session's rows and one submission disturbs
\* nothing else.
LEMMA SheetStep ==
    ASSUME ExamTypeOK, AskedInv, SlotInv, SheetInv, [Next]_vars
    PROVE  SheetInv'
<1> DEFINE Goal == SheetInv'
<1>0. (Orderly' <=> Orderly) /\ (Orderly => ~env.late)
  BY EnvStep DEF Orderly, Separate, Alone
<1>a. /\ \A m \in mail : m.session \in Sessions
      /\ \A p \in Requests : req[p].awaited => Active(p)
      /\ \A p \in Requests : Active(p) => req[p].session \in Sessions
  BY DEF ExamTypeOK, TypeOK, At, Active, AskedInv, WorkAsked
<1>b. /\ \A p \in Requests, s \in Sessions :
            req[p].awaited /\ req[p].session = s => page[s].phase = "submitting"
      /\ Orderly =>
            /\ \A p, q \in Requests :
                  Active(p) /\ Active(q) /\ req[p].session = req[q].session => p = q
            /\ \A p \in Requests, s \in Sessions :
                  Active(p) /\ req[p].session = s => page[s].phase # "left"
  BY DEF SlotInv, Orderly
<1>1. ASSUME NEW s \in Sessions, NEW asked \in Selections, Start(s, asked) PROVE Goal
  <2>1. UNCHANGED <<mail, answers, req>> /\ page[s].phase = "closed"
    BY <1>1, StartWrites DEF Start, AskedInv, RowsAsked
  <2>2. /\ page'[s].phase = "working"
        /\ \A t \in Sessions \ {s} : sessions'[t] = sessions[t] /\ page'[t] = page[t]
    BY <1>1, StartWrites
  <2>3. \A p \in Requests : req[p].awaited => req[p].session # s
    BY <1>b, <2>1
  <2> QED BY <1>0, <1>a, <2>1, <2>2, <2>3 DEF SheetInv, Shown, Serves
<1>2. ASSUME NEW s \in Sessions, NEW q \in Questions, NEW choice \in {"right", "wrong"},
             Choose(s, q, choice)
      PROVE  Goal
  <2>1. /\ UNCHANGED <<sessions, answers, req>>
        /\ mail' = mail \cup {[session |-> s, question |-> q, choice |-> choice]}
        /\ Orderly => page[s].phase = "working"
    BY <1>0, <1>2 DEF Choose
  <2>2. page'[s].phase = page[s].phase /\ \A t \in Sessions \ {s} : page'[t] = page[t]
    BY <1>2, ChooseWrites
  <2>3. Orderly => \A p \in Requests : req[p].awaited => req[p].session # s
    BY <1>b, <2>1
  <2> QED BY <1>0, <1>a, <2>1, <2>2, <2>3 DEF SheetInv, Shown, Serves
<1>3. ASSUME NEW m \in mail, DeliverSave(m) PROVE Goal
  <2>1. UNCHANGED <<page, sessions, req>> /\ mail' = mail \ {m}
    BY <1>3 DEF DeliverSave
  <2>2. \A t \in Sessions \ {m.session} : answers'[t] = answers[t]
    BY <1>3, DeliverWrites
  <2>3. Orderly => page[m.session].phase = "working"
    BY DEF SheetInv
  <2>4. Orderly => \A p \in Requests : req[p].awaited => req[p].session # m.session
    BY <1>a, <1>b, <2>3
  <2> QED BY <1>0, <2>1, <2>2, <2>3, <2>4 DEF SheetInv, Shown, Serves
<1>4. ASSUME NEW m \in mail, LoseSave(m) PROVE Goal
  BY <1>0, <1>4 DEF LoseSave, SheetInv, Shown, Serves
<1>5. ASSUME NEW p \in Requests, NEW s \in Sessions, Submit(p, s) PROVE Goal
  <2>1. /\ UNCHANGED <<mail, sessions, answers>> /\ page[s].phase = "working"
        /\ Orderly => \A m \in mail : m.session # s
    BY <1>0, <1>5 DEF Submit
  <2>2. /\ page'[s].sheet = page[s].sheet /\ page'[s].phase = "submitting"
        /\ \A t \in Sessions \ {s} : page'[t] = page[t]
        /\ req'[p].stage = "save" /\ req'[p].session = s /\ req'[p].todo = sessions[s].asked
        /\ RightOnes(req'[p].final) = RightOnes(page[s].sheet)
        /\ \A q \in Requests \ {p} : req'[q] = req[q]
    BY <1>5, SubmitWrites
  <2>3. \A q \in Requests : req[q].awaited => req[q].session # s
    BY <1>b, <2>1
  <2> QED BY <1>0, <1>a, <2>1, <2>2, <2>3 DEF SheetInv, Shown, Serves
<1>6. ASSUME NEW p \in Requests, SaveFinal(p) PROVE Goal
  <2>1. UNCHANGED <<page, mail, sessions>> /\ req[p].stage = "save"
    BY <1>6 DEF SaveFinal, At
  <2>2. PICK q \in req[p].todo :
           /\ req[p].session \in Sessions
           /\ answers'[req[p].session][q] = req[p].final[q]
           /\ \A r \in Questions \ {q} : answers'[req[p].session][r] = answers[req[p].session][r]
           /\ \A t \in Sessions \ {req[p].session} : answers'[t] = answers[t]
           /\ req'[p].stage = "save"
           /\ req'[p].session = req[p].session
           /\ req'[p].final = req[p].final
           /\ req'[p].awaited = req[p].awaited
           /\ req'[p].todo = req[p].todo \ {q}
           /\ \A r \in Requests \ {p} : req'[r] = req[r]
    BY <1>6, SaveFinalWrites
  <2>3. PICK s \in Sessions : s = req[p].session
    BY <2>2
  <2>4. Orderly => page[s].phase # "left" /\ \A r \in Requests \ {p} : req[r].awaited => req[r].session # s
    BY <1>a, <1>b, <2>1, <2>3 DEF Active
  <2>5. sessions[s].asked \subseteq Questions
    BY DEF ExamTypeOK, TypeOK
  <2>6. Orderly => Serves(p, s)'
    <3> SUFFICES ASSUME Orderly, req[p].awaited PROVE Serves(p, s)'
      BY <2>2 DEF Serves
    <3>1. /\ RightOnes(req[p].final) = RightOnes(page[s].sheet)
          /\ \A r \in sessions[s].asked \ req[p].todo : answers[s][r] = req[p].final[r]
      BY <2>1, <2>3 DEF SheetInv, Serves
    <3>2. \A r \in sessions[s].asked \ req'[p].todo : answers'[s][r] = req[p].final[r]
      BY <2>2, <2>3, <2>5, <3>1
    <3> QED BY <2>1, <2>2, <2>3, <3>1, <3>2 DEF Serves
  <2> QED BY <1>0, <2>1, <2>2, <2>3, <2>4, <2>6 DEF SheetInv, Shown, Serves
<1>7. ASSUME NEW p \in Requests, Reload(p) PROVE Goal
  <2>1. UNCHANGED <<page, mail, sessions, answers>>
    BY <1>7 DEF Reload
  <2>2. /\ req[p].stage = "save" /\ req[p].todo = {}
        /\ req'[p].stage = "complete"
        /\ req'[p].session = req[p].session
        /\ req'[p].right = RightOnes(answers[req[p].session])
        /\ req'[p].awaited = req[p].awaited
        /\ \A q \in Requests \ {p} : req'[q] = req[q]
    BY <1>7, ReloadWrites
  <2>3. PICK s \in Sessions : s = req[p].session
    BY <1>7, ReloadWrites
  <2>4. ASSUME Orderly, req[p].awaited PROVE RightOnes(answers[s]) = RightOnes(page[s].sheet)
    <3>1. /\ RightOnes(req[p].final) = RightOnes(page[s].sheet)
          /\ \A q \in sessions[s].asked : answers[s][q] = req[p].final[q]
      BY <2>2, <2>3, <2>4 DEF SheetInv, Serves
    <3>2. \A q \in Questions \ sessions[s].asked :
             page[s].sheet[q] = "none" /\ answers[s][q] = "none"
      BY DEF AskedInv, RowsAsked
    <3> QED BY <3>1, <3>2 DEF RightOnes
  <2>5. Orderly => Serves(p, s)'
    BY <2>1, <2>2, <2>3, <2>4 DEF Serves
  <2> QED BY <1>0, <2>1, <2>2, <2>3, <2>5 DEF SheetInv, Shown, Serves
<1>8. ASSUME NEW p \in Requests, Complete(p) PROVE Goal
  <2>1. UNCHANGED <<page, mail, answers>>
    BY <1>8 DEF Complete
  <2>2. /\ req[p].stage = "complete" /\ req[p].session \in Sessions
        /\ sessions'[req[p].session].asked = sessions[req[p].session].asked
        /\ sessions'[req[p].session].score = Cardinality(req[p].right)
        /\ \A t \in Sessions \ {req[p].session} : sessions'[t] = sessions[t]
        /\ req'[p].stage = "find"
        /\ req'[p].session = req[p].session
        /\ req'[p].right = req[p].right
        /\ req'[p].awaited = req[p].awaited
        /\ \A q \in Requests \ {p} : req'[q] = req[q]
    BY <1>8, CompleteWrites
  <2>3. PICK s \in Sessions : s = req[p].session
    BY <2>2
  <2>4. Orderly => page[s].phase # "left" /\ \A r \in Requests \ {p} : req[r].awaited => req[r].session # s
    BY <1>a, <1>b, <2>2, <2>3 DEF Active
  <2>5. Orderly => Serves(p, s)'
    BY <2>1, <2>2, <2>3 DEF SheetInv, Serves
  <2> QED BY <1>0, <2>1, <2>2, <2>3, <2>4, <2>5 DEF SheetInv, Shown, Serves
<1>9. ASSUME NEW p \in Requests, FindAnalytics(p) \/ WriteAnalytics(p) \/ AnalyticsFail(p) \/ AwardXp(p)
      PROVE  Goal
  <2>1. UNCHANGED <<page, mail, sessions, answers>>
    BY <1>9 DEF FindAnalytics, WriteAnalytics, AnalyticsFail, AwardXp
  <2>2. /\ req[p].stage \in {"find", "write", "award"}
        /\ req'[p].stage \in {"write", "award", "respond"}
        /\ req'[p].session = req[p].session
        /\ req'[p].right = req[p].right
        /\ req'[p].awaited = req[p].awaited
        /\ \A q \in Requests \ {p} : req'[q] = req[q]
    BY <1>9, FindWrites, WriteWrites, AnalyticsFailWrites, AwardWrites
  <2> QED BY <1>0, <2>1, <2>2 DEF SheetInv, Shown, Serves
<1>10. ASSUME NEW p \in Requests, Respond(p) PROVE Goal
  <2>1. UNCHANGED <<mail, sessions, answers>>
    BY <1>10 DEF Respond
  <2>2. /\ req[p].stage = "respond" /\ req[p].session \in Sessions
        /\ page'[req[p].session].sheet = page[req[p].session].sheet
        /\ page'[req[p].session].phase = IF req[p].awaited THEN "left"
                                         ELSE page[req[p].session].phase
        /\ \A t \in Sessions \ {req[p].session} : page'[t] = page[t]
        /\ req'[p].awaited = FALSE
        /\ \A q \in Requests \ {p} : req'[q] = req[q]
    BY <1>10, RespondWrites
  <2>3. PICK s \in Sessions : s = req[p].session
    BY <2>2
  <2>4. Orderly => \A r \in Requests \ {p} : req[r].awaited => req[r].session # s
    BY <1>a, <1>b, <2>2, <2>3 DEF Active
  <2>5. Orderly => Shown(s)'
    BY <2>1, <2>2, <2>3 DEF SheetInv, Shown, Serves
  <2>6. Orderly /\ req[p].awaited => \A m \in mail : m.session # s
    BY <1>b, <2>3 DEF SheetInv
  <2>7. Orderly => \A m \in mail : page'[m.session].phase = "working"
    BY <1>a, <2>2, <2>3, <2>6 DEF SheetInv
  <2>8. Orderly => \A t \in Sessions : Shown(t)'
    BY <2>1, <2>2, <2>3, <2>5 DEF SheetInv, Shown
  <2>9. Orderly => \A q \in Requests, t \in Sessions : Serves(q, t)'
    BY <2>1, <2>2, <2>3, <2>4 DEF SheetInv, Serves
  <2> QED BY <1>0, <2>1, <2>7, <2>8, <2>9 DEF SheetInv
<1>11. ASSUME NEW p \in Requests, LoseResponse(p) \/ Crash(p) PROVE Goal
  <2>1. UNCHANGED <<mail, sessions, answers>> /\ req[p].stage # "idle"
    BY <1>11 DEF LoseResponse, Crash, AskedInv, WorkAsked, Active, At
  <2>2. /\ req[p].session \in Sessions
        /\ page'[req[p].session].sheet = page[req[p].session].sheet
        /\ \/ page'[req[p].session].phase = "working"
           \/ page'[req[p].session].phase = page[req[p].session].phase
        /\ \A t \in Sessions \ {req[p].session} : page'[t] = page[t]
        /\ req'[p].awaited = FALSE
        /\ \A q \in Requests \ {p} : req'[q] = req[q]
    BY <1>11, <2>1, LoseResponseWrites, CrashWrites
  <2> QED BY <1>0, <1>a, <2>1, <2>2 DEF SheetInv, Shown, Serves
<1>12. ASSUME UNCHANGED vars PROVE Goal
  BY <1>12, <1>0 DEF vars, SheetInv, Shown, Serves
<1> HIDE DEF Goal
<1>13. Goal
  BY <1>1, <1>2, <1>3, <1>4, <1>5, <1>6, <1>7, <1>8, <1>9, <1>10, <1>11, <1>12
     DEF Next, Work, Network, SubmitSession, UpdateUserAnalytics
<1> QED BY <1>13 DEF Goal

LEMMA CompletedStep ==
    ASSUME ExamTypeOK, AskedInv, [Next]_vars
    PROVE  \A s \in Sessions : sessions[s].status = "completed" => sessions'[s].status = "completed"
<1> DEFINE Goal == \A s \in Sessions :
                      sessions[s].status = "completed" => sessions'[s].status = "completed"
<1>1. ASSUME NEW s \in Sessions, NEW asked \in Selections, Start(s, asked) PROVE Goal
  BY <1>1, StartWrites
<1>2. ASSUME NEW p \in Requests, Complete(p) PROVE Goal
  BY <1>2, CompleteWrites
<1>3. ASSUME UNCHANGED sessions PROVE Goal
  BY <1>3
<1> HIDE DEF Goal
<1>4. Goal
  BY <1>1, <1>2, <1>3 DEF Next, Work, Network, SubmitSession, UpdateUserAnalytics, Choose, DeliverSave,
     LoseSave, Submit, SaveFinal, Reload, FindAnalytics, WriteAnalytics, AnalyticsFail, AwardXp,
     Respond, LoseResponse, Crash, vars
<1> QED BY <1>4 DEF Goal

\* The answers of a completed session are final when nothing fails and none
\* comes late.
LEMMA FrozenStep ==
    ASSUME ExamTypeOK, SlotInv, OnceInv, SheetInv, [Next]_vars, ~env.faults, ~env.late
    PROVE  \A s \in Sessions : sessions[s].status = "completed" => answers'[s] = answers[s]
<1> DEFINE Goal == \A s \in Sessions : sessions[s].status = "completed" => answers'[s] = answers[s]
<1>1. ASSUME NEW m \in mail, DeliverSave(m) PROVE Goal
  <2>1. page[m.session].phase = "working"
    BY DEF SheetInv, Orderly, Separate
  <2>2. \A t \in Sessions \ {m.session} : answers'[t] = answers[t]
    BY <1>1, DeliverWrites
  <2> QED BY <2>1, <2>2 DEF OnceInv
<1>2. ASSUME NEW p \in Requests, SaveFinal(p) PROVE Goal
  <2>1. req[p].stage = "save"
    BY <1>2 DEF SaveFinal, At
  <2>2. \A t \in Sessions \ {req[p].session} : answers'[t] = answers[t]
    BY <1>2, SaveFinalWrites
  <2> QED BY <2>1, <2>2 DEF OnceInv
<1>3. ASSUME UNCHANGED answers PROVE Goal
  BY <1>3
<1> HIDE DEF Goal
<1>4. Goal
  BY <1>1, <1>2, <1>3 DEF Next, Work, Network, SubmitSession, UpdateUserAnalytics, Start, Choose,
     LoseSave, Submit, Reload, Complete, FindAnalytics, WriteAnalytics, AnalyticsFail, AwardXp,
     Respond, LoseResponse, Crash, vars
<1> QED BY <1>4 DEF Goal

\* An event and the answer it was paid for.
Fits(e) ==
    e.question # None /\ ~env.late /\ ~env.faults =>
        (e.wasCorrect <=> answers[e.session][e.question] = "right")

LEMMA LedgerStep ==
    ASSUME ExamTypeOK, AskedInv, SlotInv, OnceInv, SheetInv, XpFollowsGrading, [Next]_vars
    PROVE  XpFollowsGrading'
<1>0. env' = env /\ ledger \subseteq Events
  BY EnvStep DEF ExamTypeOK, TypeOK
<1>1. ASSUME NEW e \in ledger PROVE (e.session \in Completed)' /\ Fits(e)'
  <2>1. e.session \in Sessions /\ sessions[e.session].status = "completed" /\ Fits(e)
    BY DEF XpFollowsGrading, Completed, Fits
  <2>2. sessions'[e.session].status = "completed"
    BY <2>1, CompletedStep
  <2>3. ~env.late /\ ~env.faults => answers'[e.session] = answers[e.session]
    BY <2>1, FrozenStep
  <2>4. Fits(e)'
    BY <1>0, <2>1, <2>3 DEF Fits
  <2> QED BY <2>1, <2>2, <2>4 DEF Completed
<1>2. ASSUME NEW p \in Requests, AwardXp(p), NEW e \in ExamEvents(req[p].session, req[p].right)
      PROVE  (e.session \in Completed)' /\ Fits(e)'
  <2>1. UNCHANGED <<sessions, answers>>
    BY <1>2 DEF AwardXp
  <2>2. req[p].stage = "award" /\ req[p].session \in Sessions
    BY <1>2, AwardWrites
  <2>3. sessions[req[p].session].status = "completed"
    BY <2>2 DEF AskedInv, WorkAsked, Active
  <2>4. e.session = req[p].session
    BY <1>2 DEF ExamEvents
  <2>5. ASSUME ~env.late, ~env.faults PROVE req[p].right = RightOnes(answers[req[p].session])
    BY <2>2, <2>5 DEF SlotInv, Active, SheetInv, Orderly, Separate, Serves
  <2>6. e.question # None =>
           e.question \in Questions /\ (e.wasCorrect <=> e.question \in req[p].right)
    <3>1. ASSUME NEW q \in Questions, NEW b \in BOOLEAN, b <=> q \in req[p].right,
                 e = [session |-> req[p].session, question |-> q, wasCorrect |-> b]
          PROVE  e.question \in Questions /\ (e.wasCorrect <=> e.question \in req[p].right)
      BY <3>1
    <3>2. ASSUME NEW q \in Questions,
                 e = [session |-> req[p].session, question |-> q,
                      wasCorrect |-> q \in req[p].right]
          PROVE  e.question \in Questions /\ (e.wasCorrect <=> e.question \in req[p].right)
      <4>1. (q \in req[p].right) \in BOOLEAN
        OBVIOUS
      <4> QED BY <3>1, <3>2, <4>1, Zenon
    <3>3. ASSUME e.question # None
          PROVE  \E q \in Questions : e = [session |-> req[p].session, question |-> q,
                                           wasCorrect |-> q \in req[p].right]
      <4>1. \/ \E q \in Questions : e = [session |-> req[p].session, question |-> q,
                                         wasCorrect |-> q \in req[p].right]
            \/ e = [session |-> req[p].session, question |-> None, wasCorrect |-> TRUE]
        BY <1>2, Zenon DEF ExamEvents
      <4>2. e # [session |-> req[p].session, question |-> None, wasCorrect |-> TRUE]
        BY <3>3
      <4> QED BY <4>1, <4>2, Zenon
    <3> QED BY <3>2, <3>3, Zenon
  <2>7. Fits(e)'
    <3> SUFFICES ASSUME e.question # None, ~env.late, ~env.faults
                 PROVE  e.wasCorrect <=> answers[req[p].session][e.question] = "right"
      BY <1>0, <2>1, <2>4 DEF Fits
    <3>1. e.question \in req[p].right <=> answers[req[p].session][e.question] = "right"
      BY <2>5, <2>6 DEF RightOnes
    <3> QED BY <2>6, <3>1
  <2> QED BY <2>1, <2>2, <2>3, <2>4, <2>7 DEF Completed
<1>3. \A e \in ledger' : (e.session \in Completed)' /\ Fits(e)'
  <2>1. ASSUME NEW p \in Requests, AwardXp(p)
        PROVE  \A e \in ledger' : (e.session \in Completed)' /\ Fits(e)'
    <3>1. ledger' \subseteq ledger \cup ExamEvents(req[p].session, req[p].right)
      BY <2>1, AwardWrites
    <3> QED BY <1>1, <1>2, <2>1, <3>1
  <2>2. CASE UNCHANGED ledger
    BY <1>1, <2>2
  <2> QED BY <2>1, <2>2 DEF Next, Work, Network, SubmitSession, UpdateUserAnalytics, Start, Choose,
           DeliverSave, LoseSave, Submit, SaveFinal, Reload, Complete, FindAnalytics, WriteAnalytics,
           AnalyticsFail, Respond, LoseResponse, Crash, vars
<1> QED BY <1>3 DEF XpFollowsGrading, Fits

--------------------------------------------------------------------------------
(***************************************************************************)
(* The totals of a learner                                                 *)
(*                                                                         *)
(* T is a set of sessions and w their scores.                              *)
(***************************************************************************)
AtMost(row, T, w) == row # None => row.exams <= Cardinality(T) /\ row.correct <= SumOver(w, T)

Exact(row, T, w) ==
    row = IF T = {} THEN None
          ELSE [exams |-> Cardinality(T), answered |-> Cardinality(T) * Cardinality(Questions),
                correct |-> SumOver(w, T)]

LEMMA CountAdds ==
    ASSUME NEW T, IsFiniteSet(T), NEW s, s \notin T, NEW w, \A i \in T \cup {s} : w[i] \in Nat
    PROVE  /\ Cardinality(T) \in Nat
           /\ Cardinality(T \cup {s}) = Cardinality(T) + 1
           /\ SumOver(w, T) \in Nat
           /\ SumOver(w, T \cup {s}) = w[s] + SumOver(w, T)
           /\ T = {} => Cardinality(T) = 0 /\ SumOver(w, T) = 0
<1>1. Cardinality(T) \in Nat /\ Cardinality(T \cup {s}) = Cardinality(T) + 1 /\ IsFiniteSet(T \cup {s})
  BY FS_AddElement, FS_CardinalityType
<1>2. SumOver(w, T) \in Nat
  BY SumIsNat
<1>3. SumOver(w, T \cup {s}) = w[s] + SumOver(w, T)
  <2> DEFINE S == T \cup {s}
  <2>1. IsFiniteSet(S) /\ s \in S /\ S \ {s} = T /\ \A i \in S : w[i] \in Nat
    BY <1>1
  <2> HIDE DEF S
  <2>2. SumOver(w, S) = w[s] + SumOver(w, S \ {s})
    BY <2>1, SumRemoves
  <2> QED BY <2>1, <2>2 DEF S
<1>4. T = {} => Cardinality(T) = 0 /\ SumOver(w, T) = 0
  BY FS_EmptySet, SumUnfolds
<1> QED BY <1>1, <1>2, <1>3, <1>4

LEMMA AtMostGrows ==
    ASSUME NEW T, IsFiniteSet(T), NEW s, s \notin T, NEW w, \A i \in T \cup {s} : w[i] \in Nat,
           NEW row \in Analytics \cup {None}, AtMost(row, T, w)
    PROVE  AtMost(row, T \cup {s}, w)
<1> SUFFICES ASSUME row # None PROVE AtMost(row, T \cup {s}, w)
  BY DEF AtMost
<1>1. row.exams \in Nat /\ row.correct \in Nat
  BY DEF Analytics
<1>2. row.exams <= Cardinality(T) /\ row.correct <= SumOver(w, T)
  BY DEF AtMost
<1>3. /\ Cardinality(T) \in Nat /\ Cardinality(T \cup {s}) = Cardinality(T) + 1
      /\ SumOver(w, T) \in Nat /\ SumOver(w, T \cup {s}) = w[s] + SumOver(w, T)
  BY CountAdds
<1>4. w[s] \in Nat
  OBVIOUS
<1> QED BY <1>1, <1>2, <1>3, <1>4 DEF AtMost

\* Adding a graded session to a row that covers at most T.
LEMMA TotalsAtMost ==
    ASSUME NEW T, IsFiniteSet(T), NEW s, s \notin T, NEW w, \A i \in T \cup {s} : w[i] \in Nat,
           NEW row \in Analytics \cup {None}, NEW right \in SUBSET Questions,
           w[s] = Cardinality(right), AtMost(row, T, w)
    PROVE  AtMost(Totals(row, right), T \cup {s}, w)
<1> DEFINE old == IF row = None THEN NoTotals ELSE row
<1>1. old.exams \in Nat /\ old.correct \in Nat
  BY DEF Analytics, NoTotals
<1>2. /\ Cardinality(T) \in Nat /\ Cardinality(T \cup {s}) = Cardinality(T) + 1
      /\ SumOver(w, T) \in Nat /\ SumOver(w, T \cup {s}) = w[s] + SumOver(w, T)
  BY CountAdds
<1>3. old.exams <= Cardinality(T) /\ old.correct <= SumOver(w, T)
  BY <1>2 DEF AtMost, NoTotals
<1>4. /\ Totals(row, right).exams = old.exams + 1
      /\ Totals(row, right).correct = old.correct + Cardinality(right)
  BY DEF Totals
<1>5. w[s] \in Nat
  OBVIOUS
<1> HIDE DEF old
<1> QED BY <1>1, <1>2, <1>3, <1>4, <1>5 DEF AtMost

LEMMA TotalsExact ==
    ASSUME NEW T, IsFiniteSet(T), NEW s, s \notin T, NEW w, \A i \in T \cup {s} : w[i] \in Nat,
           NEW row, NEW right \in SUBSET Questions,
           w[s] = Cardinality(right), Exact(row, T, w)
    PROVE  Exact(Totals(row, right), T \cup {s}, w)
<1> DEFINE old == IF row = None THEN NoTotals ELSE row
           n == Cardinality(T)
           c == Cardinality(Questions)
           sum == SumOver(w, T)
<1>1. /\ n \in Nat /\ Cardinality(T \cup {s}) = n + 1
      /\ sum \in Nat /\ SumOver(w, T \cup {s}) = w[s] + sum
      /\ T = {} => n = 0 /\ sum = 0
  BY CountAdds
<1>2. c \in Nat /\ w[s] \in Nat
  BY SubsetCount
<1>3. old.exams = n /\ old.answered = n * c /\ old.correct = sum
  <2>1. CASE T = {}
    <3>1. row = None
      BY <2>1 DEF Exact
    <3>2. 0 * c = 0
      <4> HIDE DEF c
      <4> QED BY <1>2
    <3> QED BY <1>1, <2>1, <3>1, <3>2 DEF NoTotals
  <2>2. CASE T # {}
    <3>1. row = [exams |-> n, answered |-> n * c, correct |-> sum]
      BY <2>2 DEF Exact
    <3>2. row \in Analytics
      <4>1. \A i, j \in Nat : i * j \in Nat
        OBVIOUS
      <4> HIDE DEF n, c, sum
      <4>2. n * c \in Nat
        BY <1>1, <1>2, <4>1
      <4> QED BY <1>1, <3>1, <4>2 DEF Analytics
    <3>3. row # None
      BY <3>2, ExamAssumption
    <3> HIDE DEF n, c, sum
    <3> QED BY <3>1, <3>3
  <2> QED BY <2>1, <2>2
<1>4. Totals(row, right) = [exams |-> old.exams + 1, answered |-> old.answered + c,
                            correct |-> old.correct + Cardinality(right)]
  BY DEF Totals
<1>5. Exact(Totals(row, right), T \cup {s}, w) <=>
          Totals(row, right) = [exams |-> n + 1, answered |-> (n + 1) * c, correct |-> w[s] + sum]
  BY <1>1 DEF Exact
<1> HIDE DEF old, n, c, sum
<1>6. (n + 1) * c = n * c + c
  BY <1>1, <1>2
<1>7. sum + w[s] = w[s] + sum
  BY <1>1, <1>2
<1> QED BY <1>3, <1>4, <1>5, <1>6, <1>7

LEMMA SameTotals ==
    ASSUME NEW T, IsFiniteSet(T), NEW v, NEW w, \A i \in T : v[i] = w[i], NEW row
    PROVE  (AtMost(row, T, v) <=> AtMost(row, T, w)) /\ (Exact(row, T, v) <=> Exact(row, T, w))
<1>1. SumOver(v, T) = SumOver(w, T)
  BY SumOfEquals
<1> QED BY <1>1 DEF AtMost, Exact

\* Completed sessions whose submission is done with the totals.
Tallied ==
    {s \in Sessions :
        /\ sessions[s].status = "completed"
        /\ \A p \in Requests : req[p].stage \in {"find", "write"} => req[p].session # s}

Scores == [s \in Sessions |-> sessions[s].score]

TotalsInv ==
    ~env.faults =>
        /\ AtMost(analytics, Tallied, Scores)
        /\ \A p \in Requests : req[p].stage = "write" => AtMost(req[p].existing, Tallied, Scores)
        /\ \A p \in Requests, s \in Sessions :
              req[p].stage \in {"find", "write"} /\ req[p].session = s
                  => sessions[s].score = Cardinality(req[p].right)
        /\ Alone => /\ Exact(analytics, Tallied, Scores)
                    /\ \A p \in Requests : req[p].stage = "write" => req[p].existing = analytics

LEMMA TalliedFacts ==
    ASSUME ExamTypeOK
    PROVE  /\ IsFiniteSet(Tallied) /\ Tallied \subseteq Sessions
           /\ \A s \in Sessions : Scores[s] = sessions[s].score /\ Scores[s] \in Nat
<1>1. IsFiniteSet(Sessions) /\ Tallied \in SUBSET Sessions
  BY ExamAssumption DEF Tallied
<1>2. \A s \in Sessions : sessions[s].score \in Nat
  BY DEF ExamTypeOK, TypeOK
<1> QED BY <1>1, <1>2, FS_Subset DEF Scores

\* Steps that complete no session, grade none and do not touch the totals.
LEMMA TotalsQuiet ==
    ASSUME ExamTypeOK, ExamTypeOK', TotalsInv, env' = env, analytics' = analytics,
           \A s \in Sessions : /\ sessions'[s].status = "completed" <=> sessions[s].status = "completed"
                               /\ sessions[s].status = "completed" => sessions'[s] = sessions[s],
           \A p \in Requests, s \in Sessions :
               req[p].stage \in {"find", "write"} /\ req[p].session = s => sessions'[s] = sessions[s],
           \A p \in Requests :
               \/ req'[p] = req[p]
               \/ /\ req[p].stage \notin {"find", "write"}
                  /\ req'[p].stage \notin {"find", "write"}
    PROVE  TotalsInv'
<1>1. Tallied' = Tallied
  BY DEF Tallied
<1>2. \A s \in Tallied : Scores[s] = Scores'[s]
  BY DEF Tallied, Scores
<1>3. IsFiniteSet(Tallied)
  BY TalliedFacts
<1>4. \A row : /\ AtMost(row, Tallied, Scores) <=> AtMost(row, Tallied', Scores')
               /\ Exact(row, Tallied, Scores) <=> Exact(row, Tallied', Scores')
  BY <1>1, <1>2, <1>3, SameTotals
<1>5. (Alone' <=> Alone) /\ (env'.faults <=> env.faults)
  BY DEF Alone
<1> SUFFICES ASSUME ~env.faults PROVE TotalsInv'
  BY <1>5 DEF TotalsInv
<1>6. AtMost(analytics', Tallied', Scores') /\ (Alone => Exact(analytics', Tallied', Scores'))
  BY <1>4 DEF TotalsInv
<1>7. ASSUME NEW p \in Requests, req'[p].stage \in {"find", "write"}
      PROVE  /\ req'[p] = req[p]
             /\ req'[p].stage = "write" => AtMost(req'[p].existing, Tallied', Scores')
             /\ \A s \in Sessions : req'[p].session = s => sessions'[s].score = Cardinality(req'[p].right)
             /\ Alone /\ req'[p].stage = "write" => req'[p].existing = analytics'
  <2>1. req'[p] = req[p]
    BY <1>7
  <2>2. req[p].stage = "write" => AtMost(req[p].existing, Tallied', Scores')
    BY <1>4 DEF TotalsInv
  <2>3. \A s \in Sessions : req[p].session = s => sessions'[s].score = Cardinality(req[p].right)
    BY <1>7, <2>1 DEF TotalsInv
  <2> QED BY <1>7, <2>1, <2>2, <2>3 DEF TotalsInv
<1> QED BY <1>5, <1>6, <1>7 DEF TotalsInv

LEMMA TotalsComplete ==
    ASSUME ExamTypeOK, ExamTypeOK', AskedInv, SlotInv, OnceInv, TotalsInv, env' = env,
           NEW p \in Requests, Complete(p)
    PROVE  TotalsInv'
<1>5. (Alone' <=> Alone) /\ (env'.faults <=> env.faults)
  BY DEF Alone
<1> SUFFICES ASSUME ~env.faults PROVE TotalsInv'
  BY <1>5 DEF TotalsInv
<1>1. /\ req[p].stage = "complete" /\ req[p].session \in Sessions
      /\ sessions'[req[p].session].status = "completed"
      /\ sessions'[req[p].session].score = Cardinality(req[p].right)
      /\ \A t \in Sessions \ {req[p].session} : sessions'[t] = sessions[t]
      /\ req'[p].stage = "find"
      /\ req'[p].session = req[p].session
      /\ req'[p].right = req[p].right
      /\ \A q \in Requests \ {p} : req'[q] = req[q]
      /\ analytics' = analytics
  BY CompleteWrites DEF Complete
<1>2. PICK s \in Sessions : s = req[p].session
  BY <1>1
<1>3. /\ sessions[s].status # "completed"
      /\ \A q \in Requests \ {p} : Active(q) => req[q].session # s
  BY <1>1, <1>2 DEF OnceInv, SlotInv, Separate, Active
<1>4. Tallied' = Tallied /\ s \notin Tallied
  BY <1>1, <1>2, <1>3 DEF Tallied
<1>6. \A t \in Tallied : Scores[t] = Scores'[t]
  BY <1>1, <1>2, <1>4 DEF Scores, Tallied
<1>7. \A row : /\ AtMost(row, Tallied, Scores) <=> AtMost(row, Tallied', Scores')
               /\ Exact(row, Tallied, Scores) <=> Exact(row, Tallied', Scores')
  BY <1>4, <1>6, TalliedFacts, SameTotals
<1>8. AtMost(analytics', Tallied', Scores') /\ (Alone => Exact(analytics', Tallied', Scores'))
  BY <1>1, <1>7 DEF TotalsInv
<1>9. \A q \in Requests : req'[q].stage = "write" =>
         AtMost(req'[q].existing, Tallied', Scores') /\ (Alone => req'[q].existing = analytics')
  BY <1>1, <1>7 DEF TotalsInv
<1>10. \A q \in Requests, t \in Sessions :
          req'[q].stage \in {"find", "write"} /\ req'[q].session = t
              => sessions'[t].score = Cardinality(req'[q].right)
  BY <1>1, <1>2, <1>3 DEF TotalsInv, Active
<1> QED BY <1>5, <1>8, <1>9, <1>10 DEF TotalsInv

LEMMA TotalsFind ==
    ASSUME ExamTypeOK, TotalsInv, env' = env, NEW p \in Requests, FindAnalytics(p)
    PROVE  TotalsInv'
<1>5. (Alone' <=> Alone) /\ (env'.faults <=> env.faults)
  BY DEF Alone
<1> SUFFICES ASSUME ~env.faults PROVE TotalsInv'
  BY <1>5 DEF TotalsInv
<1>1. /\ req[p].stage = "find" /\ req'[p].stage = "write"
      /\ req'[p].session = req[p].session
      /\ req'[p].right = req[p].right
      /\ req'[p].existing = analytics
      /\ \A q \in Requests \ {p} : req'[q] = req[q]
      /\ UNCHANGED <<analytics, sessions>>
  BY FindWrites DEF FindAnalytics
<1>2. Tallied' = Tallied /\ Scores' = Scores
  BY <1>1 DEF Tallied, Scores
<1>3. AtMost(analytics', Tallied', Scores') /\ (Alone => Exact(analytics', Tallied', Scores'))
  BY <1>1, <1>2 DEF TotalsInv
<1>4. \A q \in Requests : req'[q].stage = "write" =>
         AtMost(req'[q].existing, Tallied', Scores') /\ (Alone => req'[q].existing = analytics')
  BY <1>1, <1>2 DEF TotalsInv
<1>6. \A q \in Requests, t \in Sessions :
          req'[q].stage \in {"find", "write"} /\ req'[q].session = t
              => sessions'[t].score = Cardinality(req'[q].right)
  BY <1>1 DEF TotalsInv
<1> QED BY <1>3, <1>4, <1>5, <1>6 DEF TotalsInv

LEMMA TotalsWrite ==
    ASSUME ExamTypeOK, AskedInv, SlotInv, TotalsInv, env' = env, NEW p \in Requests,
           WriteAnalytics(p)
    PROVE  TotalsInv'
<1>5. (Alone' <=> Alone) /\ (env'.faults <=> env.faults)
  BY DEF Alone
<1> SUFFICES ASSUME ~env.faults PROVE TotalsInv'
  BY <1>5 DEF TotalsInv
<1>1. /\ req[p].stage = "write" /\ req'[p].stage = "award"
      /\ req'[p].session = req[p].session
      /\ \A q \in Requests \ {p} : req'[q] = req[q]
      /\ sessions' = sessions
      /\ analytics' = IF req[p].existing = None /\ analytics # None THEN analytics
                      ELSE Totals(req[p].existing, req[p].right)
  BY WriteWrites DEF WriteAnalytics
<1>2. PICK s \in Sessions : s = req[p].session
  BY <1>1 DEF ExamTypeOK, TypeOK, At
<1>3. /\ sessions[s].status = "completed"
      /\ \A q \in Requests \ {p} : Active(q) => req[q].session # s
  BY <1>1, <1>2 DEF AskedInv, WorkAsked, SlotInv, Separate, Active
<1>4. Tallied' = Tallied \cup {s} /\ s \notin Tallied /\ Scores' = Scores
  <2>1. s \notin Tallied /\ Scores' = Scores
    BY <1>1, <1>2 DEF Tallied, Scores
  <2>2. s \in Tallied'
    BY <1>1, <1>2, <1>3 DEF Tallied, Active
  <2>3. \A t \in Sessions \ {s} : t \in Tallied' <=> t \in Tallied
    BY <1>1, <1>2 DEF Tallied
  <2>4. Tallied \subseteq Sessions /\ Tallied' \subseteq Sessions
    BY DEF Tallied
  <2> QED BY <2>1, <2>2, <2>3, <2>4
<1>6. /\ IsFiniteSet(Tallied)
      /\ \A t \in Tallied \cup {s} : Scores[t] \in Nat
      /\ Scores[s] = Cardinality(req[p].right)
      /\ req[p].right \in SUBSET Questions
      /\ \A q \in Requests : req[q].existing \in Analytics \cup {None}
      /\ analytics \in Analytics \cup {None}
  <2>1. sessions[s].score = Cardinality(req[p].right)
    BY <1>1, <1>2 DEF TotalsInv
  <2>2. \A q \in Requests : req[q] \in Request
    BY DEF ExamTypeOK, TypeOK
  <2> QED BY <2>1, <2>2, TalliedFacts DEF Request, ExamTypeOK, TypeOK
<1>7. ASSUME NEW row \in Analytics \cup {None}, AtMost(row, Tallied, Scores)
      PROVE  AtMost(row, Tallied', Scores')
  BY <1>4, <1>6, <1>7, AtMostGrows
<1>8. AtMost(analytics', Tallied', Scores')
  <2>1. AtMost(analytics, Tallied', Scores')
    BY <1>6, <1>7 DEF TotalsInv
  <2>2. AtMost(req[p].existing, Tallied, Scores)
    BY <1>1 DEF TotalsInv
  <2>3. PICK row \in Analytics \cup {None}, right \in SUBSET Questions :
           row = req[p].existing /\ right = req[p].right
    BY <1>6
  <2>4. AtMost(Totals(row, right), Tallied \cup {s}, Scores)
    BY <1>4, <1>6, <2>2, <2>3, TotalsAtMost
  <2> QED BY <1>1, <1>4, <2>1, <2>3, <2>4
<1>9. ASSUME Alone
      PROVE  /\ Exact(analytics', Tallied', Scores')
             /\ \A q \in Requests : req'[q].stage # "write"
  <2>1. Exact(analytics, Tallied, Scores) /\ req[p].existing = analytics
    BY <1>1, <1>9 DEF TotalsInv
  <2>2. PICK row \in Analytics \cup {None}, right \in SUBSET Questions :
           row = req[p].existing /\ right = req[p].right
    BY <1>6
  <2>3. Exact(Totals(row, right), Tallied \cup {s}, Scores)
    BY <1>4, <1>6, <2>1, <2>2, TotalsExact
  <2>4. analytics' = Totals(row, right)
    BY <1>1, <2>1, <2>2
  <2>5. \A q \in Requests : req[q].stage = "write" => q = p
    BY <1>1, <1>9, OneSlot DEF SlotInv, Active
  <2>6. \A q \in Requests : req'[q].stage # "write"
    BY <1>1, <2>5
  <2> QED BY <1>4, <2>3, <2>4, <2>6
<1>10. \A q \in Requests : req'[q].stage = "write" => AtMost(req'[q].existing, Tallied', Scores')
  BY <1>1, <1>6, <1>7 DEF TotalsInv
<1>11. \A q \in Requests, t \in Sessions :
          req'[q].stage \in {"find", "write"} /\ req'[q].session = t
              => sessions'[t].score = Cardinality(req'[q].right)
  BY <1>1 DEF TotalsInv
<1> QED BY <1>5, <1>8, <1>9, <1>10, <1>11 DEF TotalsInv

LEMMA TotalsStep ==
    ASSUME ExamTypeOK, ExamTypeOK', AskedInv, SlotInv, OnceInv, TotalsInv, [Next]_vars
    PROVE  TotalsInv'
<1> DEFINE Goal == TotalsInv'
<1>0. env' = env
  BY EnvStep
<1>1. ASSUME NEW s \in Sessions, NEW asked \in Selections, Start(s, asked) PROVE Goal
  <2>1. /\ UNCHANGED <<req, analytics>> /\ sessions[s].status = "none"
        /\ sessions'[s].status = "in_progress"
        /\ \A t \in Sessions \ {s} : sessions'[t] = sessions[t]
    BY <1>1, StartWrites DEF Start
  <2>2. \A p \in Requests : req[p].stage \in {"find", "write"} => req[p].session # s
    BY <2>1 DEF AskedInv, WorkAsked, Active
  <2> QED BY <1>0, <2>1, <2>2, TotalsQuiet
<1>2. ASSUME UNCHANGED <<sessions, analytics, req>> PROVE Goal
  BY <1>0, <1>2, TotalsQuiet
<1>3. ASSUME NEW p \in Requests, UNCHANGED <<sessions, analytics>>,
             req[p].stage \notin {"find", "write"}, req'[p].stage \notin {"find", "write"},
             \A q \in Requests \ {p} : req'[q] = req[q]
      PROVE  Goal
  BY <1>0, <1>3, TotalsQuiet
<1>4. ASSUME NEW p \in Requests, NEW s \in Sessions, Submit(p, s) PROVE Goal
  <2>1. UNCHANGED <<sessions, analytics>> /\ req[p].stage = "idle"
    BY <1>4 DEF Submit, At
  <2>2. req'[p].stage = "save" /\ \A q \in Requests \ {p} : req'[q] = req[q]
    BY <1>4, SubmitWrites
  <2> QED BY <1>3, <2>1, <2>2
<1>5. ASSUME NEW p \in Requests, SaveFinal(p) \/ Reload(p) PROVE Goal
  <2>1. UNCHANGED <<sessions, analytics>> /\ req[p].stage = "save"
    BY <1>5 DEF SaveFinal, Reload, At
  <2>2. req'[p].stage \in {"save", "complete"} /\ \A q \in Requests \ {p} : req'[q] = req[q]
    BY <1>5, SaveFinalWrites, ReloadWrites
  <2> QED BY <1>3, <2>1, <2>2
<1>6. ASSUME NEW p \in Requests, Complete(p) PROVE Goal
  BY <1>0, <1>6, TotalsComplete
<1>7. ASSUME NEW p \in Requests, FindAnalytics(p) PROVE Goal
  BY <1>0, <1>7, TotalsFind
<1>8. ASSUME NEW p \in Requests, WriteAnalytics(p) PROVE Goal
  BY <1>0, <1>8, TotalsWrite
<1>9. ASSUME NEW p \in Requests, AwardXp(p) \/ Respond(p) PROVE Goal
  <2>1. UNCHANGED <<sessions, analytics>> /\ req[p].stage \in {"award", "respond"}
    BY <1>9 DEF AwardXp, Respond, At
  <2>2. req'[p].stage \in {"respond", "idle"} /\ \A q \in Requests \ {p} : req'[q] = req[q]
    BY <1>9, AwardWrites, RespondWrites
  <2> QED BY <1>3, <2>1, <2>2
<1>10. ASSUME NEW p \in Requests, LoseResponse(p) \/ Crash(p) \/ AnalyticsFail(p) PROVE Goal
  BY <1>0, <1>10 DEF LoseResponse, Crash, AnalyticsFail, TotalsInv
<1> HIDE DEF Goal
<1>11. Goal
  BY <1>1, <1>2, <1>4, <1>5, <1>6, <1>7, <1>8, <1>9, <1>10
     DEF Next, Work, Network, SubmitSession, UpdateUserAnalytics, Choose, DeliverSave, LoseSave, vars
<1> QED BY <1>11 DEF Goal

--------------------------------------------------------------------------------
ExamInv ==
    ExamTypeOK /\ AskedInv /\ SlotInv /\ OnceInv /\ SheetInv /\ XpFollowsGrading /\ TotalsInv

LEMMA ExamInit == Init => ExamInv
<1> SUFFICES ASSUME Init PROVE ExamInv
  OBVIOUS
<1>1. ExamTypeOK
  BY ExamTypeInit
<1>2. /\ \A p \in Requests : req[p].stage = "idle" /\ req[p].awaited = FALSE
      /\ mail = {} /\ ledger = {} /\ analytics = None
      /\ \A s \in Sessions : /\ page[s].sheet = Blank /\ page[s].phase = "closed"
                             /\ sessions[s].status = "none" /\ sessions[s].asked = {}
                             /\ answers[s] = Blank
  BY DEF Init, Idle
<1>3. AskedInv
  BY <1>2 DEF AskedInv, RowsAsked, WorkAsked, Active, Blank
<1>4. SlotInv /\ OnceInv /\ SheetInv /\ XpFollowsGrading
  BY <1>2 DEF SlotInv, OnceInv, SheetInv, Shown, Serves, XpFollowsGrading, Active
<1>5. TotalsInv
  <2>1. Tallied = {}
    BY <1>2 DEF Tallied
  <2> QED BY <1>2, <2>1 DEF TotalsInv, AtMost, Exact
<1> QED BY <1>1, <1>3, <1>4, <1>5 DEF ExamInv

LEMMA ExamStep == ExamInv /\ [Next]_vars => ExamInv'
<1> SUFFICES ASSUME ExamInv, [Next]_vars PROVE ExamInv'
  OBVIOUS
<1>1. /\ ExamTypeOK /\ AskedInv /\ SlotInv /\ OnceInv /\ SheetInv /\ XpFollowsGrading /\ TotalsInv
  BY DEF ExamInv
<1>2. ExamTypeOK' /\ AskedInv'
  BY <1>1, AskedStep
<1>3. SlotInv' /\ OnceInv' /\ SheetInv' /\ XpFollowsGrading'
  BY <1>1, SlotStep, OnceStep, SheetStep, LedgerStep
<1>4. TotalsInv'
  BY <1>1, <1>2, TotalsStep
<1> QED BY <1>2, <1>3, <1>4 DEF ExamInv

LEMMA ExamInvHolds == Spec => []ExamInv
BY ExamInit, ExamStep, PTL DEF Spec

\* ExamSession: tables, pages, mail and the locals of the submissions keep
\* their types, on any number of questions, sessions and submissions.
THEOREM ExamsAreTyped == Spec => []TypeOK
<1>1. ExamInv => TypeOK
  BY DEF ExamInv, ExamTypeOK
<1> QED BY <1>1, ExamInvHolds, PTL

\* ExamSession: a learner who was shown the results was graded on exactly the
\* answers on the page and those are stored, in whatever order saves arrived
\* and whichever were lost, and whatever failed in between while one slot is in use.
THEOREM ResultsAreOfTheSheet == Spec => []ServedAsSubmitted
<1>1. ExamInv => ServedAsSubmitted
  BY DEF ExamInv, SheetInv, Orderly, Separate, Shown, ServedAsSubmitted
<1> QED BY <1>1, ExamInvHolds, PTL

\* ExamSession: XP stands for completed exams only and, when nothing fails and
\* no answer is late, for the outcomes that are stored.
THEOREM ExamXpIsEarned == Spec => []XpFollowsGrading
<1>1. ExamInv => XpFollowsGrading
  BY DEF ExamInv
<1> QED BY <1>1, ExamInvHolds, PTL

\* The answers of a completed exam stay, if nothing fails and none comes late.
LockedInOrder ==
    [][~env.faults /\ ~env.late =>
          \A s \in Sessions : sessions[s].status = "completed" => answers'[s] = answers[s]]_vars

\* ExamSession: as far as AnswersLocked, the promise of the dialog that submits,
\* is kept.  Without faults and without answers after the submission, no save
\* still in the mail and no second submission reaches a graded answer.
THEOREM GradedAnswersAreLocked == Spec => LockedInOrder
<1>1. ASSUME ExamInv, [Next]_vars
      PROVE  [~env.faults /\ ~env.late =>
                 \A s \in Sessions :
                     sessions[s].status = "completed" => answers'[s] = answers[s]]_vars
  BY <1>1, FrozenStep DEF ExamInv
<1> QED BY <1>1, ExamInvHolds, PTL DEF Spec, LockedInOrder

\* Adding scores of sessions is adding the function Scores.
LEMMA ScoresAreSummed ==
    ASSUME NEW S \in SUBSET Sessions
    PROVE  MapThenSumSet(LAMBDA s : sessions[s].score, S) = SumOver(Scores, S)
<1> DEFINE w == Scores
           ScoreStep(g, s) == IF s = {} THEN 0
                              ELSE sessions[Picked(s)].score + g[s \ {Picked(s)}]
<1>0. IsFiniteSet(S)
  BY ExamAssumption, FS_Subset
<1>1. MapThenSumSet(LAMBDA s : sessions[s].score, S)
          = (CHOOSE g : g = [s \in SUBSET S |-> ScoreStep(g, s)])[S]
  BY DEF MapThenSumSet, MapThenFoldSet, Picked
<1>2. ASSUME NEW g PROVE [s \in SUBSET S |-> ScoreStep(g, s)] = [s \in SUBSET S |-> SumStep(w, g, s)]
  <2>1. ASSUME NEW s \in SUBSET S, s # {} PROVE w[Picked(s)] = sessions[Picked(s)].score
    BY <2>1, PickedIsMember DEF Scores
  <2> HIDE DEF w
  <2> QED BY <2>1 DEF SumStep
<1> HIDE DEF w
<1>3. PICK f : Adds(w, S, f) /\ SumOver(w, S) = f[S]
  BY <1>0, SumIsAdded
<1> DEFINE h == CHOOSE g : g = [s \in SUBSET S |-> ScoreStep(g, s)]
<1>4. Adds(w, S, h)
  <2>1. f = [s \in SUBSET S |-> ScoreStep(f, s)]
    BY <1>2, <1>3 DEF Adds
  <2>2. h = [s \in SUBSET S |-> ScoreStep(h, s)]
    <3> HIDE DEF ScoreStep
    <3> QED BY <2>1
  <2> HIDE DEF h
  <2>3. h = [s \in SUBSET S |-> SumStep(w, h, s)]
    BY <1>2, <2>2
  <2> QED BY <2>3 DEF Adds
<1>5. h[S] = f[S]
  <2> HIDE DEF h
  <2> QED BY <1>0, <1>3, <1>4, AddsAgree
<1> QED BY <1>1, <1>3, <1>5 DEF w

\* ExamSession: when nothing fails, the totals of one submission at a time are
\* the sums over the completed sessions, and those of submissions that overlap
\* never exceed them.
THEOREM TotalsStandForExams == Spec => []AnalyticsMatchSessions
<1>1. ASSUME ExamInv PROVE AnalyticsMatchSessions
  <2> DEFINE correct == MapThenSumSet(LAMBDA s : sessions[s].score, Completed)
  <2>0. ExamTypeOK /\ TotalsInv /\ Completed \in SUBSET Sessions /\ IsFiniteSet(Sessions)
    BY <1>1, ExamAssumption DEF ExamInv, Completed
  <2>1. correct = SumOver(Scores, Completed)
    BY <2>0, ScoresAreSummed
  <2> HIDE DEF correct
  <2>2. IsFiniteSet(Completed) /\ \A s \in Completed : Scores[s] \in Nat
    BY <2>0, TalliedFacts, FS_Subset
  <2>3. Tallied \in SUBSET Completed
    BY DEF Tallied, Completed
  <2>4. /\ Cardinality(Tallied) <= Cardinality(Completed)
        /\ Cardinality(Tallied) \in Nat /\ Cardinality(Completed) \in Nat
    BY <2>0, <2>2, <2>3, TalliedFacts, FS_Subset, FS_CardinalityType
  <2>5. /\ SumOver(Scores, Tallied) <= SumOver(Scores, Completed)
        /\ SumOver(Scores, Tallied) \in Nat /\ SumOver(Scores, Completed) \in Nat
    <3>1. IsFiniteSet(Tallied) /\ \A s \in Tallied : Scores[s] \in Nat
      BY <2>0, <2>2, <2>3, TalliedFacts
    <3> QED BY <2>2, <2>3, <3>1, SumOfSubset, SumIsNat
  <2>6. ASSUME ~env.faults, analytics # None
        PROVE  analytics.exams <= Cardinality(Completed) /\ analytics.correct <= correct
    <3>1. analytics.exams <= Cardinality(Tallied) /\ analytics.correct <= SumOver(Scores, Tallied)
      BY <2>0, <2>6 DEF TotalsInv, AtMost
    <3>2. analytics.exams \in Nat /\ analytics.correct \in Nat
      BY <2>0, <2>6 DEF ExamTypeOK, TypeOK, Analytics
    <3> QED BY <2>1, <2>4, <2>5, <3>1, <3>2
  <2>7. ASSUME Alone, ~env.faults, Quiet, Completed # {}
        PROVE  analytics = [exams |-> Cardinality(Completed),
                            answered |-> Cardinality(Completed) * Cardinality(Questions),
                            correct |-> correct]
    <3>1. Tallied = Completed
      BY <2>7 DEF Tallied, Completed, Quiet, At
    <3> QED BY <2>0, <2>1, <2>7, <3>1 DEF TotalsInv, Exact
  <2> QED BY <2>6, <2>7 DEF AnalyticsMatchSessions, correct
<1> QED BY <1>1, ExamInvHolds, PTL

--------------------------------------------------------------------------------
(***************************************************************************)
(* The daily queue                                                         *)
(***************************************************************************)
LEMMA DayAssumption ==
    /\ IsFiniteSet(DeckCards)
    /\ DayLength \in Nat /\ DayLength > 0
    /\ Cutoff \in Nat
    /\ NewTarget \in Nat /\ ReviewCeiling \in Nat /\ LastInstant \in Nat
    /\ MaxSessions \in Nat /\ MaxAnswers \in Nat
    /\ MaxCards \in Nat /\ MaxCards > 0
    /\ ForecastDays \in Nat /\ ForecastDays > 0
BY DailyAssumption

LEMMA Divides ==
    ASSUME NEW n \in Nat, NEW d \in Nat, d > 0
    PROVE  /\ n \div d \in Nat
           /\ n % d \in 0 .. d - 1
           /\ n = (n \div d) * d + (n % d)
OBVIOUS

LEMMA MultiplesApart ==
    ASSUME NEW p \in Nat, NEW q \in Nat, NEW d \in Nat, q < p
    PROVE  q * d + d <= p * d
<1> DEFINE r == p - q - 1
<1>1. r \in Nat /\ p = q + 1 + r
  OBVIOUS
<1>2. p * d = q * d + d + r * d
  BY <1>1
<1>3. r * d \in Nat /\ q * d \in Nat
  <2>1. \A a, b \in Nat : a * b \in Nat
    OBVIOUS
  <2> QED BY <1>1, <2>1
<1> QED BY <1>2, <1>3

LEMMA DatesGrow ==
    ASSUME NEW a \in Nat, NEW b \in Nat
    PROVE  /\ DateOf(a) \in Nat
           /\ a <= b => DateOf(a) <= DateOf(b)
           /\ DateOf(a) = DateOf(b) => a >= b - (b % DayLength)
<1> DEFINE p == a \div DayLength
           q == b \div DayLength
           r == a % DayLength
           s == b % DayLength
<1>1. /\ p \in Nat /\ q \in Nat /\ r \in 0 .. DayLength - 1 /\ s \in 0 .. DayLength - 1
      /\ a = p * DayLength + r /\ b = q * DayLength + s
  BY DayAssumption, Divides
<1>2. DateOf(a) = p /\ DateOf(b) = q
  BY DEF DateOf
<1>3. p * DayLength \in Nat /\ q * DayLength \in Nat
  <2>1. \A x, y \in Nat : x * y \in Nat
    OBVIOUS
  <2> QED BY <1>1, <2>1, DayAssumption
<1>4. q < p => q * DayLength + DayLength <= p * DayLength
  BY <1>1, DayAssumption, MultiplesApart
<1> HIDE DEF p, q, r, s
<1>5. a <= b => p <= q
  <2> SUFFICES ASSUME q < p PROVE a > b
    BY <1>1
  <2> QED BY <1>1, <1>3, <1>4, DayAssumption
<1>6. p = q => a >= b - s
  BY <1>1, <1>3
<1> QED BY <1>1, <1>2, <1>5, <1>6 DEF s

\* A non-empty set of positions has a greatest and a least one.
LEMMA ExtremePositions ==
    ASSUME NEW n \in Nat, NEW S \in SUBSET (0 .. n), S # {}
    PROVE  /\ Max(S) \in S /\ \A y \in S : y <= Max(S)
           /\ Min(S) \in S /\ \A y \in S : Min(S) <= y
<1> DEFINE R == OpToRel(<, Nat)
           T == {n - i : i \in S}
<1>1. IsWellFoundedOn(R, Nat)
  BY NatLessThanWellFounded
<1>2. \A x, y \in Nat : y < x => <<y, x>> \in R
  BY DEF OpToRel
<1>3. S \subseteq Nat /\ T \subseteq Nat /\ T # {}
  <2>1. \A i \in S : i \in Nat /\ n - i \in Nat
    OBVIOUS
  <2> QED BY <2>1
<1> HIDE DEF R
<1>4. PICK x \in T : \A y \in T : ~(<<y, x>> \in R)
  BY <1>1, <1>3, WFMin
<1>5. PICK m \in S : x = n - m
  OBVIOUS
<1>6. ASSUME NEW i \in S PROVE i <= m
  <2>1. n - i \in T /\ ~(n - i < n - m)
    BY <1>2, <1>3, <1>4, <1>5
  <2> QED BY <1>3, <2>1
<1>7. PICK l \in S : \A y \in S : ~(<<y, l>> \in R)
  BY <1>1, <1>3, WFMin
<1>8. ASSUME NEW i \in S PROVE l <= i
  <2>1. ~(i < l)
    BY <1>2, <1>3, <1>7
  <2> QED BY <1>3, <2>1
<1>9. Max(S) \in S /\ \A y \in S : y <= Max(S)
  <2>1. \E a \in S : \A y \in S : a >= y
    BY <1>3, <1>6
  <2>2. Max(S) \in S /\ \A y \in S : Max(S) >= y
    BY <2>1 DEF Max
  <2> QED BY <1>3, <2>2
<1>10. Min(S) \in S /\ \A y \in S : Min(S) <= y
  <2>1. \E a \in S : \A y \in S : a =< y
    BY <1>8
  <2> QED BY <2>1 DEF Min
<1> QED BY <1>9, <1>10

\* The position an entry had before the k-th was removed.
Older(i, k) == IF i < k THEN i ELSE i + 1

LEMMA RemovedEntry ==
    ASSUME NEW T, NEW s \in Seq(T), NEW k \in 1 .. Len(s)
    PROVE  /\ RemoveAt(s, k) \in Seq(T)
           /\ Len(RemoveAt(s, k)) = Len(s) - 1
           /\ \A i \in 1 .. Len(s) - 1 :
                 /\ Older(i, k) \in 1 .. Len(s) /\ Older(i, k) # k
                 /\ RemoveAt(s, k)[i] = s[Older(i, k)]
<1> DEFINE a == SubSeq(s, 1, k - 1)
           b == SubSeq(s, k + 1, Len(s))
<1>1. /\ a \in Seq(T) /\ Len(a) = k - 1 /\ \A i \in 1 .. k - 1 : a[i] = s[i]
  OBVIOUS
<1>2. /\ b \in Seq(T) /\ Len(b) = Len(s) - k /\ \A i \in 1 .. Len(s) - k : b[i] = s[i + k]
  OBVIOUS
<1> HIDE DEF a, b
<1>3. /\ a \o b \in Seq(T) /\ Len(a \o b) = Len(s) - 1
      /\ \A i \in 1 .. Len(s) - 1 : (a \o b)[i] = IF i <= k - 1 THEN a[i] ELSE b[i - (k - 1)]
  BY <1>1, <1>2
<1>4. RemoveAt(s, k) = a \o b
  BY DEF RemoveAt, a, b
<1>5. ASSUME NEW i \in 1 .. Len(s) - 1
      PROVE  /\ Older(i, k) \in 1 .. Len(s) /\ Older(i, k) # k
             /\ (a \o b)[i] = s[Older(i, k)]
  <2>0. Len(s) \in Nat /\ i \in Nat /\ k \in Nat
    OBVIOUS
  <2>1. CASE i < k
    BY <1>1, <1>3, <2>1 DEF Older
  <2>2. CASE i >= k
    <3>1. i - (k - 1) \in 1 .. Len(s) - k /\ i - (k - 1) + k = i + 1
      BY <2>2
    <3>2. b[i - (k - 1)] = s[i + 1]
      BY <1>2, <3>1
    <3> QED BY <1>3, <2>2, <3>2 DEF Older
  <2>3. i < k \/ i >= k
    BY <2>0
  <2> QED BY <2>1, <2>2, <2>3
<1> QED BY <1>3, <1>4, <1>5

\* A set whose members have different images in a finite set is no larger.
LEMMA NoLarger ==
    ASSUME NEW S, NEW T, IsFiniteSet(T), NEW f, \A x \in S : f[x] \in T,
           \A x, y \in S : f[x] = f[y] => x = y
    PROVE  IsFiniteSet(S) /\ Cardinality(S) <= Cardinality(T)
           /\ Cardinality(S) \in Nat /\ Cardinality(T) \in Nat
<1> DEFINE g == [x \in S |-> f[x]]
<1>1. g \in Injection(S, T)
  BY DEF Injection, IsInjective
<1> HIDE DEF g
<1> QED BY <1>1, FS_Injection, FS_CardinalityType

StudyEntry == [card : DeckCards, at : Nat, before : CardState, session : 0 .. MaxSessions]

FirstAnswers == {i \in DOMAIN studyLog : ~studyLog[i].before.seen}

\* New cards of the latest session, answered in it or not.
Promised ==
    {c \in DeckCards :
        /\ Len(queues) > 0
        /\ c \in queues[Len(queues)]
        /\ \/ ~pile[c].seen
           \/ \E i \in FirstAnswers : studyLog[i].session = Len(queues) /\ studyLog[i].card = c}

EarlierAnswersOn(date) == {i \in FirstAnswersOn(date) : studyLog[i].session # Len(queues)}

\* What the cards, the log and the sessions say of one another.
DeckInv ==
    /\ DailyTypeOK
    /\ Len(queues) <= MaxSessions
    /\ \A c \in DeckCards : ~pile[c].seen => pile[c] = NewCard
    /\ \A i \in DOMAIN studyLog :
          /\ ~studyLog[i].before.seen => studyLog[i].before = NewCard
          /\ studyLog[i].at <= clock
          /\ studyLog[i].session <= Len(queues)
          /\ studyLog[i].session # NoSession => studyLog[i].card \in queues[studyLog[i].session]

\* No card has two first answers, and every one of them was in a session.
FirstInv ==
    /\ \A i \in FirstAnswers : studyLog[i].session # NoSession /\ pile[studyLog[i].card].seen
    /\ \A i, j \in FirstAnswers : studyLog[i].card = studyLog[j].card => i = j

\* What the latest session was promised fits in the budget of today and of
\* every day after it.
PromiseInv ==
    \A date \in Nat : date >= DateOf(clock) =>
        Cardinality(EarlierAnswersOn(date)) + Cardinality(Promised) <= NewTarget

SpentInv == \A date \in Nat : Cardinality(FirstAnswersOn(date)) <= NewTarget

BudgetInv == DeckInv /\ (~loose => FirstInv /\ PromiseInv /\ SpentInv)

LEMMA LogTypes ==
    ASSUME DailyTypeOK
    PROVE  /\ studyLog \in Seq(StudyEntry) /\ Len(studyLog) \in Nat
           /\ DOMAIN studyLog = 1 .. Len(studyLog)
           /\ \A i \in DOMAIN studyLog : /\ studyLog[i] \in StudyEntry
                                         /\ studyLog[i].card \in DeckCards
                                         /\ studyLog[i].before \in CardState
                                         /\ studyLog[i].at \in Nat
                                         /\ studyLog[i].session \in Nat
           /\ queues \in Seq(SUBSET DeckCards) /\ Len(queues) \in Nat
           /\ \A s \in DOMAIN queues : s \in 1 .. Len(queues) /\ queues[s] \subseteq DeckCards
<1>1. studyLog \in Seq(StudyEntry) /\ queues \in Seq(SUBSET DeckCards)
  BY DEF DailyTypeOK, StudyEntry
<1>2. /\ Len(studyLog) \in Nat /\ Len(queues) \in Nat /\ DOMAIN studyLog = 1 .. Len(studyLog)
      /\ \A i \in DOMAIN studyLog : studyLog[i] \in StudyEntry
  BY <1>1
<1>3. \A s \in DOMAIN queues : s \in 1 .. Len(queues) /\ queues[s] \subseteq DeckCards
  BY <1>1
<1>4. ASSUME NEW e \in StudyEntry
      PROVE  e.card \in DeckCards /\ e.before \in CardState /\ e.at \in Nat /\ e.session \in Nat
  BY DEF StudyEntry
<1> QED BY <1>1, <1>2, <1>3, <1>4

LEMMA CountsAreFinite ==
    ASSUME DailyTypeOK
    PROVE  /\ \A S \in SUBSET DOMAIN studyLog : IsFiniteSet(S) /\ Cardinality(S) \in Nat
           /\ \A C \in SUBSET DeckCards : IsFiniteSet(C) /\ Cardinality(C) \in Nat
<1>1. IsFiniteSet(DOMAIN studyLog)
  BY LogTypes, FS_Interval
<1>2. \A S \in SUBSET DOMAIN studyLog : IsFiniteSet(S) /\ Cardinality(S) \in Nat
  BY <1>1, FS_Subset, FS_CardinalityType
<1>3. \A C \in SUBSET DeckCards : IsFiniteSet(C) /\ Cardinality(C) \in Nat
  BY DayAssumption, FS_Subset, FS_CardinalityType
<1> QED BY <1>2, <1>3

LEMMA SplitCount ==
    ASSUME NEW F, NEW E \in SUBSET F, IsFiniteSet(F)
    PROVE  /\ Cardinality(F) = Cardinality(E) + Cardinality(F \ E)
           /\ Cardinality(E) \in Nat /\ Cardinality(F \ E) \in Nat
<1>1. IsFiniteSet(E) /\ IsFiniteSet(F \ E)
  BY FS_Subset
<1>2. F = E \cup (F \ E) /\ E \cap (F \ E) = {}
  OBVIOUS
<1>3. Cardinality({}) = 0
  BY FS_EmptySet
<1>4. Cardinality(E) \in Nat /\ Cardinality(F \ E) \in Nat
  BY <1>1, FS_CardinalityType
<1> DEFINE G == F \ E
<1>5. Cardinality(E \cup G) = Cardinality(E) + Cardinality(G) - Cardinality(E \cap G)
  BY <1>1, FS_Union
<1>6. E \cup G = F /\ E \cap G = {} /\ Cardinality(G) \in Nat
  BY <1>2, <1>4
<1> HIDE DEF G
<1>7. Cardinality(F) = Cardinality(E) + Cardinality(G) - 0
  BY <1>3, <1>5, <1>6
<1>8. Cardinality(F) = Cardinality(E) + Cardinality(G)
  BY <1>4, <1>6, <1>7
<1> QED BY <1>4, <1>8 DEF G

LEMMA DailyInitInv == DailyInit => BudgetInv
<1> SUFFICES ASSUME DailyInit PROVE BudgetInv
  OBVIOUS
<1>1. /\ clock = 0 /\ studyLog = <<>> /\ queues = <<>> /\ loose = FALSE
      /\ pile \in [DeckCards -> {NewCard} \cup {KnownCard(d, FALSE, FALSE) : d \in 0 .. DayLength}]
  BY DEF DailyInit
<1>2. NewCard \in CardState /\ \A d \in Nat : KnownCard(d, FALSE, FALSE) \in CardState
  BY DEF NewCard, KnownCard, CardState
<1>3. DailyTypeOK
  <2>1. pile \in [DeckCards -> CardState]
    <3>1. ASSUME NEW c \in DeckCards PROVE pile[c] \in CardState
      <4>1. pile[c] = NewCard \/ \E d \in 0 .. DayLength : pile[c] = KnownCard(d, FALSE, FALSE)
        BY <1>1
      <4>2. \A d \in 0 .. DayLength : d \in Nat
        BY DayAssumption
      <4> QED BY <1>2, <4>1, <4>2
    <3> QED BY <1>1, <3>1
  <2>2. clock \in 0 .. LastInstant
    BY <1>1, DayAssumption
  <2>3. studyLog \in Seq(StudyEntry) /\ queues \in Seq(SUBSET DeckCards)
    BY <1>1
  <2> QED BY <1>1, <2>1, <2>2, <2>3 DEF DailyTypeOK, StudyEntry
<1>4. \A c \in DeckCards : ~pile[c].seen => pile[c] = NewCard
  <2>1. \A c \in DeckCards : pile[c] = NewCard \/ pile[c].seen
    BY <1>1 DEF KnownCard
  <2> QED BY <2>1
<1>5. DOMAIN studyLog = {} /\ FirstAnswers = {} /\ Promised = {}
  BY <1>1 DEF FirstAnswers, Promised
<1>6. ASSUME NEW date \in Nat PROVE FirstAnswersOn(date) = {} /\ EarlierAnswersOn(date) = {}
  BY <1>5 DEF FirstAnswersOn, EarlierAnswersOn
<1>7. DeckInv
  <2>1. Len(queues) <= MaxSessions
    BY <1>1, DayAssumption
  <2> QED BY <1>3, <1>4, <1>5, <2>1 DEF DeckInv
<1>8. FirstInv
  BY <1>5 DEF FirstInv
<1>9. Cardinality({}) = 0
  BY FS_EmptySet
<1>10. PromiseInv /\ SpentInv
  <2>1. ASSUME NEW date \in Nat
        PROVE  /\ Cardinality(FirstAnswersOn(date)) = 0
               /\ Cardinality(EarlierAnswersOn(date)) = 0 /\ Cardinality(Promised) = 0
    BY <1>5, <1>6, <1>9
  <2> QED BY <2>1, DayAssumption DEF PromiseInv, SpentInv
<1> QED BY <1>7, <1>8, <1>10 DEF BudgetInv

\* From the promises, the budget of today.
SpentNowInv ==
    \A date \in Nat : date >= DateOf(clock) => Cardinality(FirstAnswersOn(date)) <= NewTarget

LEMMA SpentFromPromise == DeckInv /\ FirstInv /\ PromiseInv => SpentNowInv
<1> SUFFICES ASSUME DeckInv, FirstInv, PromiseInv, NEW date \in Nat, date >= DateOf(clock)
             PROVE  Cardinality(FirstAnswersOn(date)) <= NewTarget
  BY DEF SpentNowInv
<1> DEFINE E == EarlierAnswersOn(date)
           F == FirstAnswersOn(date)
           f == [i \in F \ E |-> studyLog[i].card]
<1>1. DailyTypeOK
  BY DEF DeckInv
<1>2. /\ E \subseteq F /\ F \subseteq FirstAnswers /\ F \subseteq DOMAIN studyLog
      /\ Promised \subseteq DeckCards
  BY DEF EarlierAnswersOn, FirstAnswersOn, FirstAnswers, Promised
<1>3. ASSUME NEW i \in F \ E PROVE f[i] \in Promised
  <2>1. studyLog[i].session = Len(queues) /\ i \in FirstAnswers /\ i \in DOMAIN studyLog
    BY <1>2 DEF EarlierAnswersOn
  <2>2. studyLog[i].session # 0
    BY <2>1 DEF FirstInv, NoSession
  <2>3. Len(queues) > 0 /\ studyLog[i].card \in queues[Len(queues)] /\ studyLog[i].card \in DeckCards
    BY <1>1, <2>1, <2>2, LogTypes DEF DeckInv, NoSession
  <2> QED BY <2>1, <2>3 DEF Promised
<1>4. \A i, j \in F \ E : f[i] = f[j] => i = j
  BY <1>2 DEF FirstInv
<1>5. /\ IsFiniteSet(F) /\ IsFiniteSet(E) /\ IsFiniteSet(Promised) /\ IsFiniteSet(F \ E)
      /\ Cardinality(F) \in Nat /\ Cardinality(E) \in Nat /\ Cardinality(Promised) \in Nat
  BY <1>1, <1>2, CountsAreFinite
<1> HIDE DEF f
<1>6. Cardinality(F \ E) <= Cardinality(Promised) /\ Cardinality(F \ E) \in Nat
  BY <1>3, <1>4, <1>5, NoLarger
<1>7. Cardinality(F) = Cardinality(E) + Cardinality(F \ E)
  BY <1>2, <1>5, SplitCount
<1>8. Cardinality(E) + Cardinality(Promised) <= NewTarget
  BY DEF PromiseInv
<1> QED BY <1>5, <1>6, <1>7, <1>8, DayAssumption

LEMMA SpentAfterStep == DeckInv' /\ FirstInv' /\ PromiseInv' => SpentNowInv'
BY SpentFromPromise, PTL

LEMMA AppendedEntry ==
    ASSUME NEW T, NEW s \in Seq(T), NEW e \in T
    PROVE  /\ Append(s, e) \in Seq(T)
           /\ Len(s) \in Nat /\ Len(Append(s, e)) = Len(s) + 1
           /\ DOMAIN s = 1 .. Len(s)
           /\ DOMAIN Append(s, e) = DOMAIN s \cup {Len(s) + 1}
           /\ Len(s) + 1 \notin DOMAIN s
           /\ \A i \in DOMAIN s : Append(s, e)[i] = s[i]
           /\ Append(s, e)[Len(s) + 1] = e
<1>1. Append(s, e) \in Seq(T) /\ Len(s) \in Nat /\ Len(Append(s, e)) = Len(s) + 1
  OBVIOUS
<1>2. DOMAIN s = 1 .. Len(s) /\ DOMAIN Append(s, e) = 1 .. Len(s) + 1
  OBVIOUS
<1>3. /\ \A i \in 1 .. Len(s) : Append(s, e)[i] = s[i]
      /\ Append(s, e)[Len(s) + 1] = e
  OBVIOUS
<1>4. 1 .. Len(s) + 1 = (1 .. Len(s)) \cup {Len(s) + 1} /\ Len(s) + 1 \notin 1 .. Len(s)
  BY <1>1
<1> QED BY <1>1, <1>2, <1>3, <1>4

LEMMA OutcomesAreStudied ==
    ASSUME clock \in Nat, NEW o \in GradeOutcomes
    PROVE  o \in CardState /\ o.seen
<1>1. o = KnownCard(clock + DayLength, FALSE, FALSE) \/ o = KnownCard(clock + 1, TRUE, TRUE)
      \/ o = KnownCard(clock + DayLength, FALSE, TRUE)
  BY DEF GradeOutcomes
<1>2. clock + DayLength \in Nat /\ clock + 1 \in Nat
  BY DayAssumption
<1>3. \A due \in Nat, learning \in BOOLEAN, unproven \in BOOLEAN :
         KnownCard(due, learning, unproven) \in CardState /\ KnownCard(due, learning, unproven).seen
  BY DEF KnownCard, CardState
<1> QED BY <1>1, <1>2, <1>3

LEMMA GradeKeeps ==
    ASSUME BudgetInv, NEW s \in 0 .. Len(queues), NEW c \in DeckCards,
           s # NoSession => c \in queues[s], GradeIn(s, c)
    PROVE  BudgetInv'
<1> DEFINE e == [card |-> c, at |-> clock, before |-> pile[c], session |-> s]
           n == Len(studyLog) + 1
<1>1. DeckInv /\ DailyTypeOK /\ clock \in Nat /\ Len(queues) \in Nat /\ Len(queues) <= MaxSessions
      /\ pile \in [DeckCards -> CardState] /\ studyLog \in Seq(StudyEntry)
  BY LogTypes DEF BudgetInv, DeckInv, DailyTypeOK
<1>2. PICK o \in GradeOutcomes : pile' = [pile EXCEPT ![c] = o]
  BY DEF GradeIn
<1>3. o \in CardState /\ o.seen
  BY <1>1, <1>2, OutcomesAreStudied
<1>4. /\ pile' \in [DeckCards -> CardState] /\ pile'[c].seen
      /\ \A x \in DeckCards \ {c} : pile'[x] = pile[x]
  BY <1>1, <1>2, <1>3
<1>5. UNCHANGED <<clock, queues>> /\ studyLog' = Append(studyLog, e)
      /\ loose' = (loose \/ (~pile[c].seen /\ s \notin {Len(queues)} \ {NoSession}))
  BY DEF GradeIn
<1>6. e \in StudyEntry
  <2>1. s \in 0 .. MaxSessions /\ pile[c] \in CardState
    BY <1>1, DayAssumption
  <2> QED BY <1>1, <2>1 DEF StudyEntry
<1>7. e.card = c /\ e.at = clock /\ e.before = pile[c] /\ e.session = s
  OBVIOUS
<1> HIDE DEF e
<1>8. /\ studyLog' \in Seq(StudyEntry)
      /\ DOMAIN studyLog = 1 .. Len(studyLog) /\ Len(studyLog) \in Nat
      /\ DOMAIN studyLog' = DOMAIN studyLog \cup {n} /\ n \notin DOMAIN studyLog
      /\ \A i \in DOMAIN studyLog : studyLog'[i] = studyLog[i]
      /\ studyLog'[n] = e
  BY <1>1, <1>5, <1>6, AppendedEntry
<1> HIDE DEF n
<1>9. DeckInv'
  <2>1. DailyTypeOK'
    <3>1. loose' \in BOOLEAN
      BY <1>1, <1>5 DEF DailyTypeOK
    <3> QED BY <1>1, <1>4, <1>5, <1>8, <3>1 DEF DailyTypeOK, StudyEntry
  <2>2. \A x \in DeckCards : ~pile'[x].seen => pile'[x] = NewCard
    BY <1>1, <1>4 DEF DeckInv
  <2>3. ASSUME NEW i \in DOMAIN studyLog'
        PROVE  /\ ~studyLog'[i].before.seen => studyLog'[i].before = NewCard
               /\ studyLog'[i].at <= clock'
               /\ studyLog'[i].session <= Len(queues')
               /\ studyLog'[i].session # NoSession
                    => studyLog'[i].card \in queues'[studyLog'[i].session]
    <3>1. CASE i = n
      BY <1>1, <1>5, <1>7, <1>8, <3>1 DEF DeckInv
    <3>2. CASE i \in DOMAIN studyLog
      BY <1>1, <1>5, <1>8, <3>2 DEF DeckInv
    <3> QED BY <1>8, <3>1, <3>2
  <2> QED BY <1>1, <1>5, <2>1, <2>2, <2>3 DEF DeckInv
<1>10. ASSUME ~loose' PROVE FirstInv' /\ PromiseInv' /\ SpentInv'
  <2>1. FirstInv /\ PromiseInv /\ SpentInv /\ (pile[c].seen \/ (s = Len(queues) /\ s # NoSession))
    BY <1>5, <1>10 DEF BudgetInv
  <2>2. FirstAnswers' = FirstAnswers \cup (IF pile[c].seen THEN {} ELSE {n})
    BY <1>7, <1>8 DEF FirstAnswers
  <2>3. \A i \in FirstAnswers : i \in DOMAIN studyLog /\ studyLog[i].card \in DeckCards
    BY <1>1, LogTypes DEF FirstAnswers
  <2>4. FirstInv'
    <3>1. ASSUME NEW i \in FirstAnswers'
          PROVE  studyLog'[i].session # NoSession /\ pile'[studyLog'[i].card].seen
      <4>1. CASE i \in FirstAnswers
        BY <1>4, <1>8, <2>1, <2>3, <4>1 DEF FirstInv
      <4>2. CASE i = n /\ ~pile[c].seen
        BY <1>4, <1>7, <1>8, <2>1, <4>2
      <4> QED BY <2>2, <4>1, <4>2
    <3>2. ASSUME NEW i \in FirstAnswers', NEW j \in FirstAnswers',
                 studyLog'[i].card = studyLog'[j].card
          PROVE  i = j
      <4>1. \A k \in FirstAnswers : /\ k \in DOMAIN studyLog
                                    /\ studyLog'[k].card = studyLog[k].card
                                    /\ pile[studyLog[k].card].seen
        BY <1>8, <2>1, <2>3 DEF FirstInv
      <4>2. CASE i \in FirstAnswers /\ j \in FirstAnswers
        BY <2>1, <3>2, <4>1, <4>2 DEF FirstInv
      <4>3. CASE pile[c].seen
        BY <2>2, <4>2, <4>3
      <4>4. CASE ~pile[c].seen
        BY <1>7, <1>8, <2>2, <3>2, <4>1, <4>2, <4>4
      <4> QED BY <4>3, <4>4
    <3> QED BY <3>1, <3>2 DEF FirstInv
  <2>5. \A date \in Nat : EarlierAnswersOn(date)' = EarlierAnswersOn(date)
    <3> SUFFICES ASSUME NEW date \in Nat PROVE EarlierAnswersOn(date)' = EarlierAnswersOn(date)
      OBVIOUS
    <3>1. n \notin EarlierAnswersOn(date)'
      BY <1>5, <1>7, <1>8, <2>1 DEF EarlierAnswersOn, FirstAnswersOn
    <3> QED BY <1>5, <1>8, <3>1 DEF EarlierAnswersOn, FirstAnswersOn
  <2>6. Promised' \subseteq Promised
    <3> SUFFICES ASSUME NEW x \in Promised' PROVE x \in Promised
      OBVIOUS
    <3>1. x \in DeckCards /\ Len(queues) > 0 /\ x \in queues[Len(queues)]
      BY <1>5 DEF Promised
    <3>2. CASE ~pile[x].seen
      BY <3>1, <3>2 DEF Promised
    <3>3. CASE pile[x].seen
      <4>1. pile'[x].seen
        BY <1>4, <3>1, <3>3
      <4>2. PICK i \in FirstAnswers' : studyLog'[i].session = Len(queues) /\ studyLog'[i].card = x
        BY <1>5, <4>1 DEF Promised
      <4>3. i \in FirstAnswers
        BY <1>7, <1>8, <2>2, <3>3, <4>2
      <4> QED BY <1>8, <2>3, <3>1, <4>2, <4>3 DEF Promised
    <3> QED BY <3>2, <3>3
  <2>7. Cardinality(Promised') <= Cardinality(Promised)
        /\ Cardinality(Promised') \in Nat /\ Cardinality(Promised) \in Nat
    <3>1. Promised \in SUBSET DeckCards /\ Promised' \in SUBSET DeckCards
      BY <2>6 DEF Promised
    <3> QED BY <1>1, <2>6, <3>1, CountsAreFinite, FS_Subset
  <2>8. PromiseInv'
    <3> SUFFICES ASSUME NEW date \in Nat, date >= DateOf(clock)
                 PROVE  Cardinality(EarlierAnswersOn(date)') + Cardinality(Promised') <= NewTarget
      BY <1>5 DEF PromiseInv
    <3>1. EarlierAnswersOn(date) \in SUBSET DOMAIN studyLog
      BY DEF EarlierAnswersOn, FirstAnswersOn
    <3>2. Cardinality(EarlierAnswersOn(date)) \in Nat
      BY <1>1, <3>1, CountsAreFinite
    <3>3. Cardinality(EarlierAnswersOn(date)) + Cardinality(Promised) <= NewTarget
      BY <2>1 DEF PromiseInv
    <3> QED BY <2>5, <2>7, <3>2, <3>3, DayAssumption
  <2>9. SpentInv'
    <3> SUFFICES ASSUME NEW date \in Nat PROVE Cardinality(FirstAnswersOn(date)') <= NewTarget
      BY DEF SpentInv
    <3>1. CASE date >= DateOf(clock)
      <4>1. \A d \in Nat : d >= DateOf(clock') => Cardinality(FirstAnswersOn(d)') <= NewTarget
        BY <1>9, <2>4, <2>8, SpentAfterStep DEF SpentNowInv
      <4> QED BY <1>5, <3>1, <4>1
    <3>2. CASE ~(date >= DateOf(clock))
      <4>1. n \notin FirstAnswersOn(date)'
        <5>1. DateOf(clock) \in Nat
          BY <1>1, DatesGrow
        <5> QED BY <1>7, <1>8, <3>2, <5>1 DEF FirstAnswersOn
      <4>2. FirstAnswersOn(date)' = FirstAnswersOn(date)
        BY <1>8, <4>1 DEF FirstAnswersOn
      <4> QED BY <2>1, <4>2 DEF SpentInv
    <3> QED BY <3>1, <3>2
  <2> QED BY <2>4, <2>8, <2>9
<1> QED BY <1>9, <1>10 DEF BudgetInv

LEMMA UndoKeeps ==
    ASSUME BudgetInv, NEW s \in DOMAIN queues, UndoInSession(s)
    PROVE  BudgetInv'
<1> DEFINE mine == {i \in DOMAIN studyLog : studyLog[i].session = s}
           last == Max(mine)
           old(i) == Older(i, last)
<1>1. DeckInv /\ DailyTypeOK /\ clock \in Nat /\ Len(queues) \in Nat /\ s # NoSession
      /\ pile \in [DeckCards -> CardState] /\ studyLog \in Seq(StudyEntry)
  BY LogTypes DEF BudgetInv, DeckInv, DailyTypeOK, NoSession
<1>2. /\ mine # {} /\ pile' = [pile EXCEPT ![studyLog[last].card] = studyLog[last].before]
      /\ studyLog' = RemoveAt(studyLog, last)
      /\ loose' = (loose \/ s # Len(queues))
      /\ UNCHANGED <<clock, queues>>
  BY DEF UndoInSession
<1>3. last \in DOMAIN studyLog /\ studyLog[last].session = s /\ last \in 1 .. Len(studyLog)
  <2>1. mine \in SUBSET (0 .. Len(studyLog)) /\ Len(studyLog) \in Nat
    BY <1>1, LogTypes
  <2> HIDE DEF mine
  <2>2. last \in mine
    BY <1>2, <2>1, ExtremePositions
  <2> QED BY <1>1, <2>2, LogTypes DEF mine
<1> DEFINE c == studyLog[last].card
           b == studyLog[last].before
<1>4. c \in DeckCards /\ b \in CardState /\ c \in queues[s] /\ (~b.seen => b = NewCard)
  BY <1>1, <1>3, LogTypes DEF DeckInv
<1> HIDE DEF mine, last
<1>5. /\ studyLog' \in Seq(StudyEntry) /\ DOMAIN studyLog' = 1 .. Len(studyLog) - 1
      /\ \A i \in DOMAIN studyLog' :
            /\ old(i) \in DOMAIN studyLog /\ old(i) # last
            /\ studyLog'[i] = studyLog[old(i)]
  <2>1. /\ RemoveAt(studyLog, last) \in Seq(StudyEntry)
        /\ Len(RemoveAt(studyLog, last)) = Len(studyLog) - 1
        /\ \A i \in 1 .. Len(studyLog) - 1 :
              /\ old(i) \in 1 .. Len(studyLog) /\ old(i) # last
              /\ RemoveAt(studyLog, last)[i] = studyLog[old(i)]
    BY <1>1, <1>3, RemovedEntry
  <2>2. DOMAIN RemoveAt(studyLog, last) = 1 .. Len(RemoveAt(studyLog, last))
    BY <2>1
  <2> QED BY <1>1, <1>2, <2>1, <2>2, LogTypes
<1>6. \A i, j \in DOMAIN studyLog' : old(i) = old(j) => i = j
  <2>1. \A i \in DOMAIN studyLog' : i \in Nat
    BY <1>5
  <2>2. last \in Nat
    BY <1>3
  <2> QED BY <2>1, <2>2 DEF Older
<1> HIDE DEF old
<1>7. /\ pile' \in [DeckCards -> CardState] /\ pile'[c] = b
      /\ \A x \in DeckCards \ {c} : pile'[x] = pile[x]
  BY <1>1, <1>2, <1>4
<1>8. DeckInv'
  <2>1. DailyTypeOK'
    <3>1. loose' \in BOOLEAN
      BY <1>1, <1>2 DEF DailyTypeOK
    <3> QED BY <1>1, <1>2, <1>5, <1>7, <3>1 DEF DailyTypeOK, StudyEntry
  <2>2. \A x \in DeckCards : ~pile'[x].seen => pile'[x] = NewCard
    BY <1>1, <1>4, <1>7 DEF DeckInv
  <2>3. ASSUME NEW i \in DOMAIN studyLog'
        PROVE  /\ ~studyLog'[i].before.seen => studyLog'[i].before = NewCard
               /\ studyLog'[i].at <= clock'
               /\ studyLog'[i].session <= Len(queues')
               /\ studyLog'[i].session # NoSession
                    => studyLog'[i].card \in queues'[studyLog'[i].session]
    BY <1>1, <1>2, <1>5 DEF DeckInv
  <2> QED BY <1>1, <1>2, <2>1, <2>2, <2>3 DEF DeckInv
<1>9. ASSUME ~loose' PROVE FirstInv' /\ PromiseInv' /\ SpentInv'
  <2>1. FirstInv /\ PromiseInv /\ SpentInv /\ s = Len(queues) /\ Len(queues) > 0
    <3>1. ~loose /\ s = Len(queues)
      BY <1>2, <1>9
    <3>2. Len(queues) > 0
      BY <1>1, <3>1 DEF NoSession
    <3> QED BY <3>1, <3>2 DEF BudgetInv
  <2>2. \A i \in FirstAnswers' : /\ i \in DOMAIN studyLog' /\ old(i) \in FirstAnswers
                                 /\ studyLog'[i] = studyLog[old(i)]
    BY <1>5 DEF FirstAnswers
  <2>3. \A i \in FirstAnswers : studyLog[i].card \in DeckCards /\ i \in DOMAIN studyLog
    BY <1>1, LogTypes DEF FirstAnswers
  <2>4. ~b.seen => last \in FirstAnswers
    BY <1>3 DEF FirstAnswers
  <2>5. FirstInv'
    <3>1. ASSUME NEW i \in FirstAnswers'
          PROVE  studyLog'[i].session # NoSession /\ pile'[studyLog'[i].card].seen
      <4>1. /\ old(i) \in FirstAnswers /\ old(i) # last /\ studyLog'[i] = studyLog[old(i)]
            /\ studyLog[old(i)].card \in DeckCards /\ studyLog[old(i)].session # NoSession
            /\ pile[studyLog[old(i)].card].seen
        BY <1>5, <2>1, <2>2, <2>3 DEF FirstInv
      <4>2. CASE studyLog[old(i)].card = c
        <5>1. b.seen
          BY <2>1, <2>4, <4>1, <4>2 DEF FirstInv
        <5> QED BY <1>7, <4>1, <4>2, <5>1
      <4>3. CASE studyLog[old(i)].card # c
        BY <1>7, <4>1, <4>3
      <4> QED BY <4>2, <4>3
    <3>2. ASSUME NEW i \in FirstAnswers', NEW j \in FirstAnswers',
                 studyLog'[i].card = studyLog'[j].card
          PROVE  i = j
      <4>1. old(i) = old(j)
        BY <2>1, <2>2, <3>2 DEF FirstInv
      <4> QED BY <1>6, <2>2, <4>1
    <3> QED BY <3>1, <3>2 DEF FirstInv
  <2>6. ASSUME NEW date \in Nat
        PROVE  /\ \A i \in FirstAnswersOn(date)' : /\ i \in DOMAIN studyLog'
                                                   /\ old(i) \in FirstAnswersOn(date)
               /\ \A i \in EarlierAnswersOn(date)' : /\ i \in DOMAIN studyLog'
                                                     /\ old(i) \in EarlierAnswersOn(date)
    BY <1>2, <1>5 DEF FirstAnswersOn, EarlierAnswersOn
  <2>7. ASSUME NEW date \in Nat
        PROVE  /\ Cardinality(FirstAnswersOn(date)') <= Cardinality(FirstAnswersOn(date))
               /\ Cardinality(EarlierAnswersOn(date)') <= Cardinality(EarlierAnswersOn(date))
               /\ Cardinality(FirstAnswersOn(date)') \in Nat
               /\ Cardinality(FirstAnswersOn(date)) \in Nat
               /\ Cardinality(EarlierAnswersOn(date)') \in Nat
               /\ Cardinality(EarlierAnswersOn(date)) \in Nat
    <3> DEFINE f == [i \in DOMAIN studyLog' |-> old(i)]
               F == FirstAnswersOn(date)
               E == EarlierAnswersOn(date)
    <3>1. F \in SUBSET DOMAIN studyLog /\ E \in SUBSET DOMAIN studyLog
      BY DEF EarlierAnswersOn, FirstAnswersOn
    <3>2. IsFiniteSet(F) /\ IsFiniteSet(E)
      BY <1>1, <3>1, CountsAreFinite
    <3>3. /\ \A i \in F' : f[i] \in F
          /\ \A i \in E' : f[i] \in E
          /\ \A i, j \in F' : f[i] = f[j] => i = j
          /\ \A i, j \in E' : f[i] = f[j] => i = j
      BY <1>6, <2>6
    <3>4. PICK g, S, T : g = f /\ S = F' /\ T = E'
      OBVIOUS
    <3>5. /\ \A i \in S : g[i] \in F
          /\ \A i \in T : g[i] \in E
          /\ \A i, j \in S : g[i] = g[j] => i = j
          /\ \A i, j \in T : g[i] = g[j] => i = j
      BY <3>3, <3>4
    <3> HIDE DEF f, F, E
    <3>6. Cardinality(S) <= Cardinality(F) /\ Cardinality(S) \in Nat /\ Cardinality(F) \in Nat
      BY <3>2, <3>5, NoLarger
    <3>7. Cardinality(T) <= Cardinality(E) /\ Cardinality(T) \in Nat /\ Cardinality(E) \in Nat
      BY <3>2, <3>5, NoLarger
    <3> QED BY <3>4, <3>6, <3>7 DEF F, E
  <2>8. Promised' \subseteq Promised
    <3> SUFFICES ASSUME NEW x \in Promised' PROVE x \in Promised
      OBVIOUS
    <3>1. x \in DeckCards /\ x \in queues[Len(queues)]
      BY <1>2 DEF Promised
    <3>2. CASE ~pile'[x].seen
      <4>1. CASE x = c /\ ~b.seen
        BY <1>3, <2>1, <2>4, <3>1, <4>1 DEF Promised
      <4>2. CASE ~pile[x].seen
        BY <2>1, <3>1, <4>2 DEF Promised
      <4> QED BY <1>7, <3>1, <3>2, <4>1, <4>2
    <3>3. CASE pile'[x].seen
      <4>1. PICK i \in FirstAnswers' : studyLog'[i].session = Len(queues) /\ studyLog'[i].card = x
        BY <1>2, <3>3 DEF Promised
      <4>2. old(i) \in FirstAnswers /\ studyLog[old(i)].session = Len(queues)
            /\ studyLog[old(i)].card = x
        BY <2>2, <4>1
      <4> QED BY <2>1, <3>1, <4>2 DEF Promised
    <3> QED BY <3>2, <3>3
  <2>9. Cardinality(Promised') <= Cardinality(Promised)
        /\ Cardinality(Promised') \in Nat /\ Cardinality(Promised) \in Nat
    <3>1. Promised \in SUBSET DeckCards /\ Promised' \in SUBSET DeckCards
      BY <2>8 DEF Promised
    <3> QED BY <1>1, <2>8, <3>1, CountsAreFinite, FS_Subset
  <2>10. PromiseInv'
    <3> SUFFICES ASSUME NEW date \in Nat, date >= DateOf(clock)
                 PROVE  Cardinality(EarlierAnswersOn(date)') + Cardinality(Promised') <= NewTarget
      BY <1>2 DEF PromiseInv
    <3>1. Cardinality(EarlierAnswersOn(date)) + Cardinality(Promised) <= NewTarget
      BY <2>1 DEF PromiseInv
    <3> QED BY <2>7, <2>9, <3>1, DayAssumption
  <2>11. SpentInv'
    <3> SUFFICES ASSUME NEW date \in Nat PROVE Cardinality(FirstAnswersOn(date)') <= NewTarget
      BY DEF SpentInv
    <3>1. Cardinality(FirstAnswersOn(date)) <= NewTarget
      BY <2>1 DEF SpentInv
    <3> QED BY <2>7, <3>1, DayAssumption
  <2> QED BY <2>5, <2>10, <2>11
<1> QED BY <1>8, <1>9 DEF BudgetInv

LEMMA MinOfTwo ==
    ASSUME NEW a \in Int, NEW b \in Int
    PROVE  /\ Min({a, b}) = IF a <= b THEN a ELSE b
           /\ Max({a, b}) = IF a <= b THEN b ELSE a
<1>1. \E x \in {a, b} : \A y \in {a, b} : x =< y
  OBVIOUS
<1>2. Min({a, b}) \in {a, b} /\ \A y \in {a, b} : Min({a, b}) =< y
  BY <1>1 DEF Min
<1>3. \E x \in {a, b} : \A y \in {a, b} : x >= y
  OBVIOUS
<1>4. Max({a, b}) \in {a, b} /\ \A y \in {a, b} : Max({a, b}) >= y
  BY <1>3 DEF Max
<1> QED BY <1>2, <1>4

LEMMA MinOfThree ==
    ASSUME NEW a \in Int, NEW b \in Int, NEW c \in Int
    PROVE  /\ Min({a, b, c}) \in {a, b, c}
           /\ Min({a, b, c}) <= a /\ Min({a, b, c}) <= b /\ Min({a, b, c}) <= c
<1>1. \E x \in {a, b, c} : \A y \in {a, b, c} : x =< y
  OBVIOUS
<1> QED BY <1>1 DEF Min

LEMMA AllowanceLeaves ==
    ASSUME NEW used \in Nat
    PROVE  /\ Allowance(used) \in Nat
           /\ Allowance(used) = IF used <= NewTarget THEN NewTarget - used ELSE 0
<1>1. NewTarget - used \in Int /\ NewTarget \in Nat
  BY DayAssumption
<1>2. Max({0, NewTarget - used}) = IF 0 <= NewTarget - used THEN NewTarget - used ELSE 0
  BY <1>1, MinOfTwo
<1> QED BY <1>1, <1>2 DEF Allowance

(***************************************************************************)
(* What planSession plans.                                                 *)
(***************************************************************************)
FreshBy(horizon) == {c \in DeckCards : pile[c].due <= horizon} \cap NewAvailable
KnownBy(horizon) == {c \in DeckCards : pile[c].due <= horizon} \ FreshBy(horizon)

NewOf(ask, horizon) ==
    Min({ask.new, Allowance(NewSince(Midnight)), Cardinality(FreshBy(horizon))})
ReviewOf(ask, horizon) == Min({ask.review, Cardinality(KnownBy(horizon))})
SizeOf(ask, horizon) == Min({MaxCards, NewOf(ask, horizon) + ReviewOf(ask, horizon)})

LEMMA AnswersAreCounted ==
    ASSUME DailyTypeOK, NEW start
    PROVE  NewSince(start) \in Nat
<1>1. {i \in DOMAIN studyLog : studyLog[i].at >= start /\ studyLog[i].before.unproven}
          \in SUBSET DOMAIN studyLog
  OBVIOUS
<1> QED BY <1>1, CountsAreFinite DEF NewSince

LEMMA PlanNumbers ==
    ASSUME DailyTypeOK, NEW ask, ask.new \in Nat, ask.review \in Nat, NEW horizon
    PROVE  /\ FreshBy(horizon) \in SUBSET DeckCards /\ KnownBy(horizon) \in SUBSET DeckCards
           /\ Cardinality(FreshBy(horizon)) \in Nat /\ Cardinality(KnownBy(horizon)) \in Nat
           /\ Allowance(NewSince(Midnight)) \in Nat
           /\ NewOf(ask, horizon) \in Nat
           /\ NewOf(ask, horizon) \in {ask.new, Allowance(NewSince(Midnight)),
                                       Cardinality(FreshBy(horizon))}
           /\ NewOf(ask, horizon) <= ask.new
           /\ NewOf(ask, horizon) <= Allowance(NewSince(Midnight))
           /\ NewOf(ask, horizon) <= Cardinality(FreshBy(horizon))
           /\ ReviewOf(ask, horizon) \in Nat
           /\ ReviewOf(ask, horizon) = IF ask.review <= Cardinality(KnownBy(horizon))
                                       THEN ask.review ELSE Cardinality(KnownBy(horizon))
           /\ SizeOf(ask, horizon) \in Nat
           /\ SizeOf(ask, horizon) = IF MaxCards <= NewOf(ask, horizon) + ReviewOf(ask, horizon)
                                     THEN MaxCards ELSE NewOf(ask, horizon) + ReviewOf(ask, horizon)
<1>1. FreshBy(horizon) \in SUBSET DeckCards /\ KnownBy(horizon) \in SUBSET DeckCards
  BY DEF FreshBy, KnownBy
<1>2. Cardinality(FreshBy(horizon)) \in Nat /\ Cardinality(KnownBy(horizon)) \in Nat
  BY <1>1, CountsAreFinite
<1>3. Allowance(NewSince(Midnight)) \in Nat
  BY AnswersAreCounted, AllowanceLeaves
<1>4. /\ NewOf(ask, horizon) \in {ask.new, Allowance(NewSince(Midnight)),
                                  Cardinality(FreshBy(horizon))}
      /\ NewOf(ask, horizon) <= ask.new
      /\ NewOf(ask, horizon) <= Allowance(NewSince(Midnight))
      /\ NewOf(ask, horizon) <= Cardinality(FreshBy(horizon))
  <2> DEFINE x == ask.new
             y == Allowance(NewSince(Midnight))
             z == Cardinality(FreshBy(horizon))
  <2>1. x \in Int /\ y \in Int /\ z \in Int /\ NewOf(ask, horizon) = Min({x, y, z})
    BY <1>2, <1>3 DEF NewOf
  <2> HIDE DEF x, y, z
  <2>2. Min({x, y, z}) \in {x, y, z} /\ Min({x, y, z}) <= x /\ Min({x, y, z}) <= y
        /\ Min({x, y, z}) <= z
    BY <2>1, MinOfThree
  <2>3. NewOf(ask, horizon) \in {x, y, z} /\ NewOf(ask, horizon) <= x
        /\ NewOf(ask, horizon) <= y /\ NewOf(ask, horizon) <= z
    BY <2>1, <2>2
  <2> QED BY <2>3 DEF x, y, z
<1>5. NewOf(ask, horizon) \in Nat
  BY <1>2, <1>3, <1>4
<1>6. /\ ReviewOf(ask, horizon) \in Nat
      /\ ReviewOf(ask, horizon) = IF ask.review <= Cardinality(KnownBy(horizon))
                                  THEN ask.review ELSE Cardinality(KnownBy(horizon))
  BY <1>2, MinOfTwo DEF ReviewOf
<1>7. NewOf(ask, horizon) + ReviewOf(ask, horizon) \in Nat /\ MaxCards \in Nat
  BY <1>5, <1>6, DayAssumption
<1>8. /\ SizeOf(ask, horizon) \in Nat
      /\ SizeOf(ask, horizon) = IF MaxCards <= NewOf(ask, horizon) + ReviewOf(ask, horizon)
                                THEN MaxCards ELSE NewOf(ask, horizon) + ReviewOf(ask, horizon)
  BY <1>7, MinOfTwo DEF SizeOf
<1> QED BY <1>1, <1>2, <1>3, <1>4, <1>5, <1>6, <1>8

LEMMA NewWithinBounds ==
    ASSUME NEW size \in Nat, NEW newFirst, NEW n \in Nat, NEW r
    PROVE  NewWithin(size, newFirst, n, r) \in 0 .. n
<1>1. CASE newFirst
  <2>1. Min({n, size}) \in 0 .. n
    BY MinOfTwo
  <2> QED BY <1>1, <2>1 DEF NewWithin
<1>2. CASE ~newFirst
  <2> DEFINE K == {k \in 1 .. n : PlaceOfNew(k, n, r) <= size}
  <2>1. IsFiniteSet(1 .. n) /\ Cardinality(1 .. n) = n
    BY FS_Interval
  <2>2. K \in SUBSET (1 .. n)
    OBVIOUS
  <2> HIDE DEF K
  <2>3. Cardinality(K) <= n /\ Cardinality(K) \in Nat
    BY <2>1, <2>2, FS_Subset, FS_CardinalityType
  <2> QED BY <1>2, <2>3 DEF NewWithin, K
<1> QED BY <1>1, <1>2

LEMMA PlanShape ==
    ASSUME DailyTypeOK, NEW ask, ask.new \in Nat, ask.review \in Nat, NEW horizon,
           PlanSession(ask, horizon)
    PROVE  \E new \in SUBSET FreshBy(horizon), review \in SUBSET KnownBy(horizon) :
              /\ Len(queues) < MaxSessions
              /\ queues' = Append(queues, new \cup review)
              /\ UNCHANGED <<clock, pile, studyLog, loose>>
              /\ Cardinality(new) <= NewOf(ask, horizon)
              /\ Cardinality(new) \in Nat
              /\ Cardinality(new \cup review) = SizeOf(ask, horizon)
<1> DEFINE n == NewOf(ask, horizon)
           r == ReviewOf(ask, horizon)
           size == SizeOf(ask, horizon)
           newKept == NewWithin(size, ask.newFirst, n, r)
<1>1. PICK new \in SUBSET FreshBy(horizon), review \in SUBSET KnownBy(horizon) :
         /\ Cardinality(new) = newKept
         /\ Cardinality(review) = size - newKept
         /\ queues' = Append(queues, new \cup review)
  BY DEF PlanSession, NewOf, ReviewOf, SizeOf, FreshBy, KnownBy
<1>2. Len(queues) < MaxSessions /\ UNCHANGED <<clock, pile, studyLog, loose>>
  BY DEF PlanSession
<1>3. n \in Nat /\ size \in Nat
  BY PlanNumbers
<1> HIDE DEF n, r, size
<1>4. newKept \in 0 .. n
  BY <1>3, NewWithinBounds
<1> HIDE DEF newKept
<1>5. IsFiniteSet(new) /\ IsFiniteSet(review) /\ new \cap review = {}
  <2>1. FreshBy(horizon) \in SUBSET DeckCards /\ KnownBy(horizon) \in SUBSET DeckCards
    BY PlanNumbers
  <2>2. new \in SUBSET DeckCards /\ review \in SUBSET DeckCards
    BY <2>1
  <2>3. FreshBy(horizon) \cap KnownBy(horizon) = {}
    BY DEF KnownBy
  <2> QED BY <2>2, <2>3, CountsAreFinite
<1>6. Cardinality(new \cup review) = Cardinality(new) + Cardinality(review) - Cardinality(new \cap review)
  BY <1>5, FS_Union
<1>7. Cardinality(new \cap review) = 0
  BY <1>5, FS_EmptySet
<1>8. Cardinality(new \cup review) = size
  BY <1>1, <1>3, <1>4, <1>6, <1>7
<1>9. Cardinality(new) <= n /\ Cardinality(new) \in Nat
  BY <1>1, <1>3, <1>4
<1> QED BY <1>1, <1>2, <1>8, <1>9 DEF n, size

LEMMA PlanKeeps ==
    ASSUME BudgetInv, NEW ask, ask.new \in Nat, ask.review \in Nat, NEW horizon,
           PlanSession(ask, horizon)
    PROVE  BudgetInv'
<1> DEFINE L == Len(queues)
<1>1. DeckInv /\ DailyTypeOK /\ clock \in Nat /\ L \in Nat /\ queues \in Seq(SUBSET DeckCards)
  BY LogTypes DEF BudgetInv, DeckInv, DailyTypeOK
<1>2. PICK new \in SUBSET FreshBy(horizon), review \in SUBSET KnownBy(horizon) :
         /\ L < MaxSessions
         /\ queues' = Append(queues, new \cup review)
         /\ UNCHANGED <<clock, pile, studyLog, loose>>
         /\ Cardinality(new) <= NewOf(ask, horizon)
         /\ Cardinality(new) \in Nat
  BY <1>1, PlanShape
<1>3. /\ new \in SUBSET DeckCards /\ review \in SUBSET DeckCards
      /\ NewOf(ask, horizon) \in Nat /\ NewOf(ask, horizon) <= Allowance(NewSince(Midnight))
      /\ Allowance(NewSince(Midnight)) \in Nat
  BY <1>1, PlanNumbers
<1>4. \A c \in review : pile[c].seen
  BY <1>3 DEF KnownBy, FreshBy, NewAvailable
<1>5. /\ queues' \in Seq(SUBSET DeckCards) /\ Len(queues') = L + 1
      /\ DOMAIN queues = 1 .. L
      /\ \A s \in DOMAIN queues : queues'[s] = queues[s]
      /\ queues'[L + 1] = new \cup review
  <2>1. new \cup review \in SUBSET DeckCards
    BY <1>3
  <2> QED BY <1>1, <1>2, <2>1, AppendedEntry
<1>6. \A i \in DOMAIN studyLog : studyLog[i].session \in 0 .. L
  BY <1>1, LogTypes DEF DeckInv
<1>7. DeckInv'
  <2>1. DailyTypeOK'
    BY <1>1, <1>2, <1>5 DEF DailyTypeOK
  <2>2. L + 1 <= MaxSessions
    BY <1>1, <1>2, DayAssumption
  <2>3. ASSUME NEW i \in DOMAIN studyLog
        PROVE  /\ ~studyLog[i].before.seen => studyLog[i].before = NewCard
               /\ studyLog[i].at <= clock
               /\ studyLog[i].session <= L + 1
               /\ studyLog[i].session # NoSession => studyLog[i].card \in queues'[studyLog[i].session]
    <3>1. studyLog[i].session # NoSession => studyLog[i].session \in DOMAIN queues
      BY <1>1, <1>5, <1>6 DEF NoSession
    <3> QED BY <1>1, <1>5, <1>6, <3>1 DEF DeckInv
  <2> QED BY <1>1, <1>2, <1>5, <2>1, <2>2, <2>3 DEF DeckInv
<1>8. ASSUME ~loose PROVE FirstInv' /\ PromiseInv' /\ SpentInv'
  <2>1. FirstInv /\ SpentInv
    BY <1>8 DEF BudgetInv
  <2>2. FirstInv'
    BY <1>2, <2>1 DEF FirstInv, FirstAnswers
  <2>3. SpentInv'
    BY <1>2, <2>1 DEF SpentInv, FirstAnswersOn
  <2>4. Promised' \subseteq new
    <3> SUFFICES ASSUME NEW x \in Promised' PROVE x \in new
      OBVIOUS
    <3>1. /\ x \in DeckCards /\ x \in new \cup review
          /\ \/ ~pile[x].seen
             \/ \E i \in FirstAnswers : studyLog[i].session = L + 1 /\ studyLog[i].card = x
      BY <1>2, <1>5 DEF Promised, FirstAnswers
    <3>2. ~pile[x].seen
      BY <1>1, <1>6, <3>1 DEF FirstAnswers
    <3> QED BY <1>4, <3>1, <3>2
  <2>5. /\ Cardinality(Promised') <= Allowance(NewSince(Midnight))
        /\ Cardinality(Promised') \in Nat
    <3>1. IsFiniteSet(new)
      BY <1>1, <1>3, CountsAreFinite
    <3>2. Cardinality(Promised') <= Cardinality(new) /\ Cardinality(Promised') \in Nat
      BY <2>4, <3>1, FS_Subset, FS_CardinalityType
    <3> QED BY <1>2, <1>3, <3>2
  <2>6. PromiseInv'
    <3> SUFFICES ASSUME NEW date \in Nat, date >= DateOf(clock)
                 PROVE  Cardinality(EarlierAnswersOn(date)') + Cardinality(Promised') <= NewTarget
      BY <1>2 DEF PromiseInv
    <3> DEFINE F == FirstAnswersOn(date)
               used == NewSince(Midnight)
    <3>1. EarlierAnswersOn(date)' = F
      BY <1>1, <1>2, <1>5, <1>6 DEF EarlierAnswersOn, FirstAnswersOn
    <3>2. F \in SUBSET DOMAIN studyLog
      BY DEF FirstAnswersOn
    <3>3. Cardinality(F) \in Nat /\ IsFiniteSet(F) /\ Cardinality(F) <= NewTarget
      BY <1>1, <2>1, <3>2, CountsAreFinite DEF SpentInv
    <3>4. used \in Nat /\ Allowance(used) = IF used <= NewTarget THEN NewTarget - used ELSE 0
      BY <1>1, AnswersAreCounted, AllowanceLeaves
    <3>5. CASE date = DateOf(clock)
      <4> DEFINE U == {i \in DOMAIN studyLog : studyLog[i].at >= Midnight
                                               /\ studyLog[i].before.unproven}
      <4>1. ASSUME NEW i \in F PROVE i \in U
        <5>1. /\ i \in DOMAIN studyLog /\ DateOf(studyLog[i].at) = DateOf(clock)
              /\ ~studyLog[i].before.seen
          BY <3>5 DEF FirstAnswersOn
        <5>2. studyLog[i].before.unproven
          BY <1>1, <5>1 DEF DeckInv, NewCard
        <5>3. studyLog[i].at >= Midnight
          BY <1>1, <5>1, LogTypes, DatesGrow DEF Midnight
        <5> QED BY <5>1, <5>2, <5>3
      <4>2. U \in SUBSET DOMAIN studyLog /\ used = Cardinality(U)
        BY DEF NewSince
      <4>3. IsFiniteSet(U)
        BY <1>1, <4>2, CountsAreFinite
      <4> HIDE DEF U, F, used
      <4>4. Cardinality(F) <= used
        <5>1. F \in SUBSET U
          BY <4>1
        <5> QED BY <4>2, <4>3, <5>1, FS_Subset
      <4>5. Cardinality(Promised') <= Allowance(used)
        BY <2>5 DEF used
      <4>6. Cardinality(F) + Cardinality(Promised') <= NewTarget
        BY <2>5, <3>3, <3>4, <4>4, <4>5, DayAssumption
      <4> QED BY <3>1, <4>6
    <3>6. CASE date > DateOf(clock)
      <4>1. ASSUME NEW i \in F PROVE FALSE
        <5>1. i \in DOMAIN studyLog /\ DateOf(studyLog[i].at) = date /\ studyLog[i].at <= clock
              /\ studyLog[i].at \in Nat
          BY <1>1, LogTypes DEF FirstAnswersOn, DeckInv
        <5>2. DateOf(studyLog[i].at) <= DateOf(clock) /\ DateOf(clock) \in Nat
          BY <1>1, <5>1, DatesGrow
        <5> QED BY <3>6, <5>1, <5>2
      <4>2. Cardinality(F) = 0
        BY <3>3, <4>1, FS_EmptySet
      <4>3. Cardinality(Promised') <= Allowance(used)
        BY <2>5
      <4> HIDE DEF F, used
      <4>4. Cardinality(F) + Cardinality(Promised') <= NewTarget
        BY <2>5, <3>4, <4>2, <4>3, DayAssumption
      <4> QED BY <3>1, <4>4
    <3>7. DateOf(clock) \in Nat
      BY <1>1, DatesGrow
    <3> QED BY <3>5, <3>6, <3>7
  <2> QED BY <2>2, <2>3, <2>6
<1>9. loose' = loose
  BY <1>2
<1> QED BY <1>7, <1>8, <1>9 DEF BudgetInv

LEMMA SuggestionNumbers ==
    ASSUME DailyTypeOK
    PROVE  /\ Overdue \in SUBSET DeckCards /\ DueToday \in SUBSET DeckCards
           /\ NewAvailable \in SUBSET DeckCards
           /\ Suggestion.overdue = Cardinality(Overdue) /\ Suggestion.overdue \in Nat
           /\ Suggestion.dueToday = Cardinality(DueToday) /\ Suggestion.dueToday \in Nat
           /\ Suggestion.new \in Nat
           /\ Suggestion.new <= Cardinality(NewAvailable)
           /\ Suggestion.new <= Allowance(NewSince(DayStart))
           /\ Suggestion.review \in Nat
           /\ Suggestion.review <= Cardinality(Overdue) + Cardinality(DueToday)
<1>1. /\ Overdue \in SUBSET DeckCards /\ DueToday \in SUBSET DeckCards
      /\ NewAvailable \in SUBSET DeckCards
  BY DEF Overdue, DueToday, NewAvailable
<1> DEFINE o == Cardinality(Overdue)
           d == Cardinality(DueToday)
           a == Cardinality(NewAvailable)
           u == NewSince(DayStart)
<1>2. o \in Nat /\ d \in Nat /\ a \in Nat /\ u \in Nat
  BY <1>1, CountsAreFinite, AnswersAreCounted
<1>3. /\ Suggestion.overdue = o /\ Suggestion.dueToday = d
      /\ Suggestion.new = Min({a, Allowance(u)})
      /\ Suggestion.review = Min({o + d, ReviewCeiling})
  BY DEF Suggestion, Allowance
<1> HIDE DEF o, d, a, u
<1>4. Allowance(u) \in Nat
  BY <1>2, AllowanceLeaves
<1>5. /\ Min({a, Allowance(u)}) = IF a <= Allowance(u) THEN a ELSE Allowance(u)
      /\ Min({o + d, ReviewCeiling}) = IF o + d <= ReviewCeiling THEN o + d ELSE ReviewCeiling
  BY <1>2, <1>4, DayAssumption, MinOfTwo
<1>6. /\ Suggestion.new \in Nat /\ Suggestion.new <= a /\ Suggestion.new <= Allowance(u)
      /\ Suggestion.review \in Nat /\ Suggestion.review <= o + d
  BY <1>2, <1>3, <1>4, <1>5, DayAssumption
<1> QED BY <1>1, <1>2, <1>3, <1>6 DEF o, d, a, u

\* What a button asks for.
LEMMA ButtonAsks ==
    ASSUME DailyTypeOK, NEW ask \in Buttons
    PROVE  /\ ask.new \in Nat /\ ask.review \in Nat
           /\ ask.new \in {0, Suggestion.new}
           /\ ask.review \in {0, Suggestion.overdue, Suggestion.dueToday, Suggestion.review}
<1> DEFINE S == Suggestion
<1>1. ask \in {[new |-> S.new, review |-> S.review, newFirst |-> FALSE],
               [new |-> 0, review |-> S.overdue, newFirst |-> FALSE],
               [new |-> 0, review |-> S.dueToday, newFirst |-> FALSE],
               [new |-> S.new, review |-> 0, newFirst |-> TRUE]}
  BY DEF Buttons
<1>2. S.new \in Nat /\ S.review \in Nat /\ S.overdue \in Nat /\ S.dueToday \in Nat
  BY SuggestionNumbers
<1> HIDE DEF S
<1>3. /\ ask.new \in {0, S.new}
      /\ ask.review \in {0, S.overdue, S.dueToday, S.review}
  BY <1>1
<1> QED BY <1>2, <1>3 DEF S

LEMMA TimeKeeps ==
    ASSUME BudgetInv, PassTime
    PROVE  BudgetInv'
<1>1. /\ DeckInv /\ DailyTypeOK /\ clock \in Nat /\ clock < LastInstant /\ clock' = clock + 1
      /\ UNCHANGED <<pile, studyLog, queues, loose>>
  BY DEF BudgetInv, DeckInv, DailyTypeOK, PassTime
<1>2. clock' \in 0 .. LastInstant
  BY <1>1, DayAssumption
<1>3. DeckInv'
  <2>1. DailyTypeOK'
    BY <1>1, <1>2 DEF DailyTypeOK
  <2>2. \A i \in DOMAIN studyLog : studyLog[i].at <= clock /\ studyLog[i].at \in Nat
    BY <1>1, LogTypes DEF DeckInv
  <2>3. \A i \in DOMAIN studyLog : studyLog[i].at <= clock'
    BY <1>1, <2>2
  <2> QED BY <1>1, <2>1, <2>3 DEF DeckInv
<1>4. ASSUME ~loose PROVE FirstInv' /\ PromiseInv' /\ SpentInv'
  <2>1. FirstInv /\ PromiseInv /\ SpentInv
    BY <1>4 DEF BudgetInv
  <2>2. FirstInv' /\ SpentInv'
    BY <1>1, <2>1 DEF FirstInv, FirstAnswers, SpentInv, FirstAnswersOn
  <2>3. Promised' = Promised /\ \A date \in Nat : EarlierAnswersOn(date)' = EarlierAnswersOn(date)
    BY <1>1 DEF Promised, FirstAnswers, EarlierAnswersOn, FirstAnswersOn
  <2>4. DateOf(clock) \in Nat /\ DateOf(clock + 1) \in Nat /\ DateOf(clock) <= DateOf(clock + 1)
    BY <1>1, DatesGrow
  <2>5. \A date \in Nat : date >= DateOf(clock + 1) => date >= DateOf(clock)
    BY <2>4
  <2>6. PromiseInv'
    BY <1>1, <2>1, <2>3, <2>5 DEF PromiseInv
  <2> QED BY <2>2, <2>6
<1> QED BY <1>1, <1>3, <1>4 DEF BudgetInv

LEMMA DailyStepKeeps ==
    ASSUME BudgetInv, [DailyNext]_dailyVars
    PROVE  BudgetInv'
<1>0. DailyTypeOK /\ DOMAIN queues = 1 .. Len(queues) /\ Len(queues) \in Nat
      /\ \A s \in DOMAIN queues : queues[s] \subseteq DeckCards
  BY LogTypes DEF BudgetInv, DeckInv
<1>1. ASSUME NEW ask \in Buttons, StartToday(ask) PROVE BudgetInv'
  <2>1. ask.new \in Nat /\ ask.review \in Nat
    BY <1>0, ButtonAsks
  <2> QED BY <1>1, <2>1, PlanKeeps DEF StartToday
<1>2. ASSUME NEW newFirst \in BOOLEAN, NEW horizon \in {clock, DayEnd}, StartOther(newFirst, horizon)
      PROVE  BudgetInv'
  <2> DEFINE ask == [new |-> NewTarget, review |-> ReviewCeiling, newFirst |-> newFirst]
  <2>1. ask.new \in Nat /\ ask.review \in Nat
    BY DayAssumption
  <2>2. PlanSession(ask, horizon)
    BY <1>2 DEF StartOther
  <2> HIDE DEF ask
  <2> QED BY <2>1, <2>2, PlanKeeps
<1>3. ASSUME NEW s \in DOMAIN queues, AnswerInSession(s) PROVE BudgetInv'
  <2>1. PICK c \in queues[s] : GradeIn(s, c)
    BY <1>3 DEF AnswerInSession
  <2>2. s \in 0 .. Len(queues) /\ c \in DeckCards
    BY <1>0
  <2> QED BY <2>1, <2>2, GradeKeeps
<1>4. ASSUME NEW s \in DOMAIN queues, UndoInSession(s) PROVE BudgetInv'
  BY <1>4, UndoKeeps
<1>5. ASSUME AnswerOutside PROVE BudgetInv'
  <2>1. PICK c \in DeckCards : GradeIn(NoSession, c)
    BY <1>5 DEF AnswerOutside
  <2>2. NoSession \in 0 .. Len(queues)
    BY <1>0 DEF NoSession
  <2> QED BY <2>1, <2>2, GradeKeeps
<1>6. ASSUME PassTime PROVE BudgetInv'
  BY <1>6, TimeKeeps
<1>7. ASSUME UNCHANGED dailyVars PROVE BudgetInv'
  <2>1. UNCHANGED <<clock, pile, studyLog, queues, loose>>
    BY <1>7 DEF dailyVars
  <2>2. DeckInv'
    BY <2>1 DEF BudgetInv, DeckInv, DailyTypeOK
  <2>3. (FirstInv <=> FirstInv') /\ (SpentInv <=> SpentInv') /\ (PromiseInv <=> PromiseInv')
    BY <2>1 DEF FirstInv, FirstAnswers, SpentInv, FirstAnswersOn, PromiseInv, EarlierAnswersOn, Promised
  <2> QED BY <2>1, <2>2, <2>3 DEF BudgetInv
<1> QED BY <1>1, <1>2, <1>3, <1>4, <1>5, <1>6, <1>7 DEF DailyNext

LEMMA BudgetIsInvariant == DailySpec => []BudgetInv
<1>1. BudgetInv /\ [DailyNext]_dailyVars => BudgetInv'
  BY DailyStepKeeps
<1> QED BY DailyInitInv, <1>1, PTL DEF DailySpec

\* The cards, the log and the queues of the sessions have their types.
THEOREM DaysAreTyped == DailySpec => []DailyTypeOK
<1>1. BudgetInv => DailyTypeOK
  BY DEF BudgetInv, DeckInv
<1> QED BY <1>1, BudgetIsInvariant, PTL

\* planSession and submitReview keep the budget of new cards on every date, with
\* any number of cards, sessions, answers and undos, while new cards are
\* answered in the latest session.
THEOREM BudgetHolds == DailySpec => []BudgetIsKept
<1>1. BudgetInv => BudgetIsKept
  <2> SUFFICES ASSUME BudgetInv, ~loose, NEW date \in 0 .. DateOf(LastInstant)
               PROVE  Cardinality(FirstAnswersOn(date)) <= NewTarget
    BY DEF BudgetIsKept
  <2>1. date \in Nat
    BY DayAssumption, DatesGrow
  <2> QED BY <2>1 DEF BudgetInv, SpentInv
<1> QED BY <1>1, BudgetIsInvariant, PTL

--------------------------------------------------------------------------------
LEMMA DayBounds ==
    ASSUME clock \in Nat
    PROVE  DayStart \in Int /\ DayEnd \in Int /\ DayStart <= clock /\ DayEnd > clock
<1> DEFINE r == (clock - Cutoff) % DayLength
<1>1. clock - Cutoff \in Int /\ DayLength \in Nat \ {0}
  BY DayAssumption
<1>2. r \in 0 .. DayLength - 1
  <2>1. \A n \in Int, d \in Nat \ {0} : n % d \in 0 .. d - 1
    OBVIOUS
  <2> QED BY <1>1, <2>1
<1>3. DayStart = clock - r /\ DayEnd = clock - r + DayLength
  BY DEF DayStart, DayEnd
<1> HIDE DEF r
<1> QED BY <1>1, <1>2, <1>3

\* What the page counts is what planSession finds due.
LEMMA PageCountsWhatIsDue ==
    ASSUME DeckInv
    PROVE  /\ FreshBy(DayEnd) = NewAvailable
           /\ Cardinality(Overdue) + Cardinality(DueToday) <= Cardinality(KnownBy(DayEnd))
<1>1. DailyTypeOK /\ clock \in Nat /\ pile \in [DeckCards -> CardState]
  BY DEF DeckInv, DailyTypeOK
<1>2. DayStart \in Int /\ DayEnd \in Int /\ DayStart <= clock /\ DayEnd > clock
  BY <1>1, DayBounds
<1>3. \A c \in DeckCards : pile[c].due \in Nat
  BY <1>1 DEF CardState
<1>4. \A c \in DeckCards : ~pile[c].seen => pile[c].due = 0 /\ pile[c].learning
  BY DEF DeckInv, NewCard
<1>5. \A c \in NewAvailable : c \in DeckCards /\ pile[c].due <= DayEnd
  BY <1>1, <1>2, <1>4 DEF NewAvailable
<1>6. FreshBy(DayEnd) = NewAvailable
  BY <1>5 DEF FreshBy
<1>7. ASSUME NEW c \in Overdue \cup DueToday PROVE c \in KnownBy(DayEnd)
  <2>1. c \in DeckCards /\ ~pile[c].learning
    BY DEF Overdue, DueToday
  <2>2. pile[c].due <= DayEnd
    BY <1>1, <1>2, <1>3, <2>1 DEF Overdue, DueToday
  <2>3. pile[c].seen
    BY <1>4, <2>1
  <2> QED BY <1>6, <2>1, <2>2, <2>3 DEF KnownBy, NewAvailable
<1>8. Overdue \cap DueToday = {}
  BY <1>2, <1>3 DEF Overdue, DueToday
<1>9. /\ IsFiniteSet(Overdue) /\ IsFiniteSet(DueToday) /\ IsFiniteSet(KnownBy(DayEnd))
      /\ Cardinality(Overdue) \in Nat /\ Cardinality(DueToday) \in Nat
  <2>1. /\ Overdue \in SUBSET DeckCards /\ DueToday \in SUBSET DeckCards
        /\ KnownBy(DayEnd) \in SUBSET DeckCards
    BY DEF Overdue, DueToday, KnownBy
  <2> QED BY <1>1, <2>1, CountsAreFinite
<1> DEFINE O == Overdue
           D == DueToday
           K == KnownBy(DayEnd)
<1>10. O \cup D \in SUBSET K /\ O \cap D = {} /\ IsFiniteSet(O) /\ IsFiniteSet(D) /\ IsFiniteSet(K)
       /\ Cardinality(O) \in Nat /\ Cardinality(D) \in Nat
  BY <1>7, <1>8, <1>9
<1> HIDE DEF O, D, K
<1>11. Cardinality(O \cup D) = Cardinality(O) + Cardinality(D) - Cardinality(O \cap D)
  BY <1>10, FS_Union
<1>12. Cardinality(O \cap D) = 0
  BY <1>10, FS_EmptySet
<1>13. Cardinality(O \cup D) <= Cardinality(K)
  BY <1>10, FS_Subset
<1>14. Cardinality(O) + Cardinality(D) <= Cardinality(K)
  BY <1>10, <1>11, <1>12, <1>13
<1> QED BY <1>6, <1>14 DEF O, D, K

LEMMA LaunchesMatch == DeckInv => LaunchMatchesCount
<1> SUFFICES ASSUME DeckInv, NEW ask \in Buttons, StartToday(ask)
             PROVE  LET size == Cardinality(queues'[Len(queues')])
                    IN  /\ size <= ask.new + ask.review
                        /\ \/ size = Min({MaxCards, ask.new + ask.review})
                           \/ NewSince(Midnight) > NewSince(DayStart)
  BY DEF LaunchMatchesCount
<1> DEFINE n == NewOf(ask, DayEnd)
           r == ReviewOf(ask, DayEnd)
           size == SizeOf(ask, DayEnd)
           known == Cardinality(KnownBy(DayEnd))
           fresh == Cardinality(FreshBy(DayEnd))
           left == Allowance(NewSince(Midnight))
<1>1. DailyTypeOK /\ queues \in Seq(SUBSET DeckCards)
  BY LogTypes DEF DeckInv
<1>2. /\ ask.new \in Nat /\ ask.review \in Nat
      /\ ask.new \in {0, Suggestion.new}
      /\ ask.review \in {0, Suggestion.overdue, Suggestion.dueToday, Suggestion.review}
  BY <1>1, ButtonAsks
<1>3. PICK new \in SUBSET FreshBy(DayEnd), review \in SUBSET KnownBy(DayEnd) :
         /\ queues' = Append(queues, new \cup review)
         /\ Cardinality(new \cup review) = size
  BY <1>1, <1>2, PlanShape DEF StartToday
<1>4. /\ FreshBy(DayEnd) \in SUBSET DeckCards /\ KnownBy(DayEnd) \in SUBSET DeckCards
      /\ fresh \in Nat /\ known \in Nat /\ left \in Nat
      /\ n \in Nat /\ n \in {ask.new, left, fresh} /\ n <= ask.new
      /\ r \in Nat /\ r = IF ask.review <= known THEN ask.review ELSE known
      /\ size \in Nat /\ size = IF MaxCards <= n + r THEN MaxCards ELSE n + r
  BY <1>1, <1>2, PlanNumbers
<1>5. Cardinality(queues'[Len(queues')]) = size
  <2>1. new \cup review \in SUBSET DeckCards
    BY <1>4
  <2>2. queues'[Len(queues')] = new \cup review
    BY <1>1, <1>3, <2>1, AppendedEntry
  <2> QED BY <1>3, <2>2
<1>6. ask.new <= fresh /\ ask.review <= known
  <2>1. /\ Suggestion.new <= fresh
        /\ Suggestion.overdue + Suggestion.dueToday <= known
        /\ Suggestion.review <= known
        /\ Suggestion.overdue \in Nat /\ Suggestion.dueToday \in Nat
        /\ Suggestion.review \in Nat /\ Suggestion.new \in Nat
    BY <1>1, <1>4, SuggestionNumbers, PageCountsWhatIsDue
  <2> QED BY <1>2, <1>4, <2>1
<1>7. ask.new <= left \/ NewSince(Midnight) > NewSince(DayStart)
  <2> DEFINE u == NewSince(Midnight)
             v == NewSince(DayStart)
  <2>1. u \in Nat /\ v \in Nat
    BY <1>1, AnswersAreCounted
  <2>2. ask.new <= Allowance(v)
    <3>1. Suggestion.new <= Allowance(v) /\ Suggestion.new \in Nat
      BY <1>1, SuggestionNumbers
    <3>2. Allowance(v) \in Nat
      BY <2>1, AllowanceLeaves
    <3> QED BY <1>2, <3>1, <3>2
  <2>3. /\ Allowance(u) = IF u <= NewTarget THEN NewTarget - u ELSE 0
        /\ Allowance(v) = IF v <= NewTarget THEN NewTarget - v ELSE 0
    BY <2>1, AllowanceLeaves
  <2>4. left = Allowance(u)
    OBVIOUS
  <2> HIDE DEF u, v, left
  <2>5. ask.new <= left \/ u > v
    BY <1>2, <2>1, <2>2, <2>3, <2>4, DayAssumption
  <2> QED BY <2>5 DEF u, v
<1> HIDE DEF n, r, size, known, fresh, left
<1>8. size <= ask.new + ask.review
  BY <1>2, <1>4, <1>6, DayAssumption
<1>9. ask.new <= left => size = Min({MaxCards, ask.new + ask.review})
  <2> SUFFICES ASSUME ask.new <= left PROVE size = Min({MaxCards, ask.new + ask.review})
    OBVIOUS
  <2>1. n = ask.new /\ r = ask.review
    BY <1>2, <1>4, <1>6
  <2>2. Min({MaxCards, ask.new + ask.review})
            = IF MaxCards <= ask.new + ask.review THEN MaxCards ELSE ask.new + ask.review
    BY <1>2, DayAssumption, MinOfTwo
  <2> QED BY <1>4, <2>1, <2>2
<1> QED BY <1>5, <1>7, <1>8, <1>9

--------------------------------------------------------------------------------
(***************************************************************************)
(* The surplus that a day passes on is defined from the day before it, by  *)
(* a recursive function; what it is follows from the smallest day on which *)
(* it would be something else.                                             *)
(***************************************************************************)
Passed(f, ceiling, g, k) == IF k = 0 THEN 0 ELSE Max({0, g[k - 1] + f[k] - ceiling})

Passes(f, ceiling, n, g) == g = [k \in 0 .. n |-> Passed(f, ceiling, g, k)]

LEMMA SurplusExists ==
    ASSUME NEW f, NEW ceiling, NEW n \in Nat
    PROVE  \E g : Passes(f, ceiling, n, g)
<1> DEFINE B == {m \in 0 .. n : ~\E g : Passes(f, ceiling, m, g)}
<1>1. SUFFICES ASSUME B # {} PROVE FALSE
  OBVIOUS
<1>2. PICK m \in B : \A k \in B : m <= k
  <2>1. B \in SUBSET (0 .. n)
    OBVIOUS
  <2> HIDE DEF B
  <2> QED BY <1>1, <2>1, ExtremePositions
<1>3. m \in 0 .. n /\ m \in Nat /\ ~\E g : Passes(f, ceiling, m, g)
  OBVIOUS
<1>4. m # 0
  <2> DEFINE g == [k \in 0 .. 0 |-> 0]
  <2>1. \A k \in 0 .. 0 : Passed(f, ceiling, g, k) = 0
    BY DEF Passed
  <2>2. Passes(f, ceiling, 0, g)
    BY <2>1 DEF Passes
  <2> HIDE DEF g
  <2> QED BY <1>3, <2>2
<1>5. PICK g : Passes(f, ceiling, m - 1, g)
  <2>1. m - 1 \in 0 .. n /\ m - 1 \notin B
    BY <1>2, <1>3, <1>4
  <2> QED BY <2>1
<1> DEFINE h == [k \in 0 .. m |-> IF k = m THEN Passed(f, ceiling, g, m) ELSE g[k]]
<1>6. ASSUME NEW k \in 0 .. m PROVE h[k] = Passed(f, ceiling, h, k)
  <2>1. k # 0 => k - 1 \in 0 .. m /\ k - 1 # m /\ h[k - 1] = g[k - 1]
    BY <1>3
  <2>2. Passed(f, ceiling, h, k) = Passed(f, ceiling, g, k)
    <3> HIDE DEF h
    <3> QED BY <2>1 DEF Passed
  <2>3. k # m => g[k] = Passed(f, ceiling, g, k)
    <3> SUFFICES ASSUME k # m PROVE g[k] = Passed(f, ceiling, g, k)
      OBVIOUS
    <3>1. k \in 0 .. m - 1
      BY <1>3
    <3>2. g = [j \in 0 .. m - 1 |-> Passed(f, ceiling, g, j)]
      BY <1>5 DEF Passes
    <3> QED BY <3>1, <3>2
  <2> QED BY <2>2, <2>3
<1>7. Passes(f, ceiling, m, h)
  <2>1. h = [k \in 0 .. m |-> h[k]]
    OBVIOUS
  <2> HIDE DEF h
  <2> QED BY <1>6, <2>1 DEF Passes
<1> HIDE DEF h
<1> QED BY <1>3, <1>7

LEMMA PassedNumber ==
    ASSUME NEW f, NEW ceiling \in Nat, NEW g, NEW k
    PROVE  /\ k = 0 => Passed(f, ceiling, g, k) = 0
           /\ k # 0 /\ g[k - 1] \in Nat /\ f[k] \in Nat =>
                 Passed(f, ceiling, g, k) = IF g[k - 1] + f[k] <= ceiling THEN 0
                                            ELSE g[k - 1] + f[k] - ceiling
<1>1. k = 0 => Passed(f, ceiling, g, k) = 0
  BY DEF Passed
<1>2. ASSUME k # 0, g[k - 1] \in Nat, f[k] \in Nat
      PROVE  Passed(f, ceiling, g, k) = IF g[k - 1] + f[k] <= ceiling THEN 0
                                        ELSE g[k - 1] + f[k] - ceiling
  <2> DEFINE x == g[k - 1] + f[k] - ceiling
  <2>1. x \in Int /\ Passed(f, ceiling, g, k) = Max({0, x})
    BY <1>2 DEF Passed
  <2> HIDE DEF x
  <2>2. Max({0, x}) = IF 0 <= x THEN x ELSE 0
    BY <2>1, MinOfTwo
  <2>3. Passed(f, ceiling, g, k) = IF 0 <= x THEN x ELSE 0
    BY <2>1, <2>2
  <2> QED BY <1>2, <2>3 DEF x
<1> QED BY <1>1, <1>2

Surplus(f, ceiling, n) == CHOOSE g : Passes(f, ceiling, n, g)

LEMMA SurplusValue ==
    ASSUME NEW n \in Nat, NEW f \in [1 .. n -> Nat], NEW ceiling \in Nat
    PROVE  \A k \in 0 .. n :
              /\ Surplus(f, ceiling, n)[k] \in Nat
              /\ Surplus(f, ceiling, n)[k] = Passed(f, ceiling, Surplus(f, ceiling, n), k)
<1> DEFINE s == Surplus(f, ceiling, n)
<1>1. Passes(f, ceiling, n, s)
  BY SurplusExists DEF Surplus
<1> HIDE DEF s
<1>2. \A k \in 0 .. n : s[k] = Passed(f, ceiling, s, k)
  BY <1>1 DEF Passes
<1>3. ASSUME NEW m \in 0 .. n, s[m] \notin Nat,
             \A k \in 0 .. n : s[k] \notin Nat => m <= k
      PROVE  FALSE
  <2>1. s[m] = Passed(f, ceiling, s, m) /\ s[m] \notin Nat
    BY <1>2, <1>3
  <2>2. m # 0
    BY <2>1, PassedNumber
  <2>3. m - 1 \in 0 .. n /\ ~(m <= m - 1) /\ m \in 1 .. n
    BY <2>2
  <2>4. s[m - 1] \in Nat /\ f[m] \in Nat
    BY <1>3, <2>3
  <2>5. Passed(f, ceiling, s, m) = IF s[m - 1] + f[m] <= ceiling THEN 0
                                   ELSE s[m - 1] + f[m] - ceiling
    BY <2>2, <2>4, PassedNumber
  <2> QED BY <2>1, <2>4, <2>5
<1> DEFINE B == {k \in 0 .. n : s[k] \notin Nat}
<1>4. B = {}
  <2> SUFFICES ASSUME B # {} PROVE FALSE
    OBVIOUS
  <2>1. PICK m \in B : \A k \in B : m <= k
    <3>1. B \in SUBSET (0 .. n)
      OBVIOUS
    <3> HIDE DEF B
    <3> QED BY <3>1, ExtremePositions
  <2> QED BY <1>3, <2>1
<1> QED BY <1>2, <1>4 DEF s

LEMMA SurplusStep ==
    ASSUME NEW n \in Nat, NEW f \in [1 .. n -> Nat], NEW ceiling \in Nat
    PROVE  LET s == Surplus(f, ceiling, n)
           IN  /\ s[0] = 0
               /\ \A k \in 1 .. n :
                     /\ k - 1 \in 0 .. n /\ s[k - 1] \in Nat /\ s[k] \in Nat /\ f[k] \in Nat
                     /\ s[k] = IF s[k - 1] + f[k] <= ceiling THEN 0 ELSE s[k - 1] + f[k] - ceiling
<1> DEFINE s == Surplus(f, ceiling, n)
<1>1. \A k \in 0 .. n : s[k] \in Nat /\ s[k] = Passed(f, ceiling, s, k)
  BY SurplusValue
<1> HIDE DEF s
<1>2. s[0] = 0
  <2>1. s[0] = Passed(f, ceiling, s, 0)
    BY <1>1
  <2> QED BY <2>1, PassedNumber
<1>3. ASSUME NEW k \in 1 .. n
      PROVE  /\ k - 1 \in 0 .. n /\ s[k - 1] \in Nat /\ s[k] \in Nat /\ f[k] \in Nat
             /\ s[k] = IF s[k - 1] + f[k] <= ceiling THEN 0 ELSE s[k - 1] + f[k] - ceiling
  <2>1. k - 1 \in 0 .. n /\ k \in 0 .. n /\ k # 0
    OBVIOUS
  <2>2. s[k - 1] \in Nat /\ s[k] \in Nat /\ f[k] \in Nat /\ s[k] = Passed(f, ceiling, s, k)
    BY <1>1, <2>1
  <2>3. s[k] = IF s[k - 1] + f[k] <= ceiling THEN 0 ELSE s[k - 1] + f[k] - ceiling
    <3> DEFINE P == Passed(f, ceiling, s, k)
    <3>1. k # 0 /\ s[k - 1] \in Nat /\ f[k] \in Nat
      BY <2>1, <2>2
    <3>2. P = IF s[k - 1] + f[k] <= ceiling THEN 0 ELSE s[k - 1] + f[k] - ceiling
      BY ONLY ceiling \in Nat, <3>1, PassedNumber
    <3>3. s[k] = P
      BY <2>2
    <3> HIDE DEF P
    <3> QED BY <3>2, <3>3
  <2> QED BY <2>1, <2>2, <2>3
<1> QED BY <1>2, <1>3 DEF s

LEMMA PrefixSums ==
    ASSUME NEW n \in Nat, NEW f, \A i \in 1 .. n : f[i] \in Nat
    PROVE  /\ SumTo(f, 0) = 0
           /\ \A k \in 0 .. n : SumTo(f, k) \in Nat
           /\ \A k \in 1 .. n : SumTo(f, k) = SumTo(f, k - 1) + f[k]
           /\ \A k \in 0 .. n : SumTo(f, k) <= SumTo(f, n)
<1>1. \A k : SumTo(f, k) = SumOver(f, 1 .. k)
  BY DEF SumTo, SumOver
<1>2. \A k \in 0 .. n : IsFiniteSet(1 .. k) /\ (1 .. k) \in SUBSET (1 .. n)
  BY FS_Interval
<1>3. SumTo(f, 0) = 0
  <2>1. 1 .. 0 = {} /\ IsFiniteSet({})
    BY FS_EmptySet
  <2> QED BY <1>1, <2>1, SumUnfolds
<1>4. ASSUME NEW k \in 0 .. n PROVE SumTo(f, k) \in Nat /\ SumTo(f, k) <= SumTo(f, n)
  <2>1. IsFiniteSet(1 .. n) /\ IsFiniteSet(1 .. k) /\ (1 .. k) \in SUBSET (1 .. n)
    BY <1>2
  <2>2. \A i \in 1 .. k : f[i] \in Nat
    BY <2>1
  <2>3. SumOver(f, 1 .. k) \in Nat
    BY <2>1, <2>2, SumIsNat
  <2>4. SumOver(f, 1 .. k) <= SumOver(f, 1 .. n)
    BY <2>1, SumOfSubset
  <2> QED BY <1>1, <2>3, <2>4
<1>5. ASSUME NEW k \in 1 .. n PROVE SumTo(f, k) = SumTo(f, k - 1) + f[k]
  <2>1. k \in 0 .. n /\ k - 1 \in 0 .. n /\ k \in 1 .. k /\ (1 .. k) \ {k} = 1 .. k - 1
    OBVIOUS
  <2>2. IsFiniteSet(1 .. k) /\ \A i \in 1 .. k : f[i] \in Nat
    BY <1>2, <2>1
  <2>3. SumOver(f, 1 .. k) = f[k] + SumOver(f, (1 .. k) \ {k})
    BY <2>1, <2>2, SumRemoves
  <2>4. SumTo(f, k) = f[k] + SumTo(f, k - 1)
    BY <1>1, <2>1, <2>3
  <2>5. f[k] \in Nat /\ SumTo(f, k - 1) \in Nat
    BY <1>4, <2>1
  <2> QED BY <2>4, <2>5
<1> QED BY <1>3, <1>4, <1>5

Relieved(f, ceiling, n) ==
    [i \in 1 .. n |-> RelievedDay(f[i], Surplus(f, ceiling, n)[i - 1], Surplus(f, ceiling, n)[i])]

\* Up to every day, what is planned and what is passed on is what is due.
LEMMA PlannedAndPassed ==
    ASSUME NEW n \in Nat, NEW f \in [1 .. n -> Nat], NEW ceiling \in Nat, NEW b,
           b = Relieved(f, ceiling, n)
    PROVE  /\ \A k \in 1 .. n : b[k] \in Nat /\ b[k] <= ceiling
           /\ \A k \in 0 .. n : /\ Surplus(f, ceiling, n)[k] \in Nat
                                /\ SumTo(b, k) + Surplus(f, ceiling, n)[k] = SumTo(f, k)
<1> DEFINE s == Surplus(f, ceiling, n)
<1>1. /\ s[0] = 0
      /\ \A k \in 1 .. n :
            /\ k - 1 \in 0 .. n /\ s[k - 1] \in Nat /\ s[k] \in Nat /\ f[k] \in Nat
            /\ s[k] = IF s[k - 1] + f[k] <= ceiling THEN 0 ELSE s[k - 1] + f[k] - ceiling
  BY SurplusStep
<1>2. b = [i \in 1 .. n |-> RelievedDay(f[i], s[i - 1], s[i])]
  BY DEF Relieved
<1> HIDE DEF s
<1>3. ASSUME NEW k \in 1 .. n
      PROVE  b[k] \in Nat /\ b[k] <= ceiling /\ b[k] = f[k] + s[k - 1] - s[k]
  <2>1. b[k] = f[k] + s[k - 1] - s[k]
    BY <1>2 DEF RelievedDay
  <2> DEFINE u == s[k - 1]
             v == s[k]
             w == f[k]
             y == b[k]
  <2>2. /\ u \in Nat /\ v \in Nat /\ w \in Nat /\ y = w + u - v
        /\ v = IF u + w <= ceiling THEN 0 ELSE u + w - ceiling
    BY <1>1, <2>1
  <2> HIDE DEF u, v, w, y
  <2>3. y \in Nat /\ y <= ceiling
    BY <2>2
  <2> QED BY <2>1, <2>3 DEF y
<1>4. /\ SumTo(f, 0) = 0 /\ \A k \in 0 .. n : SumTo(f, k) \in Nat
      /\ \A k \in 1 .. n : SumTo(f, k) = SumTo(f, k - 1) + f[k]
  BY <1>1, PrefixSums
<1>5. /\ SumTo(b, 0) = 0 /\ \A k \in 0 .. n : SumTo(b, k) \in Nat
      /\ \A k \in 1 .. n : SumTo(b, k) = SumTo(b, k - 1) + b[k]
  BY <1>3, PrefixSums
<1> DEFINE B == {k \in 0 .. n : ~(s[k] \in Nat /\ SumTo(b, k) + s[k] = SumTo(f, k))}
<1>6. ASSUME NEW m \in 0 .. n, ~(s[m] \in Nat /\ SumTo(b, m) + s[m] = SumTo(f, m)),
             \A k \in 0 .. n : ~(s[k] \in Nat /\ SumTo(b, k) + s[k] = SumTo(f, k)) => m <= k
      PROVE  FALSE
  <2>1. m # 0
    BY <1>1, <1>4, <1>5, <1>6
  <2>2. m - 1 \in 0 .. n /\ ~(m <= m - 1) /\ m \in 1 .. n
    BY <2>1
  <2>3. s[m - 1] \in Nat /\ SumTo(b, m - 1) + s[m - 1] = SumTo(f, m - 1)
    BY <1>6, <2>2
  <2>4. /\ SumTo(b, m) = SumTo(b, m - 1) + b[m] /\ SumTo(f, m) = SumTo(f, m - 1) + f[m]
        /\ b[m] = f[m] + s[m - 1] - s[m] /\ s[m] \in Nat /\ f[m] \in Nat /\ b[m] \in Nat
        /\ SumTo(b, m - 1) \in Nat /\ SumTo(f, m - 1) \in Nat
    BY <1>1, <1>3, <1>4, <1>5, <2>2
  <2>5. SumTo(b, m) + s[m] = SumTo(f, m)
    <3> DEFINE x == SumTo(b, m - 1)
               y == SumTo(f, m - 1)
               u == s[m - 1]
               v == s[m]
               w == f[m]
    <3>1. x \in Nat /\ y \in Nat /\ u \in Nat /\ v \in Nat /\ w \in Nat /\ x + u = y
      BY <2>3, <2>4
    <3>2. SumTo(b, m) = x + (w + u - v) /\ SumTo(f, m) = y + w
      BY <2>4
    <3> HIDE DEF x, y, u, v, w
    <3>3. SumTo(b, m) + v = SumTo(f, m)
      BY <3>1, <3>2
    <3> QED BY <3>3 DEF v
  <2> QED BY <1>6, <2>4, <2>5
<1>7. B = {}
  <2> SUFFICES ASSUME B # {} PROVE FALSE
    OBVIOUS
  <2>1. PICK m \in B : \A k \in B : m <= k
    <3>1. B \in SUBSET (0 .. n)
      OBVIOUS
    <3> HIDE DEF B
    <3> QED BY <3>1, ExtremePositions
  <2> QED BY <1>6, <2>1
<1>8. \A k \in 0 .. n : s[k] \in Nat /\ SumTo(b, k) + s[k] = SumTo(f, k)
  BY <1>7
<1> QED BY <1>3, <1>8 DEF s

Ceiling(f, n) == Max({1, (SumTo(f, n) + n - 1) \div n})

LEMMA BalancedShape ==
    ASSUME NEW n \in Nat, NEW f, Len(f) = n
    PROVE  Balanced(f) = f \/ Balanced(f) = Relieved(f, Ceiling(f, n), n)
<1> DEFINE ceiling == Max({1, (SumTo(f, Len(f)) + Len(f) - 1) \div Len(f)})
           surplus == CHOOSE g : g = [k \in 0 .. Len(f) |->
                                        IF k = 0 THEN 0 ELSE Max({0, g[k - 1] + f[k] - ceiling})]
           relieved == [i \in 1 .. Len(f) |-> RelievedDay(f[i], surplus[i - 1], surplus[i])]
<1>1. Balanced(f) = f \/ Balanced(f) = relieved
  <2> HIDE DEF relieved
  <2> QED BY DEF Balanced, relieved
<1>2. ceiling = Ceiling(f, n)
  BY DEF Ceiling
<1>3. surplus = Surplus(f, Ceiling(f, n), n)
  BY <1>2 DEF Surplus, Passes, Passed
<1> HIDE DEF surplus
<1>4. relieved = Relieved(f, Ceiling(f, n), n)
  BY <1>3 DEF Relieved
<1> QED BY <1>1, <1>4

LEMMA CeilingIsTheMean ==
    ASSUME NEW n \in Nat, n > 0, NEW f \in [1 .. n -> Nat]
    PROVE  /\ Ceiling(f, n) \in Nat
           /\ SumTo(f, n) > 0 => Ceiling(f, n) * n < SumTo(f, n) + n
<1> DEFINE t == SumTo(f, n)
           q == (t + n - 1) \div n
<1>1. t \in Nat
  <2>1. \A i \in 1 .. n : f[i] \in Nat
    OBVIOUS
  <2> QED BY <2>1, PrefixSums
<1> HIDE DEF t
<1>2. t + n - 1 \in Nat
  BY <1>1
<1>3. q \in Nat /\ t + n - 1 = q * n + ((t + n - 1) % n) /\ (t + n - 1) % n \in 0 .. n - 1
  BY <1>2, Divides
<1> DEFINE r == (t + n - 1) % n
<1>4. r \in Nat /\ t + n - 1 = q * n + r
  BY <1>3
<1> HIDE DEF q, r
<1>5. q * n \in Nat
  BY <1>3
<1>6. q * n < t + n
  BY <1>1, <1>4, <1>5
<1>7. Ceiling(f, n) = Max({1, q})
  BY DEF Ceiling, t, q
<1>8. Max({1, q}) = IF 1 <= q THEN q ELSE 1
  <2>1. q \in Int /\ 1 \in Int
    BY <1>3
  <2> QED BY <2>1, MinOfTwo
<1>9. t > 0 => Ceiling(f, n) * n < t + n
  BY <1>1, <1>3, <1>6, <1>7, <1>8
<1> QED BY <1>3, <1>7, <1>8, <1>9 DEF t

LEMMA BalancingDefers == DailyTypeOK => BalancingOnlyDefers
<1> SUFFICES ASSUME DailyTypeOK, NEW k \in 1 .. ForecastDays
             PROVE  LET f == Forecast
                        b == Balanced(f)
                    IN  /\ SumTo(b, k) <= SumTo(f, k)
                        /\ b[k] > f[k] => b[k] * ForecastDays < SumTo(f, ForecastDays) + ForecastDays
  BY DEF BalancingOnlyDefers
<1> DEFINE f == Forecast
           n == ForecastDays
<1>1. n \in Nat /\ n > 0 /\ f \in [1 .. n -> Nat] /\ Len(f) = n
  <2>1. \A i \in 1 .. n : ForecastOn(i) \in Nat
    <3> SUFFICES ASSUME NEW i \in 1 .. n PROVE ForecastOn(i) \in Nat
      OBVIOUS
    <3>1. {c \in DeckCards : /\ pile[c].due >= DayStart
                             /\ pile[c].due < DayStart + ForecastDays * DayLength
                             /\ DateOf(pile[c].due) = DateOf(DayStart) + i - 1} \in SUBSET DeckCards
      OBVIOUS
    <3> QED BY <3>1, CountsAreFinite DEF ForecastOn
  <2>2. n \in Nat /\ n > 0
    BY DayAssumption
  <2>3. f \in [1 .. n -> Nat]
    BY <2>1 DEF Forecast
  <2> QED BY <2>2, <2>3
<1> HIDE DEF f, n
<1> DEFINE b == Balanced(f)
           C == Ceiling(f, n)
           s == Surplus(f, C, n)
<1>2. b = f \/ b = Relieved(f, C, n)
  BY <1>1, BalancedShape
<1>3. C \in Nat /\ (SumTo(f, n) > 0 => C * n < SumTo(f, n) + n)
  BY <1>1, CeilingIsTheMean
<1>4. k \in 1 .. n /\ k \in 0 .. n /\ k - 1 \in 0 .. n
  BY <1>1 DEF n
<1>5. /\ \A j \in 0 .. n : SumTo(f, j) \in Nat /\ SumTo(f, j) <= SumTo(f, n)
      /\ f[k] \in Nat
  <2>1. \A i \in 1 .. n : f[i] \in Nat
    BY <1>1
  <2> QED BY <1>1, <1>4, <2>1, PrefixSums
<1> HIDE DEF b, C
<1>6. CASE b = f
  <2>1. SumTo(b, k) <= SumTo(f, k) /\ ~(b[k] > f[k])
    BY <1>4, <1>5, <1>6
  <2> QED BY <2>1 DEF b, f, n
<1>7. CASE b = Relieved(f, C, n)
  <2>1. /\ \A j \in 1 .. n : b[j] \in Nat /\ b[j] <= C
        /\ \A j \in 0 .. n : s[j] \in Nat /\ SumTo(b, j) + s[j] = SumTo(f, j)
    BY <1>1, <1>3, <1>7, PlannedAndPassed
  <2>2. b[k] = f[k] + s[k - 1] - s[k]
    BY <1>4, <1>7 DEF Relieved, RelievedDay
  <2>3. s[k - 1] \in Nat /\ s[k] \in Nat /\ b[k] \in Nat /\ b[k] <= C
    BY <1>4, <2>1
  <2>4. \A j \in 0 .. n : SumTo(b, j) \in Nat
    <3>1. \A i \in 1 .. n : b[i] \in Nat
      BY <2>1
    <3> QED BY <1>1, <3>1, PrefixSums
  <2> HIDE DEF s
  <2>5. SumTo(b, k) <= SumTo(f, k)
    BY <1>4, <1>5, <2>1, <2>4
  <2>6. ASSUME b[k] > f[k] PROVE b[k] * n < SumTo(f, n) + n
    <3>1. s[k - 1] > 0
      BY <1>5, <2>2, <2>3, <2>6
    <3>2. SumTo(f, n) > 0
      <4>1. /\ SumTo(b, k - 1) + s[k - 1] = SumTo(f, k - 1) /\ SumTo(b, k - 1) \in Nat
            /\ SumTo(f, k - 1) \in Nat /\ SumTo(f, k - 1) <= SumTo(f, n) /\ SumTo(f, n) \in Nat
        BY <1>1, <1>4, <1>5, <2>1, <2>4
      <4> QED BY <2>3, <3>1, <4>1
    <3>3. b[k] * n <= C * n
      <4>1. \A x, y, z \in Nat : x <= y => x * z <= y * z
        OBVIOUS
      <4> QED BY <1>1, <1>3, <2>3, <4>1
    <3>4. C * n < SumTo(f, n) + n /\ C * n \in Nat /\ b[k] * n \in Nat /\ SumTo(f, n) \in Nat
      BY <1>1, <1>3, <1>5, <2>3, <3>2
    <3> QED BY <1>1, <3>3, <3>4
  <2> QED BY <2>5, <2>6 DEF b, f, n
<1> QED BY <1>2, <1>6, <1>7

\* The plan of a day, for every deck, clock and number of sessions: the budget of
\* new cards is never exceeded, and whenever planSession adds a session, its
\* queue is what the page counted and rebalancing only defers reviews.
THEOREM DayPlanHolds == DailySpec => DailyPlanHolds
<1>1. DailySpec => []BudgetIsKept
  BY BudgetHolds
<1>2. BudgetInv /\ [DailyNext]_dailyVars
        => [Len(queues') > Len(queues) => LaunchMatchesCount /\ BalancingOnlyDefers]_dailyVars
  <2>1. BudgetInv => DeckInv /\ DailyTypeOK
    BY DEF BudgetInv, DeckInv
  <2> QED BY <2>1, LaunchesMatch, BalancingDefers
<1>3. DailySpec
        => [][Len(queues') > Len(queues) => LaunchMatchesCount /\ BalancingOnlyDefers]_dailyVars
  BY <1>2, BudgetIsInvariant, PTL DEF DailySpec
<1> QED BY <1>1, <1>3 DEF DailyPlanHolds

--------------------------------------------------------------------------------
(***************************************************************************)
(* The three together                                                      *)
(***************************************************************************)
\* The scenes of a component are its behaviours.
LEMMA ScenesOfLearners == LearnerSpec => Spec /\ LedgerSpec /\ DailySpec
<1>1. LearnerSpec => Spec
  <2>1. [LearnerNext]_learnerVars => [Next]_vars
    BY DEF LearnerNext, learnerVars
  <2> QED BY <2>1, PTL DEF LearnerSpec, LearnerInit, Spec
<1>2. LearnerSpec => LedgerSpec
  <2>1. [LearnerNext]_learnerVars => [LedgerNext]_ledgerVars
    BY DEF LearnerNext, learnerVars
  <2> QED BY <2>1, PTL DEF LearnerSpec, LearnerInit, LedgerSpec
<1>3. LearnerSpec => DailySpec
  <2>1. [LearnerNext]_learnerVars => [DailyNext]_dailyVars
    BY DEF LearnerNext, learnerVars
  <2> QED BY <2>1, PTL DEF LearnerSpec, LearnerInit, DailySpec
<1> QED BY <1>1, <1>2, <1>3

\* Every component has its types when the three are run together, for any values
\* of their constants.
THEOREM LearnersAreTyped == LearnerSpec => []LearnerTypeOK
BY ScenesOfLearners, ExamsAreTyped, LedgerIsTyped, DaysAreTyped, PTL DEF LearnerTypeOK

\* Put together, each component still keeps its promise; the cap where events
\* carry no time of their own.
THEOREM LearnersKeepTheirPromises ==
    LearnerSpec =>
        /\ [](ServedAsSubmitted /\ AnalyticsMatchSessions /\ XpFollowsGrading /\ PaidOnce)
        /\ ~Dated => []CapNearlyHolds
        /\ DailyPlanHolds
<1>1. ~Dated => (LedgerSpec => []CapNearlyHolds)
  BY CapIsNearlyKept
<1> QED BY <1>1, ScenesOfLearners, ResultsAreOfTheSheet, TotalsStandForExams, ExamXpIsEarned,
           KeysArePaidOnce, DayPlanHolds, PTL
================================================================================
