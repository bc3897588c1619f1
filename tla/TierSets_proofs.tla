---------------------------- MODULE TierSets_proofs ----------------------------
(***************************************************************************)
(* Theorems of TierSets, for any severities, tiers to ask for, seed, and   *)
(* number of PUTs and seedings.                                            *)
(*                                                                         *)
(* Why the unique index on (severity, level) suffices for whole lists:     *)
(* what a clean PUT has not seen are whole lists (SinceIsSound), and every *)
(* list that is not empty has a level 1.  So a survivor of a severity that *)
(* the request names always clashes.  That those lists stay whole takes    *)
(* that another PUT has seen all of such a list or none of it              *)
(* (WholeOrNone), and so deletes all of it or none of it.                  *)
(***************************************************************************)
EXTENDS TierSets, FiniteSetTheorems, TLAPS

PutState ==
  {[pc |-> "new"], Answered}
    \union [pc : {"deleting", "inserting"}, tiers : TierSetRequest, clean : BOOLEAN,
            seen : SUBSET {Id(row) : row \in TierRows}]

RunState == {NoRun} \union [pc : {"scanning"}, tiers : SUBSET AnyTiers]

Typed ==
  /\ rows \subseteq TierRows
  /\ put \in [Requests -> PutState]
  /\ seeding \in [Seedings -> [minutes : Environments, done : 0..Len(SeedKeys)]]
  /\ table \in {"whole", "mixed"} \union Seedings
  /\ run \in RunState /\ trusted \in BOOLEAN
  /\ elapsed \in 0..MaxElapsed /\ level \in Nat /\ fired \subseteq Nat

KeysUnique == \A a, b \in rows : SameKey(a, b) => a = b

\* No row is from a PUT that has not committed.
NoneEarly ==
  \A q, r \in Requests :
    /\ put[q].pc # "answered" => \A row \in rows : row.by # q
    /\ put[q].pc # "answered" /\ UnderWay(r) => \A id \in put[r].seen : id.by # q

Clean(r) == UnderWay(r) /\ put[r].clean

HasLevel(S, s, k) == \E t \in S : t.severity = s /\ t.level = k

InOrder(a, b) == a.severity = b.severity /\ a.level < b.level => a.thresholdMinutes < b.thresholdMinutes

\* What a valid set of tiers has of TierSetValid beside its keys.
Sound(S) ==
  /\ \A t \in S : \A k \in 1..t.level : HasLevel(S, t.severity, k)
  /\ \A t, u \in S : InOrder(t, u)

\* What a clean PUT has not seen are whole lists,
SinceIsSound == \A r \in Requests : Clean(r) => Sound(Survivors(r))

\* each of them seen by another PUT as a whole or not at all,
WholeOrNone ==
  \A r, q \in Requests : Clean(r) /\ UnderWay(q) =>
    \A a, b \in Survivors(r) : a.severity = b.severity => (a \in Survivors(q) <=> b \in Survivors(q))

\* and PUTs have not seen the less the later they began.
Nested ==
  \A r, q \in Requests : Clean(r) /\ UnderWay(q) =>
    \/ Survivors(r) \subseteq Survivors(q)
    \/ Clean(q) /\ Survivors(q) \subseteq Survivors(r)

TableSound == table = "whole" => Sound(rows)

IsSeedKey(s, k) == \E n \in DOMAIN SeedKeys : SeedKeys[n] = [severity |-> s, level |-> k]

\* A level below one that is there is there, or a seeding will bring it.
NoGaps ==
  table # "mixed" =>
    \A row \in rows : \A k \in 1..row.level : HasLevel(rows, row.severity, k) \/ IsSeedKey(row.severity, k)

\* A seeding that has the table to itself suits it, and its tiers so far are there.
SeededSoFar ==
  \A d \in Seedings : table = d =>
    Suits(d) /\ \A n \in 1..seeding[d].done : SeedTier(d, n) \in ActiveTiers

RunIsSound == trusted /\ run # NoRun => LevelsContiguous(run.tiers) /\ ThresholdsIncrease(run.tiers)

TableInv ==
  /\ Typed /\ KeysUnique /\ NoneEarly /\ SinceIsSound /\ WholeOrNone /\ Nested
  /\ TableSound /\ NoGaps /\ SeededSoFar

IInv == TableInv /\ RunIsSound /\ NoLevelSkipped

-------------------------------------------------------------------------------
\* Contiguous lists have every level below one they have.
LEMMA ContiguousHas ==
  ASSUME NEW S, NEW u \in S, LevelsContiguous(ListOf(S, u.severity)), NEW k \in 1..u.level
  PROVE  HasLevel(S, u.severity, k)
<1>1. u \in ListOf(S, u.severity)
  BY DEF ListOf
<1>2. k \in LevelsOf(ListOf(S, u.severity))
  BY <1>1 DEF LevelsContiguous
<1> QED
  BY <1>2 DEF LevelsOf, ListOf, HasLevel

\* The keys of the seed, and the tiers it makes of them.
LEMMA SeedFacts ==
  /\ Len(SeedKeys) \in Nat /\ DOMAIN SeedKeys = 1..Len(SeedKeys)
  /\ \A n \in DOMAIN SeedKeys : SeedKeys[n].severity \in Bands /\ SeedKeys[n].level \in Nat \ {0}
  /\ \A m, n \in DOMAIN SeedKeys : SameKey(SeedKeys[m], SeedKeys[n]) => m = n
  /\ \A n \in DOMAIN SeedKeys : \A k \in 1..SeedKeys[n].level : IsSeedKey(SeedKeys[n].severity, k)
  /\ SeedTiers \subseteq TierShape
<1>1. /\ Len(SeedKeys) \in Nat /\ DOMAIN SeedKeys = 1..Len(SeedKeys)
      /\ \A n \in DOMAIN SeedKeys : SeedKeys[n] \in [severity : Bands, level : Nat \ {0}]
  <2> DEFINE Keys == [severity : Bands, level : Nat \ {0}]
  <2>1. SeedKeys \in Seq(Keys)
    BY SeedKeysAssumption
  <2> HIDE DEF Keys
  <2>2. Len(SeedKeys) \in Nat /\ DOMAIN SeedKeys = 1..Len(SeedKeys) /\ \A n \in DOMAIN SeedKeys : SeedKeys[n] \in Keys
    BY <2>1
  <2> QED
    BY <2>2 DEF Keys
<1>2. ASSUME NEW n \in DOMAIN SeedKeys, NEW k \in 1..SeedKeys[n].level
      PROVE  IsSeedKey(SeedKeys[n].severity, k)
  <2>1. CASE k = SeedKeys[n].level
    BY <1>1, <2>1 DEF IsSeedKey
  <2>2. CASE k # SeedKeys[n].level
    <3>1. SeedKeys[n].level \in Nat \ {0}
      BY <1>1
    <3>2. k \in 1..SeedKeys[n].level - 1
      BY <2>2, <3>1
    <3>3. PICK m \in 1..n - 1 : SeedKeys[m] = [severity |-> SeedKeys[n].severity, level |-> k]
      BY <3>2, SeedKeysAssumption
    <3>4. m \in DOMAIN SeedKeys
      BY <1>1, <3>3
    <3> QED
      BY <3>3, <3>4 DEF IsSeedKey
  <2> QED
    BY <2>1, <2>2
<1>3. ASSUME NEW n \in DOMAIN SeedKeys, NEW e \in Environments
      PROVE  [severity |-> SeedKeys[n].severity, level |-> SeedKeys[n].level,
              thresholdMinutes |-> e[n]] \in TierShape
  <2>1. e[n] \in Nat \ {0}
    BY EnvironmentsAssumption
  <2> QED
    BY <1>1, <2>1 DEF TierShape
<1>4. ASSUME NEW m \in DOMAIN SeedKeys, NEW n \in DOMAIN SeedKeys, SameKey(SeedKeys[m], SeedKeys[n])
      PROVE  m = n
  <2>1. SeedKeys[m] = SeedKeys[n]
    BY <1>1, <1>4 DEF SameKey
  <2> QED
    BY <2>1, SeedKeysAssumption
<1> QED
  BY <1>1, <1>2, <1>3, <1>4 DEF SeedTiers

LEMMA TiersAreTiers == AnyTiers \subseteq TierShape
  BY SeedFacts, BoundsAssumption DEF AnyTiers

\* The tiers a seeding writes.
LEMMA SeedTierFacts ==
  ASSUME Typed, NEW d \in Seedings, NEW n \in DOMAIN SeedKeys
  PROVE  /\ SeedTier(d, n) \in AnyTiers /\ SeedTier(d, n) \in TierShape
         /\ SeedTier(d, n).severity = SeedKeys[n].severity /\ SeedTier(d, n).level = SeedKeys[n].level
<1>1. seeding[d].minutes \in Environments
  BY DEF Typed
<1>2. SeedTier(d, n) \in SeedTiers
  BY <1>1 DEF SeedTier, SeedTiers
<1> QED
  BY <1>2, SeedFacts DEF AnyTiers, SeedTier

\* A request is a valid set of tiers.
LEMMA RequestFacts ==
  ASSUME NEW tiers \in TierSetRequest
  PROVE  /\ tiers \subseteq TierInputs /\ tiers \subseteq TierShape /\ tiers # {}
         /\ \A t, u \in tiers : SameKey(t, u) => t = u
         /\ Sound(tiers)
<1>1. tiers \subseteq TierInputs /\ tiers \subseteq TierShape /\ tiers # {} /\ TierSetValid(tiers)
  BY BoundsAssumption DEF TierSetRequest
<1>2. \A t \in tiers : t.severity \in Bands
  BY <1>1 DEF TierShape
<1>3. \A t, u \in tiers : (SameKey(t, u) => t = u) /\ InOrder(t, u)
  BY <1>1, <1>2 DEF TierSetValid, NoDuplicates, ThresholdsIncrease, ListOf, SameKey, InOrder
<1>4. \A t \in tiers : \A k \in 1..t.level : HasLevel(tiers, t.severity, k)
  BY <1>1, <1>2, ContiguousHas DEF TierSetValid
<1> QED
  BY <1>1, <1>3, <1>4 DEF Sound

\* A row is a tier and whom it is from.
LEMMA RowFacts ==
  /\ \A t, by :
       /\ Row(t, by).severity = t.severity /\ Row(t, by).level = t.level
       /\ Row(t, by).thresholdMinutes = t.thresholdMinutes /\ Row(t, by).by = by
       /\ Id(Row(t, by)).by = by
  /\ \A t \in TierShape : \A by : Tier(Row(t, by)) = t
  /\ \A row : /\ Tier(row).severity = row.severity /\ Tier(row).level = row.level
              /\ Tier(row).thresholdMinutes = row.thresholdMinutes
              /\ Id(row).by = row.by
  /\ \A row \in TierRows :
       /\ row.severity \in Bands /\ row.level \in Nat \ {0} /\ row.thresholdMinutes \in Nat
       /\ Tier(row) \in AnyTiers
       /\ row.by \in Requests \union Seedings
<1>1. \A t, by :
       /\ Row(t, by).severity = t.severity /\ Row(t, by).level = t.level
       /\ Row(t, by).thresholdMinutes = t.thresholdMinutes /\ Row(t, by).by = by
       /\ Id(Row(t, by)).by = by
  BY DEF Row, Id
<1>2. \A t \in TierShape : \A by : Tier(Row(t, by)) = t
  BY <1>1 DEF Tier, TierShape
<1>3. \A row : /\ Tier(row).severity = row.severity /\ Tier(row).level = row.level
               /\ Tier(row).thresholdMinutes = row.thresholdMinutes
               /\ Id(row).by = row.by
  BY DEF Tier, Id
<1>4. ASSUME NEW row \in TierRows
      PROVE  /\ row.severity \in Bands /\ row.level \in Nat \ {0} /\ row.thresholdMinutes \in Nat
             /\ Tier(row) \in AnyTiers
             /\ row.by \in Requests \union Seedings
  <2>1. PICK t \in AnyTiers, by \in Requests \union Seedings : row = Row(t, by)
    BY DEF TierRows
  <2>2. t \in TierShape
    BY TiersAreTiers
  <2> QED
    BY <1>1, <1>2, <2>1, <2>2 DEF TierShape
<1> QED
  BY <1>1, <1>2, <1>3, <1>4

\* Sound sets that share no severity are sound together.
LEMMA SoundTogether ==
  ASSUME NEW S, NEW T, Sound(S), Sound(T), \A t \in S, u \in T : t.severity # u.severity
  PROVE  Sound(S \union T)
<1>1. \A t \in S \union T : \A k \in 1..t.level : HasLevel(S \union T, t.severity, k)
  BY DEF Sound, HasLevel
<1>2. \A t, u \in S \union T : InOrder(t, u)
  BY DEF Sound, InOrder
<1> QED
  BY <1>1, <1>2 DEF Sound

\* Whole lists of a sound set are sound.
LEMMA SoundInPart ==
  ASSUME NEW S, NEW T, Sound(S), T \subseteq S,
         \A t \in T, u \in S : t.severity = u.severity => u \in T
  PROVE  Sound(T)
<1>1. \A t \in T : \A k \in 1..t.level : HasLevel(T, t.severity, k)
  BY DEF Sound, HasLevel
<1> QED
  BY <1>1 DEF Sound

\* The records of a PUT.
LEMMA PutFacts ==
  ASSUME Typed, NEW r \in Requests
  PROVE  /\ put[r] \in PutState
         /\ UnderWay(r) => /\ put[r].tiers \in TierSetRequest /\ put[r].clean \in BOOLEAN
                           /\ put[r].seen \subseteq {Id(row) : row \in TierRows}
         /\ UnderWay(r) => put[r].pc # "answered" /\ put[r].pc # "new"
         /\ Answered.pc = "answered"
<1>1. put[r] \in PutState
  BY DEF Typed
<1> QED
  BY <1>1 DEF PutState, UnderWay, Answered

LEMMA SurvivorFacts ==
  ASSUME NEW r
  PROVE  /\ Survivors(r) \subseteq rows
         /\ \A row \in rows : row \in Survivors(r) <=> Id(row) \notin put[r].seen
  BY DEF Survivors

-------------------------------------------------------------------------------
\* The initial table is empty.
LEMMA TableInit == Init => TableInv
<1> SUFFICES ASSUME Init PROVE TableInv
  OBVIOUS
<1>1. Typed
  <2>1. seeding \in [Seedings -> [minutes : Environments, done : 0..Len(SeedKeys)]]
    BY SeedFacts DEF Init
  <2>2. put \in [Requests -> PutState]
    BY DEF Init, PutState
  <2> QED
    BY <2>1, <2>2, BoundsAssumption DEF Init, Typed, RunState
<1>2. \A r \in Requests : ~UnderWay(r)
  BY DEF Init, UnderWay
<1>3. KeysUnique /\ NoneEarly
  BY <1>2 DEF Init, KeysUnique, NoneEarly
<1>4. SinceIsSound /\ WholeOrNone /\ Nested
  BY <1>2 DEF SinceIsSound, WholeOrNone, Nested, Clean
<1>5. TableSound /\ NoGaps
  BY DEF Init, TableSound, NoGaps, Sound
<1>6. SeededSoFar
  BY ProcessesAssumption DEF Init, SeededSoFar
<1> QED
  BY <1>1, <1>3, <1>4, <1>5, <1>6 DEF TableInv

\* A seeding suits a table as long as neither changes.
LEMMA SuitsStays ==
  ASSUME UNCHANGED <<rows, seeding>>, NEW d \in Seedings
  PROVE  /\ Suits(d)' <=> Suits(d)
         /\ \A n : SeedTier(d, n)' = SeedTier(d, n)
         /\ ActiveTiers' = ActiveTiers
<1>1. ActiveTiers' = ActiveTiers
  BY DEF ActiveTiers
<1>2. \A n : SeedTier(d, n)' = SeedTier(d, n)
  BY DEF SeedTier
<1>3. SeedOf(d)' = SeedOf(d)
  BY <1>2 DEF SeedOf
<1>4. Unseeded' = Unseeded
  BY <1>1 DEF Unseeded
<1> QED
  BY <1>1, <1>2, <1>3, <1>4 DEF Suits

\* A step that leaves the rows alone: a DELETE that starts has seen all of them.
LEMMA TableStays ==
  ASSUME TableInv, UNCHANGED <<rows, seeding, table>>, Typed',
         \A q \in Requests :
           /\ put[q].pc = "answered" => put'[q].pc = "answered"
           /\ UnderWay(q)' =>
                \/ put'[q].seen = {Id(row) : row \in rows} /\ put'[q].clean /\ put[q].pc # "answered"
                \/ UnderWay(q) /\ put'[q].seen = put[q].seen /\ put'[q].clean = put[q].clean
  PROVE  TableInv'
<1>0. /\ Typed /\ KeysUnique /\ NoneEarly /\ SinceIsSound /\ WholeOrNone /\ Nested
      /\ TableSound /\ NoGaps /\ SeededSoFar
  BY DEF TableInv
<1>1. NoneEarly'
  BY <1>0, RowFacts DEF NoneEarly
<1>2. ASSUME NEW q \in Requests, UnderWay(q)'
      PROVE  \/ Survivors(q)' = {} /\ Clean(q)'
             \/ UnderWay(q) /\ Survivors(q)' = Survivors(q) /\ Clean(q)' = Clean(q)
  <2>1. CASE put'[q].seen = {Id(row) : row \in rows} /\ put'[q].clean
    BY <1>2, <2>1 DEF Survivors, Clean
  <2>2. CASE UnderWay(q) /\ put'[q].seen = put[q].seen /\ put'[q].clean = put[q].clean
    BY <1>2, <2>2 DEF Survivors, Clean
  <2> QED
    BY <1>2, <2>1, <2>2
<1>3. SinceIsSound'
  <2> SUFFICES ASSUME NEW r \in Requests, Clean(r)' PROVE Sound(Survivors(r)')
    BY DEF SinceIsSound, Sound, HasLevel, InOrder
  <2>1. CASE Survivors(r)' = {}
    BY <2>1 DEF Sound
  <2>2. CASE Survivors(r)' = Survivors(r) /\ Clean(r)
    BY <1>0, <2>2 DEF SinceIsSound
  <2> QED
    BY <1>2, <2>1, <2>2 DEF Clean
<1>4. WholeOrNone'
  <2> SUFFICES ASSUME NEW r \in Requests, NEW q \in Requests, Clean(r)', UnderWay(q)',
                      NEW a \in Survivors(r)', NEW b \in Survivors(r)', a.severity = b.severity
               PROVE  a \in Survivors(q)' <=> b \in Survivors(q)'
    BY DEF WholeOrNone
  <2>1. UnderWay(r)'
    BY DEF Clean
  <2> QED
    BY <1>0, <1>2, <2>1 DEF WholeOrNone
<1>5. Nested'
  <2> SUFFICES ASSUME NEW r \in Requests, NEW q \in Requests, Clean(r)', UnderWay(q)'
               PROVE  \/ Survivors(r)' \subseteq Survivors(q)'
                      \/ Clean(q)' /\ Survivors(q)' \subseteq Survivors(r)'
    BY DEF Nested
  <2>1. UnderWay(r)'
    BY DEF Clean
  <2> QED
    BY <1>0, <1>2, <2>1 DEF Nested
<1>6. KeysUnique' /\ TableSound' /\ NoGaps'
  BY <1>0 DEF KeysUnique, TableSound, NoGaps, Sound, HasLevel, InOrder
<1>7. SeededSoFar'
  BY <1>0, SuitsStays DEF SeededSoFar
<1> QED
  BY <1>1, <1>3, <1>4, <1>5, <1>6, <1>7 DEF TableInv

\* The rows a run reads are tiers of one severity.
LEMMA ActiveFacts ==
  ASSUME Typed
  PROVE  ListOf(ActiveTiers, Watched) \subseteq AnyTiers
  BY RowFacts DEF Typed, ListOf, ActiveTiers

\* A finite set of numbers has a greatest one: its part from there on is smallest.
LEMMA GreatestExists ==
  ASSUME NEW D, IsFiniteSet(D), D \subseteq Nat, D # {}
  PROVE  \E l \in D : \A m \in D : m <= l
<1> DEFINE From(l) == {m \in D : l <= m}
           T == {From(l) : l \in D}
<1>1. T \subseteq SUBSET D /\ T # {}
  OBVIOUS
<1>2. IsWellFoundedOn(StrictSubsetOrdering(D), SUBSET D)
  BY FS_StrictSubsetOrderingWellFounded, FS_FiniteSubsetsOfFinite
<1>3. PICK U \in T : \A V \in T : ~(<<V, U>> \in StrictSubsetOrdering(D))
  <2> HIDE DEF T
  <2> QED
    BY <1>1, <1>2, WFMin
<1>4. PICK l \in D : U = From(l)
  BY <1>3
<1>5. ASSUME NEW m \in D, ~(m <= l)
      PROVE  FALSE
  <2>0. l \in Nat /\ m \in Nat /\ l < m
    BY <1>5
  <2>1. From(m) \subseteq U /\ l \in U /\ l \notin From(m)
    <3>1. l <= l /\ ~(m <= l) /\ \A k \in D : m <= k => l <= k
      BY <2>0
    <3> QED
      BY <1>4, <3>1
  <2>2. From(m) \in T /\ <<From(m), U>> \in (SUBSET D) \X (SUBSET D)
    BY <1>1, <1>3
  <2> HIDE DEF From
  <2>3. <<From(m), U>> \in StrictSubsetOrdering(D)
    BY <2>1, <2>2 DEF StrictSubsetOrdering
  <2> QED
    BY <1>3, <2>2, <2>3
<1> QED
  BY <1>5

\* The levels that are due are finitely many, as there are finitely many levels.
LEMMA DueFacts ==
  ASSUME NEW tiers, tiers \subseteq AnyTiers, level \in Nat
  PROVE  /\ TiersDueFor(tiers) \subseteq Nat /\ IsFiniteSet(TiersDueFor(tiers))
         /\ \A l \in TiersDueFor(tiers) : l > level
<1>1. tiers \subseteq TierShape
  BY TiersAreTiers
<1> DEFINE Seeded == {SeedKeys[n].level : n \in 1..Len(SeedKeys)}
<1>2. IsFiniteSet(Seeded)
  <2>1. IsFiniteSet(1..Len(SeedKeys))
    BY SeedFacts, FS_Interval
  <2> DEFINE f == [n \in 1..Len(SeedKeys) |-> SeedKeys[n].level]
  <2>2. f \in Surjection(1..Len(SeedKeys), Seeded)
    BY DEF Surjection
  <2> QED
    BY <2>1, <2>2, FS_Surjection
<1>3. IsFiniteSet(LevelsOf(TierInputs))
  <2> DEFINE g == [t \in TierInputs |-> t.level]
  <2>1. g \in Surjection(TierInputs, LevelsOf(TierInputs))
    BY DEF Surjection, LevelsOf
  <2> QED
    BY <2>1, FS_Surjection, BoundsAssumption
<1>4. TiersDueFor(tiers) \subseteq LevelsOf(TierInputs) \union Seeded
  BY SeedFacts DEF TiersDueFor, LevelsOf, AnyTiers, SeedTiers
<1>5. IsFiniteSet(TiersDueFor(tiers))
  <2> HIDE DEF Seeded
  <2>1. IsFiniteSet(LevelsOf(TierInputs) \union Seeded)
    BY <1>2, <1>3, FS_Union
  <2> QED
    BY <1>4, <2>1, FS_Subset
<1>6. TiersDueFor(tiers) \subseteq Nat
  BY <1>1 DEF TiersDueFor, TierShape
<1>7. \A l \in TiersDueFor(tiers) : l > level
  BY DEF TiersDueFor
<1> QED
  BY <1>5, <1>6, <1>7

\* A PUT whose transaction only moves on, or that is answered with nothing written.
LEMMA QuietKeepsTable ==
  ASSUME TableInv,
         \/ \E r \in Requests : PutTiers(r) \/ DeleteMany(r) \/ Rollback(r)
         \/ Tick \/ StartRun \/ EscalateBatch \/ LoseRun
  PROVE  TableInv'
<1>0. Typed
  BY DEF TableInv
<1>1. ASSUME NEW r \in Requests, PutTiers(r)
      PROVE  TableInv'
  <2>1. PICK tiers \in TierSetRequest :
          put' = [put EXCEPT ![r] = [pc |-> "deleting", tiers |-> tiers, clean |-> TRUE,
                                     seen |-> {Id(row) : row \in rows}]]
    BY <1>1 DEF PutTiers
  <2>2. put[r].pc = "new" /\ UNCHANGED <<rows, seeding, table, run, trusted, elapsed, level, fired>>
    BY <1>1 DEF PutTiers, jobVars
  <2> DEFINE p == [pc |-> "deleting", tiers |-> tiers, clean |-> TRUE, seen |-> {Id(row) : row \in rows}]
  <2>3. p \in PutState
    <3>1. {Id(row) : row \in rows} \in SUBSET {Id(row) : row \in TierRows}
      BY <1>0 DEF Typed
    <3> QED
      BY <3>1 DEF PutState
  <2>4. p.pc = "deleting" /\ p.seen = {Id(row) : row \in rows} /\ p.clean
    OBVIOUS
  <2> HIDE DEF p
  <2>5. put' = [put EXCEPT ![r] = p]
    BY <2>1 DEF p
  <2>6. Typed'
    BY <1>0, <2>2, <2>3, <2>5 DEF Typed
  <2>7. put'[r] = p /\ \A q \in Requests \ {r} : put'[q] = put[q]
    BY <1>0, <2>5 DEF Typed
  <2>8. \A q \in Requests :
          /\ put[q].pc = "answered" => put'[q].pc = "answered"
          /\ UnderWay(q)' =>
               \/ put'[q].seen = {Id(row) : row \in rows} /\ put'[q].clean /\ put[q].pc # "answered"
               \/ UnderWay(q) /\ put'[q].seen = put[q].seen /\ put'[q].clean = put[q].clean
    BY <2>2, <2>4, <2>7 DEF UnderWay
  <2> QED
    BY <2>2, <2>6, <2>8, TableStays
<1>2. ASSUME NEW r \in Requests, DeleteMany(r)
      PROVE  TableInv'
  <2>1. /\ put[r].pc = "deleting" /\ put' = [put EXCEPT ![r] = [put[r] EXCEPT !.pc = "inserting"]]
        /\ UNCHANGED <<rows, seeding, table, run, trusted, elapsed, level, fired>>
    BY <1>2 DEF DeleteMany, jobVars
  <2>2. /\ UnderWay(r)
        /\ put[r] \in [pc : {"deleting", "inserting"}, tiers : TierSetRequest, clean : BOOLEAN,
                       seen : SUBSET {Id(row) : row \in TierRows}]
    BY <1>0, <2>1 DEF UnderWay, Typed, PutState, Answered
  <2> DEFINE p == [put[r] EXCEPT !.pc = "inserting"]
  <2>3. p \in PutState /\ p.pc = "inserting" /\ p.seen = put[r].seen /\ p.clean = put[r].clean
    BY <2>2 DEF PutState
  <2> HIDE DEF p
  <2>4. put'[r] = p /\ \A q \in Requests \ {r} : put'[q] = put[q]
    BY <1>0, <2>1 DEF Typed, p
  <2>5. Typed'
    BY <1>0, <2>1, <2>3 DEF Typed, p
  <2>6. \A q \in Requests :
          /\ put[q].pc = "answered" => put'[q].pc = "answered"
          /\ UnderWay(q)' => UnderWay(q) /\ put'[q].seen = put[q].seen /\ put'[q].clean = put[q].clean
    BY <2>1, <2>2, <2>3, <2>4 DEF UnderWay
  <2> QED
    BY <2>1, <2>5, <2>6, TableStays
<1>3. ASSUME NEW r \in Requests, Rollback(r)
      PROVE  TableInv'
  <2>1. /\ put' = [put EXCEPT ![r] = Answered]
        /\ UNCHANGED <<rows, seeding, table, run, trusted, elapsed, level, fired>>
    BY <1>3 DEF Rollback, jobVars
  <2>2. put'[r].pc = "answered" /\ \A q \in Requests \ {r} : put'[q] = put[q]
    BY <1>0, <2>1 DEF Typed, Answered
  <2>3. Typed'
    BY <1>0, <2>1 DEF Typed, PutState
  <2>4. \A q \in Requests :
          /\ put[q].pc = "answered" => put'[q].pc = "answered"
          /\ UnderWay(q)' => UnderWay(q) /\ put'[q].seen = put[q].seen /\ put'[q].clean = put[q].clean
    BY <2>2 DEF UnderWay
  <2> QED
    BY <2>1, <2>3, <2>4, TableStays
<1>4. ASSUME Tick \/ StartRun \/ EscalateBatch \/ LoseRun
      PROVE  TableInv'
  <2>1. UNCHANGED <<rows, put, seeding, table>>
    BY <1>4 DEF Tick, StartRun, EscalateBatch, LoseRun, tableVars
  <2>2. Typed'
    <3>1. CASE Tick
      <4>1. elapsed' \in 0..MaxElapsed
        BY <1>0, <3>1, BoundsAssumption DEF Tick, Typed
      <4> QED
        BY <1>0, <2>1, <3>1, <4>1 DEF Tick, Typed
    <3>2. CASE StartRun
      <4>1. run' \in RunState
        BY <1>0, <3>2, ActiveFacts DEF StartRun, RunState
      <4>2. trusted' \in BOOLEAN
        BY <3>2 DEF StartRun
      <4> QED
        BY <1>0, <2>1, <3>2, <4>1, <4>2 DEF StartRun, Typed
    <3>3. CASE EscalateBatch
      <4> DEFINE due == TiersDueFor(run.tiers)
      <4>1. /\ run # NoRun /\ run' = NoRun /\ fired' = fired \union due
            /\ elapsed' = elapsed /\ trusted' = trusted
            /\ level' = IF due = {} THEN level ELSE CHOOSE l \in due : \A m \in due : m <= l
        BY <3>3 DEF EscalateBatch
      <4>2. due \subseteq Nat /\ IsFiniteSet(due)
        <5>1. run.tiers \subseteq AnyTiers /\ level \in Nat
          BY <1>0, <4>1 DEF Typed, RunState
        <5> QED
          BY <5>1, DueFacts
      <4> HIDE DEF due
      <4>3. level' \in Nat
        BY <1>0, <4>1, <4>2, GreatestExists DEF Typed
      <4> QED
        BY <1>0, <2>1, <4>1, <4>2, <4>3 DEF Typed, RunState
    <3>4. CASE LoseRun
      BY <1>0, <2>1, <3>4 DEF LoseRun, Typed, RunState
    <3> QED
      BY <1>4, <3>1, <3>2, <3>3, <3>4
  <2> QED
    BY <2>1, <2>2, TableStays DEF UnderWay
<1> QED
  BY <1>1, <1>2, <1>3, <1>4

-------------------------------------------------------------------------------
(* A PUT that commits.                                                      *)

\* The rows a PUT puts in.
News(r) == {Row(t, r) : t \in put[r].tiers}

\* What the unique index leaves of the lists that some clean PUT has not seen.
LEMMA CommitFacts ==
  ASSUME TableInv, NEW r \in Requests, CreateManyAndCommit(r)
  PROVE  /\ put[r].tiers \in TierSetRequest /\ UnderWay(r)
         /\ rows' = Survivors(r) \union News(r)
         /\ put'[r] = Answered /\ \A q \in Requests \ {r} : put'[q] = put[q]
         /\ \A row \in Survivors(r), new \in News(r) : ~SameKey(row, new)
         /\ \A q \in Requests : Clean(q) =>
              \A row \in Survivors(q), new \in News(r) :
                row \in Survivors(r) => row.severity # new.severity
<1>0. Typed /\ SinceIsSound /\ WholeOrNone
  BY DEF TableInv
<1>1. /\ put[r].pc = "inserting" /\ ~KeyTaken(r)
      /\ rows' = Survivors(r) \union {Row(t, r) : t \in put[r].tiers}
      /\ put' = [put EXCEPT ![r] = Answered]
  BY DEF CreateManyAndCommit
<1>2. put[r].tiers \in TierSetRequest /\ UnderWay(r)
  BY <1>0, <1>1, PutFacts DEF UnderWay
<1>3. put'[r] = Answered /\ \A q \in Requests \ {r} : put'[q] = put[q]
  BY <1>0, <1>1 DEF Typed
<1>4. \A row \in Survivors(r), new \in News(r) : ~SameKey(row, new)
  BY <1>1, RowFacts DEF KeyTaken, News, SameKey
<1>5. ASSUME NEW q \in Requests, Clean(q), NEW row \in Survivors(q), NEW new \in News(r),
             row \in Survivors(r), row.severity = new.severity
      PROVE  FALSE
  <2>1. PICK t \in put[r].tiers : new = Row(t, r)
    BY DEF News
  <2>2. t \in TierShape /\ new.severity = t.severity
    BY <1>2, <2>1, RequestFacts, RowFacts
  <2>3. 1 \in 1..t.level /\ 1 \in 1..row.level
    <3>1. row \in TierRows
      BY <1>0, SurvivorFacts DEF Typed
    <3>2. row.level \in Nat \ {0} /\ t.level \in Nat \ {0}
      BY <2>2, <3>1, RowFacts DEF TierShape
    <3> QED
      BY <3>2
  <2>4. PICK b \in Survivors(q) : b.severity = row.severity /\ b.level = 1
    BY <1>0, <1>5, <2>3 DEF SinceIsSound, Sound, HasLevel
  <2>5. b \in Survivors(r)
    BY <1>0, <1>2, <1>5, <2>4 DEF WholeOrNone
  <2>6. PICK u \in put[r].tiers : u.severity = t.severity /\ u.level = 1
    BY <1>2, <2>3, RequestFacts DEF Sound, HasLevel
  <2>7. SameKey(b, Row(u, r)) /\ Row(u, r) \in News(r)
    BY <1>5, <2>2, <2>4, <2>6, RowFacts DEF SameKey, News
  <2> QED
    BY <1>4, <2>5, <2>7
<1> QED
  BY <1>1, <1>2, <1>3, <1>4, <1>5 DEF News

\* The rows it puts in are a whole valid set, and nobody has seen them.
LEMMA NewsFacts ==
  ASSUME TableInv, NEW r \in Requests, UnderWay(r)
  PROVE  /\ News(r) \subseteq TierRows /\ Sound(News(r))
         /\ \A new \in News(r) : new.by = r
         /\ \A a, b \in News(r) : SameKey(a, b) => a = b
         /\ \A q \in Requests, new \in News(r) : UnderWay(q) => Id(new) \notin put[q].seen
<1>0. Typed /\ NoneEarly
  BY DEF TableInv
<1>1. put[r].tiers \in TierSetRequest /\ put[r].pc # "answered"
  BY <1>0, PutFacts
<1>2. /\ put[r].tiers \subseteq AnyTiers /\ Sound(put[r].tiers)
      /\ \A t, u \in put[r].tiers : SameKey(t, u) => t = u
  BY <1>1, RequestFacts DEF AnyTiers
<1>3. News(r) \subseteq TierRows
  BY <1>2 DEF News, TierRows
<1>4. /\ \A new \in News(r) : \E t \in put[r].tiers :
           /\ new = Row(t, r) /\ new.by = r /\ Id(new).by = r
           /\ new.severity = t.severity /\ new.level = t.level
           /\ new.thresholdMinutes = t.thresholdMinutes
      /\ \A t \in put[r].tiers : \E new \in News(r) : new.severity = t.severity /\ new.level = t.level
  BY RowFacts DEF News
<1>5. Sound(News(r))
  <2>1. \A a \in News(r) : \A k \in 1..a.level : HasLevel(News(r), a.severity, k)
    <3> SUFFICES ASSUME NEW a \in News(r), NEW k \in 1..a.level
                 PROVE  HasLevel(News(r), a.severity, k)
      OBVIOUS
    <3>1. PICK t \in put[r].tiers : a.severity = t.severity /\ a.level = t.level
      BY <1>4
    <3>2. PICK u \in put[r].tiers : u.severity = t.severity /\ u.level = k
      BY <1>2, <3>1 DEF Sound, HasLevel
    <3> QED
      BY <1>4, <3>1, <3>2 DEF HasLevel
  <2>2. \A a, b \in News(r) : InOrder(a, b)
    <3> SUFFICES ASSUME NEW a \in News(r), NEW b \in News(r) PROVE InOrder(a, b)
      OBVIOUS
    <3>1. PICK t \in put[r].tiers :
            a.severity = t.severity /\ a.level = t.level /\ a.thresholdMinutes = t.thresholdMinutes
      BY <1>4
    <3>2. PICK u \in put[r].tiers :
            b.severity = u.severity /\ b.level = u.level /\ b.thresholdMinutes = u.thresholdMinutes
      BY <1>4
    <3>3. InOrder(t, u)
      BY <1>2 DEF Sound
    <3> QED
      BY <3>1, <3>2, <3>3 DEF InOrder
  <2> QED
    BY <2>1, <2>2 DEF Sound
<1>6. \A a, b \in News(r) : SameKey(a, b) => a = b
  <2> SUFFICES ASSUME NEW a \in News(r), NEW b \in News(r), SameKey(a, b) PROVE a = b
    OBVIOUS
  <2>1. PICK t \in put[r].tiers : a = Row(t, r) /\ a.severity = t.severity /\ a.level = t.level
    BY <1>4
  <2>2. PICK u \in put[r].tiers : b = Row(u, r) /\ b.severity = u.severity /\ b.level = u.level
    BY <1>4
  <2> QED
    BY <1>2, <2>1, <2>2 DEF SameKey
<1>7. \A q \in Requests, new \in News(r) : UnderWay(q) => Id(new) \notin put[q].seen
  BY <1>0, <1>1, <1>4 DEF NoneEarly
<1> QED
  BY <1>3, <1>4, <1>5, <1>6, <1>7

\* What the other PUTs have not seen afterwards.
LEMMA SurvivorsAfter ==
  ASSUME TableInv, NEW r \in Requests, CreateManyAndCommit(r), NEW q \in Requests, UnderWay(q)'
  PROVE  /\ q # r /\ UnderWay(q) /\ (Clean(q)' <=> Clean(q))
         /\ Survivors(q)' = (Survivors(q) \intersect Survivors(r)) \union News(r)
<1>1. /\ UnderWay(r) /\ rows' = Survivors(r) \union News(r)
      /\ put'[r] = Answered /\ \A p \in Requests \ {r} : put'[p] = put[p]
  BY CommitFacts
<1>2. q # r
  BY <1>1 DEF UnderWay, Answered
<1>3. put'[q] = put[q]
  BY <1>1, <1>2
<1>4. UnderWay(q) /\ (Clean(q)' <=> Clean(q))
  BY <1>3 DEF UnderWay, Clean
<1>5. \A new \in News(r) : Id(new) \notin put[q].seen
  BY <1>1, <1>4, NewsFacts
<1>6. Survivors(q)' = {row \in rows' : Id(row) \notin put[q].seen}
  BY <1>3 DEF Survivors
<1>7. Survivors(r) \subseteq rows
  BY SurvivorFacts
<1> QED
  BY <1>1, <1>2, <1>4, <1>5, <1>6, <1>7 DEF Survivors

LEMMA CommitKeepsTable ==
  ASSUME TableInv, NEW r \in Requests, CreateManyAndCommit(r)
  PROVE  TableInv'
<1>0. Typed /\ KeysUnique /\ NoneEarly /\ SinceIsSound /\ WholeOrNone /\ Nested
  BY DEF TableInv
<1>1. /\ UnderWay(r) /\ rows' = Survivors(r) \union News(r)
      /\ put'[r] = Answered /\ \A q \in Requests \ {r} : put'[q] = put[q]
      /\ \A row \in Survivors(r), new \in News(r) : ~SameKey(row, new)
      /\ \A q \in Requests : Clean(q) =>
           \A row \in Survivors(q), new \in News(r) :
             row \in Survivors(r) => row.severity # new.severity
  BY CommitFacts
<1>2. /\ News(r) \subseteq TierRows /\ Sound(News(r))
      /\ \A new \in News(r) : new.by = r
      /\ \A a, b \in News(r) : SameKey(a, b) => a = b
  BY <1>1, NewsFacts
<1>3. Survivors(r) \subseteq rows
  BY SurvivorFacts
<1>4. /\ put' = [put EXCEPT ![r] = Answered]
      /\ table' = IF put[r].clean THEN "whole" ELSE "mixed"
      /\ UNCHANGED <<seeding, run, trusted, elapsed, level, fired>>
  BY DEF CreateManyAndCommit, jobVars
<1>5. ASSUME NEW q \in Requests, UnderWay(q)'
      PROVE  /\ q # r /\ UnderWay(q) /\ (Clean(q)' <=> Clean(q))
             /\ Survivors(q)' = (Survivors(q) \intersect Survivors(r)) \union News(r)
  BY <1>5, SurvivorsAfter
<1>6. Typed'
  <2>1. rows' \subseteq TierRows
    BY <1>0, <1>1, <1>2, <1>3 DEF Typed
  <2>2. put' \in [Requests -> PutState]
    BY <1>0, <1>4 DEF Typed, PutState
  <2> QED
    BY <1>0, <1>4, <2>1, <2>2 DEF Typed
<1>7. KeysUnique'
  <2> SUFFICES ASSUME NEW a \in rows', NEW b \in rows', SameKey(a, b)
               PROVE  a = b
    BY DEF KeysUnique
  <2>1. CASE a \in Survivors(r) /\ b \in Survivors(r)
    BY <1>0, <1>3, <2>1 DEF KeysUnique
  <2>2. SameKey(b, a)
    BY DEF SameKey
  <2> QED
    BY <1>1, <1>2, <2>1, <2>2
<1>8. NoneEarly'
  <2>1. put'[r].pc = "answered" /\ put[r].pc # "answered"
    BY <1>0, <1>1, PutFacts
  <2>2. \A q \in Requests : put'[q].pc # "answered" => q # r /\ put[q].pc # "answered"
    BY <1>1, <2>1
  <2>3. \A q \in Requests : UnderWay(q)' => UnderWay(q) /\ put'[q] = put[q]
    BY <1>1, <1>5
  <2>4. \A q \in Requests, row \in rows' : put'[q].pc # "answered" => row.by # q
    BY <1>0, <1>1, <1>2, <1>3, <2>2 DEF NoneEarly
  <2> QED
    BY <1>0, <2>2, <2>3, <2>4 DEF NoneEarly
<1>9. SinceIsSound'
  <2> SUFFICES ASSUME NEW q \in Requests, Clean(q)' PROVE Sound(Survivors(q)')
    BY DEF SinceIsSound, Sound, HasLevel, InOrder
  <2> DEFINE kept == Survivors(q) \intersect Survivors(r)
  <2>1. Clean(q) /\ Survivors(q)' = kept \union News(r)
    BY <1>5 DEF Clean
  <2>2. Sound(kept)
    <3>1. Sound(Survivors(q))
      BY <1>0, <2>1 DEF SinceIsSound
    <3>2. \A a \in kept, b \in Survivors(q) : a.severity = b.severity => b \in kept
      BY <1>0, <1>1, <2>1 DEF WholeOrNone
    <3> QED
      BY <3>1, <3>2, SoundInPart
  <2>3. \A row \in kept, new \in News(r) : row.severity # new.severity
    BY <1>1, <2>1
  <2> QED
    BY <1>2, <2>1, <2>2, <2>3, SoundTogether
<1>10. WholeOrNone'
  <2> SUFFICES ASSUME NEW p \in Requests, NEW q \in Requests, Clean(p)', UnderWay(q)',
                      NEW a \in Survivors(p)', NEW b \in Survivors(p)', a.severity = b.severity
               PROVE  a \in Survivors(q)' => b \in Survivors(q)'
    BY DEF WholeOrNone
  <2>1. Clean(p) /\ Survivors(p)' = (Survivors(p) \intersect Survivors(r)) \union News(r)
    BY <1>5 DEF Clean
  <2>2. UnderWay(q) /\ Survivors(q)' = (Survivors(q) \intersect Survivors(r)) \union News(r)
    BY <1>5
  <2>3. CASE b \in News(r)
    BY <2>2, <2>3
  <2>4. CASE b \notin News(r)
    <3>1. a \notin News(r)
      BY <1>1, <2>1, <2>4
    <3> QED
      BY <1>0, <2>1, <2>2, <2>4, <3>1 DEF WholeOrNone
  <2> QED
    BY <2>3, <2>4
<1>11. Nested'
  <2> SUFFICES ASSUME NEW p \in Requests, NEW q \in Requests, Clean(p)', UnderWay(q)'
               PROVE  \/ Survivors(p)' \subseteq Survivors(q)'
                      \/ Clean(q)' /\ Survivors(q)' \subseteq Survivors(p)'
    BY DEF Nested
  <2>1. Clean(p) /\ Survivors(p)' = (Survivors(p) \intersect Survivors(r)) \union News(r)
    BY <1>5 DEF Clean
  <2>2. /\ UnderWay(q) /\ Survivors(q)' = (Survivors(q) \intersect Survivors(r)) \union News(r)
        /\ Clean(q)' <=> Clean(q)
    BY <1>5
  <2>3. Survivors(p) \subseteq Survivors(q) \/ (Clean(q) /\ Survivors(q) \subseteq Survivors(p))
    BY <1>0, <2>1, <2>2 DEF Nested
  <2> QED
    BY <2>1, <2>2, <2>3
<1>12. TableSound'
  <2> SUFFICES ASSUME put[r].clean PROVE Sound(rows')
    BY <1>4 DEF TableSound, Sound, HasLevel, InOrder
  <2>1. Clean(r)
    BY <1>1 DEF Clean
  <2>2. Sound(Survivors(r))
    BY <1>0, <2>1 DEF SinceIsSound
  <2> QED
    BY <1>1, <1>2, <2>1, <2>2, SoundTogether
<1>13. NoGaps'
  BY <1>4, <1>12 DEF NoGaps, TableSound, Sound, HasLevel
<1>14. SeededSoFar'
  BY <1>4, ProcessesAssumption DEF SeededSoFar
<1> QED
  BY <1>6, <1>7, <1>8, <1>9, <1>10, <1>11, <1>12, <1>13, <1>14 DEF TableInv

-------------------------------------------------------------------------------
(* A seeding.                                                               *)

\* The rows an upsert writes over, and what it leaves in their place.
OldRows(t) == {row \in rows : SameKey(row, t)}

Written(d, t) == IF OldRows(t) = {} THEN {Row(t, d)} ELSE {Row(t, row.by) : row \in OldRows(t)}

\* What one upsert does to the rows.
LEMMA UpsertFacts ==
  ASSUME TableInv, NEW d \in Seedings, Upsert(d)
  PROVE  LET n == seeding[d].done + 1
             t == SeedTier(d, n)
         IN  /\ n \in DOMAIN SeedKeys /\ t \in AnyTiers /\ t \in TierShape
             /\ t.severity = SeedKeys[n].severity /\ t.level = SeedKeys[n].level
             /\ rows' = (rows \ OldRows(t)) \union Written(d, t)
             /\ Written(d, t) \subseteq TierRows /\ Written(d, t) # {}
             /\ \A row \in Written(d, t) :
                  /\ row.severity = t.severity /\ row.level = t.level
                  /\ row.thresholdMinutes = t.thresholdMinutes /\ Tier(row) = t
                  /\ row.by = d \/ \E old \in rows : row.by = old.by
             /\ \A a, b \in Written(d, t) : a = b
             /\ seeding'[d].done = n /\ seeding'[d].minutes = seeding[d].minutes
             /\ \A c \in Seedings \ {d} : seeding'[c] = seeding[c]
<1> DEFINE n == seeding[d].done + 1
           t == SeedTier(d, n)
           old == {row \in rows : SameKey(row, t)}
<1>0. Typed /\ KeysUnique
  BY DEF TableInv
<1>1. /\ seeding[d].done < Len(SeedKeys)
      /\ rows' = (rows \ old) \union
                   (IF old = {} THEN {Row(t, d)} ELSE {Row(t, row.by) : row \in old})
      /\ seeding' = [seeding EXCEPT ![d] = [seeding[d] EXCEPT !.done = n]]
  BY DEF Upsert
<1>2. seeding[d] \in [minutes : Environments, done : 0..Len(SeedKeys)]
  BY <1>0 DEF Typed
<1>3. n \in DOMAIN SeedKeys
  BY <1>1, <1>2, SeedFacts
<1> HIDE DEF n
<1>4. /\ t \in AnyTiers /\ t \in TierShape
      /\ t.severity = SeedKeys[n].severity /\ t.level = SeedKeys[n].level
  BY <1>0, <1>3, SeedTierFacts
<1> HIDE DEF t
<1>5. rows' = (rows \ OldRows(t)) \union Written(d, t)
  BY <1>1 DEF OldRows, Written
<1>6. ASSUME NEW row \in Written(d, t)
      PROVE  /\ row \in TierRows
             /\ row.severity = t.severity /\ row.level = t.level
             /\ row.thresholdMinutes = t.thresholdMinutes /\ Tier(row) = t
             /\ row.by = d \/ \E o \in rows : row.by = o.by
  <2>1. PICK by : row = Row(t, by) /\ (by = d \/ \E o \in OldRows(t) : by = o.by)
    BY DEF Written
  <2>2. by \in Requests \union Seedings
    BY <1>0, <2>1, RowFacts DEF OldRows, Typed
  <2>3. row \in TierRows
    BY <1>4, <2>1, <2>2 DEF TierRows
  <2> QED
    BY <1>4, <2>1, <2>3, RowFacts DEF OldRows
<1>7. Written(d, t) # {}
  BY DEF Written
<1>8. \A a, b \in OldRows(t) : a = b
  BY <1>0 DEF OldRows, KeysUnique, SameKey
<1>9. \A a, b \in Written(d, t) : a = b
  BY <1>8 DEF Written
<1>10. /\ seeding'[d].done = n /\ seeding'[d].minutes = seeding[d].minutes
       /\ \A c \in Seedings \ {d} : seeding'[c] = seeding[c]
  BY <1>0, <1>1, <1>2 DEF Typed
<1> QED
  BY <1>3, <1>4, <1>5, <1>6, <1>7, <1>9, <1>10 DEF n, t

\* A PUT under way is not clean any more, and is otherwise the same.
LEMMA UpsertPuts ==
  ASSUME TableInv, NEW d \in Seedings, Upsert(d), NEW r \in Requests
  PROVE  /\ put'[r] \in PutState /\ put'[r].pc = put[r].pc /\ ~Clean(r)'
         /\ UnderWay(r)' <=> UnderWay(r)
         /\ UnderWay(r) => put'[r].seen = put[r].seen /\ put'[r].tiers = put[r].tiers /\ ~put'[r].clean
         /\ ~UnderWay(r) => put'[r] = put[r]
<1>1. put[r] \in PutState
  BY PutFacts DEF TableInv
<1>2. put'[r] = IF UnderWay(r) THEN [put[r] EXCEPT !.clean = FALSE] ELSE put[r]
  BY DEF Upsert
<1>3. CASE UnderWay(r)
  <2>1. put[r] \in [pc : {"deleting", "inserting"}, tiers : TierSetRequest, clean : BOOLEAN,
                    seen : SUBSET {Id(row) : row \in TierRows}]
    BY <1>1, <1>3 DEF PutState, UnderWay, Answered
  <2>2. /\ put'[r] \in PutState /\ put'[r].pc = put[r].pc /\ ~put'[r].clean
        /\ put'[r].seen = put[r].seen /\ put'[r].tiers = put[r].tiers
    BY <1>2, <1>3, <2>1 DEF PutState
  <2> QED
    BY <1>3, <2>2 DEF Clean, UnderWay
<1>4. CASE ~UnderWay(r)
  <2>1. put'[r] = put[r]
    BY <1>2, <1>4
  <2> QED
    BY <1>1, <1>4, <2>1 DEF UnderWay, Clean
<1> QED
  BY <1>3, <1>4

\* What is not a tier of the seed stays, so the seeding goes on suiting the table.
LEMMA UpsertSuits ==
  ASSUME TableInv, NEW d \in Seedings, Upsert(d)
  PROVE  /\ Suits(d)' <=> Suits(d)
         /\ SeedOf(d)' = SeedOf(d) /\ Unseeded' = Unseeded
         /\ \A n : SeedTier(d, n)' = SeedTier(d, n)
<1> DEFINE m == seeding[d].done + 1
           t == SeedTier(d, m)
<1>1. /\ m \in DOMAIN SeedKeys /\ t.severity = SeedKeys[m].severity /\ t.level = SeedKeys[m].level
      /\ rows' = (rows \ OldRows(t)) \union Written(d, t)
      /\ \A row \in Written(d, t) : Tier(row) = t
      /\ seeding'[d].minutes = seeding[d].minutes
  BY UpsertFacts
<1> HIDE DEF t, m
<1>2. \A n : SeedTier(d, n)' = SeedTier(d, n)
  BY <1>1 DEF SeedTier
<1>3. SeedOf(d)' = SeedOf(d)
  BY <1>2 DEF SeedOf
<1>4. Unseeded' = Unseeded
  <2>1. SameKey(t, SeedKeys[m])
    BY <1>1 DEF SameKey
  <2>2. \A row \in OldRows(t) : SameKey(Tier(row), SeedKeys[m])
    BY <1>1, RowFacts DEF OldRows, SameKey
  <2>3. \A u : (\A n \in DOMAIN SeedKeys : ~SameKey(u, SeedKeys[n])) => (u \in ActiveTiers' <=> u \in ActiveTiers)
    BY <1>1, <2>1, <2>2 DEF ActiveTiers, OldRows
  <2> QED
    BY <2>3 DEF Unseeded
<1> QED
  BY <1>2, <1>3, <1>4 DEF Suits

\* A seeding that is through, suited the table and had it to itself leaves a valid table.
LEMMA SeededIsSound ==
  ASSUME NEW R, R \subseteq TierRows, \A a, b \in R : SameKey(a, b) => a = b,
         NEW S, NEW U, \A s \in Bands : ThresholdsIncrease(ListOf(S \union U, s)),
         \A n \in DOMAIN SeedKeys : \E row \in R : Tier(row) \in S /\ SameKey(row, SeedKeys[n]),
         \A row \in R : (\A n \in DOMAIN SeedKeys : ~SameKey(row, SeedKeys[n])) => Tier(row) \in U,
         \A row \in R : \A k \in 1..row.level :
           HasLevel(R, row.severity, k) \/ IsSeedKey(row.severity, k)
  PROVE  Sound(R)
<1>1. \A row \in R : \A k \in 1..row.level : HasLevel(R, row.severity, k)
  BY DEF IsSeedKey, HasLevel, SameKey
<1>2. ASSUME NEW a \in R
      PROVE  Tier(a) \in S \union U
  <2>1. CASE \E n \in DOMAIN SeedKeys : SameKey(a, SeedKeys[n])
    <3>1. PICK n \in DOMAIN SeedKeys : SameKey(a, SeedKeys[n])
      BY <2>1
    <3>2. PICK row \in R : Tier(row) \in S /\ SameKey(row, SeedKeys[n])
      OBVIOUS
    <3>3. a = row
      BY <3>1, <3>2 DEF SameKey
    <3> QED
      BY <3>2, <3>3
  <2>2. CASE \A n \in DOMAIN SeedKeys : ~SameKey(a, SeedKeys[n])
    BY <2>2
  <2> QED
    BY <2>1, <2>2
<1>3. ASSUME NEW a \in R, NEW b \in R
      PROVE  InOrder(a, b)
  <2>1. /\ a.severity \in Bands
        /\ Tier(a).severity = a.severity /\ Tier(b).severity = b.severity
        /\ Tier(a).level = a.level /\ Tier(b).level = b.level
        /\ Tier(a).thresholdMinutes = a.thresholdMinutes /\ Tier(b).thresholdMinutes = b.thresholdMinutes
    BY RowFacts
  <2>2. Tier(a) \in S \union U /\ Tier(b) \in S \union U
    BY <1>2
  <2> QED
    BY <2>1, <2>2 DEF ThresholdsIncrease, ListOf, InOrder
<1> QED
  BY <1>1, <1>3 DEF Sound

LEMMA UpsertKeepsTable ==
  ASSUME TableInv, NEW d \in Seedings, Upsert(d)
  PROVE  TableInv'
<1> DEFINE m == seeding[d].done + 1
           t == SeedTier(d, m)
<1>0. Typed /\ KeysUnique /\ NoneEarly /\ TableSound /\ NoGaps /\ SeededSoFar
  BY DEF TableInv
<1>1. /\ m \in DOMAIN SeedKeys
      /\ t.severity = SeedKeys[m].severity /\ t.level = SeedKeys[m].level
      /\ rows' = (rows \ OldRows(t)) \union Written(d, t)
      /\ Written(d, t) \subseteq TierRows /\ Written(d, t) # {}
      /\ \A row \in Written(d, t) :
           /\ row.severity = t.severity /\ row.level = t.level /\ Tier(row) = t
           /\ row.by = d \/ \E old \in rows : row.by = old.by
      /\ \A a, b \in Written(d, t) : a = b
      /\ seeding'[d].done = m /\ seeding'[d].minutes = seeding[d].minutes
      /\ \A c \in Seedings \ {d} : seeding'[c] = seeding[c]
  BY UpsertFacts
<1>2. /\ seeding' = [seeding EXCEPT ![d] = [seeding[d] EXCEPT !.done = m]]
      /\ put' = [r \in Requests |-> IF UnderWay(r) THEN [put[r] EXCEPT !.clean = FALSE] ELSE put[r]]
      /\ table' = TableAfterUpsert(d)
      /\ UNCHANGED <<run, trusted, elapsed, level, fired>>
  BY DEF Upsert, jobVars
<1>3. seeding[d].done \in Nat /\ m = seeding[d].done + 1
  BY <1>0 DEF Typed
<1> HIDE DEF m, t
<1>4. table' \in {"whole", "mixed", d}
  BY <1>2 DEF TableAfterUpsert
<1>5. Typed'
  <2>1. seeding[d] \in [minutes : Environments, done : 0..Len(SeedKeys)] /\ m \in 0..Len(SeedKeys)
    BY <1>0, <1>1, SeedFacts DEF Typed
  <2>2. seeding' \in [Seedings -> [minutes : Environments, done : 0..Len(SeedKeys)]]
    BY <1>0, <1>2, <2>1 DEF Typed
  <2>3. put' \in [Requests -> PutState]
    BY <1>2, UpsertPuts
  <2>4. rows' \subseteq TierRows
    BY <1>0, <1>1 DEF Typed
  <2>5. table' \in {"whole", "mixed"} \union Seedings
    BY <1>4
  <2> QED
    BY <1>0, <1>2, <2>2, <2>3, <2>4, <2>5 DEF Typed
<1>6. KeysUnique'
  <2> SUFFICES ASSUME NEW a \in rows', NEW b \in rows', SameKey(a, b)
               PROVE  a = b
    BY DEF KeysUnique
  <2> QED
    BY <1>0, <1>1 DEF KeysUnique, OldRows, SameKey
<1>7. NoneEarly'
  <2>1. \A q \in Requests : put'[q].pc = put[q].pc /\ d # q
    BY UpsertPuts, ProcessesAssumption
  <2>2. \A q \in Requests, row \in rows' : put'[q].pc # "answered" => row.by # q
    BY <1>0, <1>1, <2>1 DEF NoneEarly
  <2>3. \A q \in Requests : UnderWay(q)' => UnderWay(q) /\ put'[q].seen = put[q].seen
    BY UpsertPuts
  <2> QED
    BY <1>0, <2>1, <2>2, <2>3 DEF NoneEarly
<1>8. SinceIsSound' /\ WholeOrNone' /\ Nested'
  BY UpsertPuts DEF SinceIsSound, WholeOrNone, Nested
<1>9. \A s, k : HasLevel(rows, s, k) => HasLevel(rows', s, k)
  <2> SUFFICES ASSUME NEW row \in rows
               PROVE  \E a \in rows' : a.severity = row.severity /\ a.level = row.level
    BY DEF HasLevel
  <2> QED
    BY <1>1 DEF OldRows, SameKey
<1>10. table' # "mixed" => /\ Suits(d)
                           /\ table # "mixed"
                           /\ seeding[d].done # 0 => table = d
  <2>1. table' # "mixed" =>
          IF seeding[d].done = 0 THEN table # "mixed" /\ Suits(d) ELSE table = d
    BY <1>2 DEF TableAfterUpsert
  <2>2. d # "mixed"
    BY ProcessesAssumption
  <2> QED
    BY <1>0, <2>1, <2>2 DEF SeededSoFar
<1>11. table' # "mixed" =>
         \A row \in rows' : \A k \in 1..row.level :
           HasLevel(rows', row.severity, k) \/ IsSeedKey(row.severity, k)
  <2> SUFFICES ASSUME table' # "mixed", NEW row \in rows', NEW k \in 1..row.level
               PROVE  HasLevel(rows', row.severity, k) \/ IsSeedKey(row.severity, k)
    OBVIOUS
  <2>1. CASE row \in rows
    BY <1>0, <1>9, <1>10, <2>1 DEF NoGaps
  <2>2. CASE row \in Written(d, t)
    BY <1>1, <2>2, SeedFacts
  <2> QED
    BY <1>1, <2>1, <2>2
<1>12. NoGaps'
  BY <1>11 DEF NoGaps, HasLevel
<1>13. table' # "mixed" => \A n \in 1..m : SeedTier(d, n) \in ActiveTiers'
  <2> SUFFICES ASSUME table' # "mixed", NEW n \in 1..m
               PROVE  SeedTier(d, n) \in ActiveTiers'
    OBVIOUS
  <2>1. CASE n = m
    <3>1. SeedTier(d, n) = t
      BY <2>1 DEF t
    <3> QED
      BY <1>1, <3>1 DEF ActiveTiers
  <2>2. CASE n # m
    <3>1. n \in 1..seeding[d].done /\ seeding[d].done # 0 /\ m \in 1..Len(SeedKeys)
      BY <1>1, <1>3, <2>2, SeedFacts
    <3>2. PICK row \in rows : Tier(row) = SeedTier(d, n)
      BY <1>0, <1>10, <3>1 DEF SeededSoFar, ActiveTiers
    <3>3. n \in DOMAIN SeedKeys
      BY <3>1, <1>3, SeedFacts
    <3>4. ~SameKey(SeedKeys[n], SeedKeys[m])
      BY <1>1, <2>2, <3>3, SeedFacts
    <3>5. row \notin OldRows(t)
      BY <1>0, <1>1, <3>2, <3>3, <3>4, SeedTierFacts, RowFacts DEF OldRows, SameKey
    <3> QED
      BY <1>1, <3>2, <3>5 DEF ActiveTiers
  <2> QED
    BY <2>1, <2>2
<1>14. /\ Suits(d)' <=> Suits(d)
       /\ \A n : SeedTier(d, n)' = SeedTier(d, n)
  BY UpsertSuits
<1>15. SeededSoFar'
  <2> SUFFICES ASSUME NEW c \in Seedings, table' = c
               PROVE  Suits(c)' /\ \A n \in 1..seeding'[c].done : SeedTier(c, n)' \in ActiveTiers'
    BY DEF SeededSoFar
  <2>1. c = d /\ table' # "mixed"
    BY <1>4, ProcessesAssumption
  <2> QED
    BY <1>1, <1>10, <1>13, <1>14, <2>1
<1>16. TableSound'
  <2> SUFFICES ASSUME table' = "whole" PROVE Sound(rows')
    BY DEF TableSound, Sound, HasLevel, InOrder
  <2>1. d # "whole" /\ table' # "mixed"
    BY ProcessesAssumption
  <2>2. m = Len(SeedKeys)
    BY <1>2, <1>3, <2>1 DEF TableAfterUpsert
  <2>3. ASSUME NEW n \in DOMAIN SeedKeys
        PROVE  \E row \in rows' : Tier(row) \in SeedOf(d) /\ SameKey(row, SeedKeys[n])
    <3>1. n \in 1..m
      BY <2>2, SeedFacts
    <3>2. PICK row \in rows' : Tier(row) = SeedTier(d, n)
      BY <1>13, <2>1, <3>1 DEF ActiveTiers
    <3>3. SameKey(row, SeedKeys[n])
      BY <1>0, <3>2, SeedTierFacts, RowFacts DEF SameKey
    <3> QED
      BY <3>2, <3>3 DEF SeedOf
  <2>4. \A row \in rows' : (\A n \in DOMAIN SeedKeys : ~SameKey(row, SeedKeys[n])) => Tier(row) \in Unseeded'
    BY RowFacts DEF Unseeded, ActiveTiers, SameKey
  <2>5. \A s \in Bands : ThresholdsIncrease(ListOf(SeedOf(d) \union Unseeded', s))
    BY <1>10, <2>1, UpsertSuits DEF Suits
  <2>6. rows' \subseteq TierRows /\ \A a, b \in rows' : SameKey(a, b) => a = b
    BY <1>5, <1>6 DEF Typed, KeysUnique, TierRows, AnyTiers
  <2> QED
    BY <1>11, <2>1, <2>3, <2>4, <2>5, <2>6, SeededIsSound
<1> QED
  BY <1>5, <1>6, <1>7, <1>8, <1>12, <1>15, <1>16 DEF TableInv

LEMMA TableStep == TableInv /\ [Next]_vars => TableInv'
<1> SUFFICES ASSUME TableInv, [Next]_vars PROVE TableInv'
  OBVIOUS
<1>1. CASE UNCHANGED vars
  <2>1. Typed'
    BY <1>1 DEF vars, TableInv, Typed
  <2> QED
    BY <1>1, <2>1, TableStays DEF vars, UnderWay
<1> QED
  BY <1>1, QuietKeepsTable, CommitKeepsTable, UpsertKeepsTable DEF Next

-------------------------------------------------------------------------------
(* The run and the incident it escalates.                                   *)

\* A whole table is a valid set of tiers.
LEMMA ActiveIsValid ==
  ASSUME TableInv, table = "whole"
  PROVE  TierSetValid(ActiveTiers)
<1>0. KeysUnique /\ Sound(rows)
  BY DEF TableInv, TableSound
<1>1. /\ \A u \in ActiveTiers : \E row \in rows :
           /\ u = Tier(row) /\ u.severity = row.severity /\ u.level = row.level
           /\ u.thresholdMinutes = row.thresholdMinutes
      /\ \A row \in rows :
           /\ Tier(row) \in ActiveTiers
           /\ Tier(row).severity = row.severity /\ Tier(row).level = row.level
  BY RowFacts DEF ActiveTiers
<1>2. ASSUME NEW s \in Bands, NEW u \in ListOf(ActiveTiers, s), NEW k \in 1..u.level
      PROVE  k \in LevelsOf(ListOf(ActiveTiers, s))
  <2>1. PICK row \in rows : row.severity = s /\ k \in 1..row.level
    BY <1>1, <1>2 DEF ListOf
  <2>2. PICK a \in rows : a.severity = s /\ a.level = k
    BY <1>0, <2>1 DEF Sound, HasLevel
  <2> QED
    BY <1>1, <2>2 DEF ListOf, LevelsOf
<1>3. NoDuplicates(ActiveTiers)
  <2> SUFFICES ASSUME NEW u \in ActiveTiers, NEW v \in ActiveTiers, SameKey(u, v)
               PROVE  u = v
    BY DEF NoDuplicates, SameKey
  <2>1. PICK a \in rows : u = Tier(a) /\ u.severity = a.severity /\ u.level = a.level
    BY <1>1
  <2>2. PICK b \in rows : v = Tier(b) /\ v.severity = b.severity /\ v.level = b.level
    BY <1>1
  <2>3. a = b
    BY <1>0, <2>1, <2>2 DEF KeysUnique, SameKey
  <2> QED
    BY <2>1, <2>2, <2>3
<1>4. ASSUME NEW s \in Bands, NEW u \in ListOf(ActiveTiers, s), NEW v \in ListOf(ActiveTiers, s),
             u.level < v.level
      PROVE  u.thresholdMinutes < v.thresholdMinutes
  <2>1. PICK a \in rows :
          a.severity = s /\ a.level = u.level /\ a.thresholdMinutes = u.thresholdMinutes
    BY <1>1 DEF ListOf
  <2>2. PICK b \in rows :
          b.severity = s /\ b.level = v.level /\ b.thresholdMinutes = v.thresholdMinutes
    BY <1>1 DEF ListOf
  <2>3. InOrder(a, b)
    BY <1>0 DEF Sound
  <2> QED
    BY <1>4, <2>1, <2>2, <2>3 DEF InOrder
<1> QED
  BY <1>2, <1>3, <1>4 DEF TierSetValid, LevelsContiguous, ThresholdsIncrease

\* A run works with a list that was valid when it read it, if the table was whole then.
LEMMA RunStep ==
  ASSUME TableInv, RunIsSound, [Next]_vars
  PROVE  RunIsSound'
<1>1. CASE StartRun
  <2>1. /\ run' = [pc |-> "scanning", tiers |-> ListOf(ActiveTiers, Watched)]
        /\ trusted' => table = "whole"
    BY <1>1 DEF StartRun
  <2>2. run'.tiers = ListOf(ActiveTiers, Watched)
    BY <2>1
  <2> QED
    BY <2>1, <2>2, ActiveIsValid, BoundsAssumption DEF RunIsSound, TierSetValid
<1>2. CASE EscalateBatch \/ LoseRun
  BY <1>2 DEF EscalateBatch, LoseRun, RunIsSound
<1>3. CASE UNCHANGED <<run, trusted>>
  BY <1>3 DEF RunIsSound
<1>4. StartRun \/ EscalateBatch \/ LoseRun \/ UNCHANGED <<run, trusted>>
  BY DEF Next, vars, jobVars, PutTiers, DeleteMany, CreateManyAndCommit, Rollback, Upsert, Tick
<1> QED
  BY <1>1, <1>2, <1>3, <1>4

\* The levels that are due are the next ones, up to the number there are of them: a
\* level that is due has those below it due, which have lower thresholds.
LEMMA DueIsNext ==
  ASSUME NEW tiers, tiers \subseteq AnyTiers,
         LevelsContiguous(tiers), ThresholdsIncrease(tiers), level \in Nat, elapsed \in Nat
  PROVE  \E n \in Nat : TiersDueFor(tiers) = level + 1 .. level + n
<1> DEFINE due == TiersDueFor(tiers)
           n == Cardinality(due)
<1>1. due \subseteq Nat /\ IsFiniteSet(due) /\ (\A l \in due : l > level) /\ n \in Nat
  BY DueFacts, FS_CardinalityType
<1>2. tiers \subseteq TierShape
  BY TiersAreTiers
<1>3. ASSUME NEW l \in due
      PROVE  level + 1 .. l \subseteq due
  <2>1. PICK u \in tiers : u.level = l /\ elapsed >= u.thresholdMinutes
    BY <1>3 DEF TiersDueFor
  <2> SUFFICES ASSUME NEW m \in level + 1 .. l
               PROVE  \E v \in tiers : v.level = m /\ v.level > level /\ elapsed >= v.thresholdMinutes
    BY DEF TiersDueFor
  <2>2. m \in 1..u.level /\ m > level /\ l \in Nat
    BY <1>1, <2>1
  <2>3. CASE m = l
    BY <2>1, <2>2, <2>3
  <2>4. CASE m # l
    <3>1. m \in LevelsOf(tiers)
      BY <2>1, <2>2 DEF LevelsContiguous
    <3>2. PICK v \in tiers : v.level = m
      BY <3>1 DEF LevelsOf
    <3>3. v.thresholdMinutes \in Nat /\ u.thresholdMinutes \in Nat /\ v.thresholdMinutes < u.thresholdMinutes
      BY <1>2, <2>1, <2>2, <2>4, <3>2 DEF ThresholdsIncrease, TierShape
    <3> QED
      BY <2>1, <2>2, <3>2, <3>3
  <2> QED
    BY <2>3, <2>4
<1> HIDE DEF due
<1>4. ASSUME NEW l \in due
      PROVE  l \in level + 1 .. level + n
  <2>1. level + 1 .. l \subseteq due /\ l \in Nat /\ l > level
    BY <1>1, <1>3
  <2>2. Cardinality(level + 1 .. l) = l - level
    BY <2>1, FS_Interval
  <2>3. Cardinality(level + 1 .. l) <= n
    BY <1>1, <2>1, FS_Subset
  <2> QED
    BY <1>1, <2>1, <2>2, <2>3
<1>5. IsFiniteSet(level + 1 .. level + n) /\ Cardinality(level + 1 .. level + n) = n
  <2> DEFINE first == level + 1
             last == level + n
  <2>1. first \in Int /\ last \in Int /\ (first > last => n = 0) /\ last - first + 1 = n /\ n \in Nat
    BY <1>1
  <2> HIDE DEF first, last, n
  <2>2. IsFiniteSet(first .. last) /\ Cardinality(first .. last) = IF first > last THEN 0 ELSE last - first + 1
    BY <2>1, FS_Interval
  <2>3. IsFiniteSet(first .. last) /\ Cardinality(first .. last) = n
    BY <2>1, <2>2
  <2> QED
    BY <2>3 DEF first, last
<1>6. due = level + 1 .. level + n
  BY <1>4, <1>5, FS_Subset
<1> QED
  BY <1>1, <1>6 DEF due

\* No level is skipped: the levels a batch fires come right after those that have fired.
LEMMA LevelStep ==
  ASSUME TableInv, RunIsSound, NoLevelSkipped, [Next]_vars
  PROVE  NoLevelSkipped'
<1>1. CASE UNCHANGED <<level, fired>> /\ (trusted' => trusted)
  BY <1>1 DEF NoLevelSkipped
<1>2. CASE EscalateBatch
  <2> DEFINE due == TiersDueFor(run.tiers)
  <2>1. /\ run # NoRun /\ fired' = fired \union due /\ trusted' = trusted
        /\ level' = IF due = {} THEN level ELSE CHOOSE l \in due : \A m \in due : m <= l
    BY <1>2 DEF EscalateBatch
  <2> SUFFICES ASSUME trusted PROVE fired' = 1..level'
    BY <2>1 DEF NoLevelSkipped
  <2>2. run.tiers \subseteq AnyTiers /\ level \in Nat /\ elapsed \in Nat
    BY <2>1, BoundsAssumption DEF TableInv, Typed, RunState
  <2>3. PICK n \in Nat : due = level + 1 .. level + n
    BY <2>1, <2>2, DueIsNext DEF RunIsSound
  <2> HIDE DEF due
  <2>4. CASE n = 0
    <3>1. due = {}
      BY <2>2, <2>3, <2>4
    <3> QED
      BY <2>1, <3>1 DEF NoLevelSkipped
  <2>5. CASE n # 0
    <3>1. level + n \in due /\ \A m \in due : m <= level + n
      BY <2>2, <2>3, <2>5
    <3>2. \A l \in due : (\A m \in due : m <= l) => l = level + n
      BY <2>2, <2>3, <3>1
    <3>3. level' = level + n
      BY <2>1, <3>1, <3>2
    <3>4. fired' = 1..level \union (level + 1 .. level + n)
      BY <2>1, <2>3 DEF NoLevelSkipped
    <3> QED
      BY <2>2, <3>3, <3>4
  <2> QED
    BY <2>4, <2>5
<1>3. EscalateBatch \/ (UNCHANGED <<level, fired>> /\ (trusted' => trusted))
  BY DEF Next, vars, jobVars, PutTiers, DeleteMany, CreateManyAndCommit, Rollback, Upsert,
         Tick, StartRun, LoseRun
<1> QED
  BY <1>1, <1>2, <1>3

-------------------------------------------------------------------------------
\* The table, the PUTs under way and the run that has read the table keep fitting
\* together, whatever is deleted, inserted, rolled back or seeded in between.
THEOREM Invariance == Spec => []IInv
<1>1. Init => IInv
  <2> SUFFICES ASSUME Init PROVE IInv
    OBVIOUS
  <2>1. RunIsSound /\ NoLevelSkipped
    BY DEF Init, RunIsSound, NoLevelSkipped
  <2> QED
    BY <2>1, TableInit DEF IInv
<1>2. IInv /\ [Next]_vars => IInv'
  BY TableStep, RunStep, LevelStep DEF IInv
<1> QED
  BY <1>1, <1>2, PTL DEF Spec

\* The variables have their types, and no two rows have the same severity and level
\* (the unique index, which upserts and INSERTs keep).
THEOREM TypeCorrect == Spec => []TypeOK
<1>1. IInv => TypeOK
  <2> SUFFICES ASSUME IInv PROVE TypeOK
    OBVIOUS
  <2>1. Typed /\ KeysUnique
    BY DEF IInv, TableInv
  <2>2. \A r \in Requests : put[r].pc \in {"new", "deleting", "inserting", "answered"}
    BY <2>1 DEF Typed, PutState, Answered
  <2> QED
    BY <2>1, <2>2, PutFacts DEF TypeOK, Typed, KeysUnique
<1> QED
  BY <1>1, Invariance, PTL

\* PUTs that overlap leave a table that passes the request schema as a whole, and so does
\* a seeding that suits the table and that nobody else's write comes into
\* (tiers.repository.ts, replaceTierSet; escalationTiers.seed.ts).
THEOREM TableStaysValid == Spec => []TiersValid
<1>1. IInv => TiersValid
  BY ActiveIsValid DEF IInv, TiersValid
<1> QED
  BY <1>1, Invariance, PTL

\* The levels of an incident fire without a gap, although runs work with the tiers as
\* they were when the run began and the table changes between runs, and be the table
\* mixed while no run reads it.
THEOREM LevelsFireInOrder == Spec => []NoLevelSkipped
<1>1. IInv => NoLevelSkipped
  BY DEF IInv
<1> QED
  BY <1>1, Invariance, PTL

-------------------------------------------------------------------------------
(* The register.                                                            *)

\* The list of a severity, as the register has it.
Brevity(tiers, s) == {Brief(t) : t \in ListOf(tiers, s)}

LEMMA ListsAt ==
  ASSUME NEW tiers
  PROVE  /\ ListsOf(tiers) = [s \in Bands |-> Brevity(tiers, s)]
         /\ \A s \in Bands : /\ ListsOf(tiers)[s] = Brevity(tiers, s)
                              /\ Brevity(tiers, s) = {} <=> ListOf(tiers, s) = {}
  BY DEF ListsOf, Brevity

\* What the register has of a PUT.
LEMMA PutOfFacts ==
  ASSUME Typed, NEW r \in Requests
  PROVE  /\ PutOf(r).pc = "begun" <=> Clean(r)
         /\ PutOf(r).pc = "disturbed" <=> UnderWay(r) /\ ~Clean(r)
         /\ Clean(r) => /\ PutOf(r) = Register!Begun(ListsOf(put[r].tiers), ListsOf(Survivors(r)))
                        /\ PutOf(r).wants = ListsOf(put[r].tiers)
                        /\ PutOf(r).since = ListsOf(Survivors(r))
         /\ UnderWay(r) /\ ~Clean(r) => /\ PutOf(r) = Register!Disturbed(ListsOf(put[r].tiers))
                                        /\ PutOf(r).wants = ListsOf(put[r].tiers)
         /\ ~UnderWay(r) => PutOf(r) = put[r]
<1>1. put[r] \in PutState
  BY DEF Typed
<1>2. CASE Clean(r)
  BY <1>2 DEF PutOf, Clean, Register!Begun
<1>3. CASE UnderWay(r) /\ ~Clean(r)
  BY <1>3 DEF PutOf, Clean, Register!Disturbed
<1>4. CASE ~UnderWay(r)
  BY <1>1, <1>4 DEF PutOf, UnderWay, Clean, PutState, Answered
<1> QED
  BY <1>2, <1>3, <1>4 DEF Clean

LEMMA RegisterInit == Init => Register!Init
<1> SUFFICES ASSUME Init PROVE Register!Init
  OBVIOUS
<1>1. ListsOf(rows) = [s \in Bands |-> {}]
  BY DEF Init, ListsOf, ListOf
<1>2. [r \in Requests |-> PutOf(r)] = [r \in Requests |-> [pc |-> "new"]]
  BY DEF Init, PutOf, UnderWay
<1> QED
  BY <1>1, <1>2 DEF Register!Init

\* What the register keeps of a PUT that a step does not touch.
LEMMA PutOfStays ==
  ASSUME NEW q \in Requests, put'[q] = put[q], rows' = rows \/ ~Clean(q)
  PROVE  PutOf(q)' = PutOf(q)
<1>1. (UnderWay(q)' <=> UnderWay(q)) /\ (Clean(q)' <=> Clean(q))
  BY DEF UnderWay, Clean
<1>2. CASE ~UnderWay(q)
  BY <1>1, <1>2 DEF PutOf
<1>3. CASE UnderWay(q) /\ ~Clean(q)
  BY <1>1, <1>3 DEF PutOf, Clean, ListsOf, ListOf
<1>4. CASE Clean(q)
  <2>1. Survivors(q)' = Survivors(q)
    BY <1>4 DEF Survivors
  <2> QED
    BY <1>1, <1>4, <2>1 DEF PutOf, Clean, ListsOf, ListOf
<1> QED
  BY <1>2, <1>3, <1>4

\* The lists a request names.
LEMMA NamedFacts ==
  ASSUME NEW tiers \in TierSetRequest
  PROVE  /\ ListsOf(tiers) \in Register!TierSets
         /\ Register!Named(ListsOf(tiers)) = {s \in Bands : \E t \in tiers : t.severity = s}
<1>1. \A s \in Bands : ListsOf(tiers)[s] \in GivenLists \union {{}}
  BY DEF GivenLists
<1>2. ListsOf(tiers) \in [Bands -> GivenLists \union {{}}]
  BY <1>1, ListsAt
<1>3. \A s \in Bands : ListsOf(tiers)[s] # {} <=> \E t \in tiers : t.severity = s
  BY ListsAt DEF ListOf
<1>4. \E s \in Bands : ListsOf(tiers)[s] # {}
  BY <1>3, RequestFacts DEF TierShape
<1> QED
  BY <1>2, <1>3, <1>4 DEF Register!TierSets, Register!Named

LEMMA BeginMaps ==
  ASSUME TableInv, NEW r \in Requests, PutTiers(r)
  PROVE  Register!Begin(r)
<1>0. Typed
  BY DEF TableInv
<1>1. PICK tiers \in TierSetRequest :
        put' = [put EXCEPT ![r] = [pc |-> "deleting", tiers |-> tiers, clean |-> TRUE,
                                   seen |-> {Id(row) : row \in rows}]]
  BY DEF PutTiers
<1>2. put[r].pc = "new" /\ rows' = rows
  BY DEF PutTiers
<1>3. PutOf(r).pc = "new"
  BY <1>2 DEF PutOf, UnderWay
<1>4. /\ put'[r].pc = "deleting" /\ put'[r].tiers = tiers /\ put'[r].clean
      /\ put'[r].seen = {Id(row) : row \in rows}
      /\ \A q \in Requests \ {r} : put'[q] = put[q]
  BY <1>0, <1>1 DEF Typed
<1> DEFINE none == [s \in Bands |-> {}]
<1>5. PutOf(r)' = Register!Begun(ListsOf(tiers), none)
  <2>1. UnderWay(r)'
    BY <1>4 DEF UnderWay
  <2>2. Survivors(r)' = {}
    BY <1>2, <1>4 DEF Survivors
  <2>3. ListsOf({}) = none
    BY DEF ListsOf, ListOf
  <2>4. PutOf(r)' = [pc |-> "begun", wants |-> ListsOf(put'[r].tiers), since |-> ListsOf(Survivors(r)')]
    BY <1>4, <2>1 DEF PutOf, ListsOf, ListOf
  <2> QED
    BY <1>4, <2>2, <2>3, <2>4 DEF Register!Begun
<1>6. \A q \in Requests \ {r} : PutOf(q)' = PutOf(q)
  BY <1>2, <1>4, PutOfStays
<1> HIDE DEF none
<1>7. [q \in Requests |-> PutOf(q)]'
        = [[q \in Requests |-> PutOf(q)] EXCEPT ![r] = Register!Begun(ListsOf(tiers), none)]
  BY <1>5, <1>6
<1>8. ListsOf(rows)' = ListsOf(rows)
  BY <1>2 DEF ListsOf, ListOf
<1> QED
  BY <1>3, <1>7, <1>8, NamedFacts DEF Register!Begin, none

\* Where one PUT is answered and the rows stay, the register has it fail.
LEMMA FailMaps ==
  ASSUME TableInv, NEW r \in Requests, Rollback(r)
  PROVE  Register!Fail(r)
<1>0. Typed
  BY DEF TableInv
<1>1. UnderWay(r) /\ put' = [put EXCEPT ![r] = Answered] /\ rows' = rows
  BY DEF Rollback
<1>2. put'[r] = Answered /\ \A q \in Requests \ {r} : put'[q] = put[q]
  BY <1>0, <1>1 DEF Typed
<1>3. PutOf(r)' = Register!Answered
  BY <1>2 DEF PutOf, UnderWay, Answered, Register!Answered
<1>4. \A q \in Requests \ {r} : PutOf(q)' = PutOf(q)
  BY <1>1, <1>2, PutOfStays
<1>5. [q \in Requests |-> PutOf(q)]' = [[q \in Requests |-> PutOf(q)] EXCEPT ![r] = Register!Answered]
  BY <1>3, <1>4
<1>6. ListsOf(rows)' = ListsOf(rows) /\ PutOf(r).pc \in {"begun", "disturbed"}
  BY <1>0, <1>1, PutOfFacts DEF ListsOf, ListOf
<1> QED
  BY <1>5, <1>6 DEF Register!Fail

\* The tiers of the rows, as the register has them.
LEMMA BriefFacts ==
  /\ \A row \in TierRows : Brief(row) \in {Brief(t) : t \in AnyTiers}
  /\ \A row : Brief(row).level = row.level /\ Brief(Tier(row)) = Brief(row)
  /\ \A t, by : Brief(Row(t, by)) = Brief(t)
<1>1. \A row : Brief(row).level = row.level /\ Brief(Tier(row)) = Brief(row)
  BY RowFacts DEF Brief
<1>2. \A t, by : Brief(Row(t, by)) = Brief(t)
  BY RowFacts DEF Brief
<1> QED
  BY <1>1, <1>2, RowFacts

\* An upsert changes one tier of one list, and takes the register's promise from the
\* PUTs under way.
LEMMA SeedMaps ==
  ASSUME TableInv, NEW d \in Seedings, Upsert(d)
  PROVE  Register!Seed
<1> DEFINE t == SeedTier(d, seeding[d].done + 1)
           l == {u \in Brevity(rows, t.severity) : u.level # t.level} \union {Brief(t)}
<1>0. Typed
  BY DEF TableInv
<1>1. /\ t \in AnyTiers /\ t \in TierShape
      /\ rows' = (rows \ OldRows(t)) \union Written(d, t) /\ Written(d, t) # {}
      /\ \A row \in Written(d, t) : row.severity = t.severity /\ row.level = t.level /\ Tier(row) = t
  BY UpsertFacts
<1> HIDE DEF t
<1>2. t.severity \in Bands
  BY <1>1 DEF TierShape
<1>3. \A s \in Bands : s # t.severity => ListOf(rows', s) = ListOf(rows, s)
  BY <1>1 DEF ListOf, OldRows, SameKey
<1>4. Brevity(rows', t.severity) = l
  <2>1. ListOf(rows', t.severity)
          = {row \in ListOf(rows, t.severity) : row.level # t.level} \union Written(d, t)
    BY <1>1 DEF ListOf, OldRows, SameKey
  <2>2. \A row \in Written(d, t) : Brief(row) = Brief(t)
    BY <1>1, BriefFacts
  <2>3. \A row : Brief(row).level = row.level
    BY BriefFacts
  <2>4. Brevity(rows', t.severity)
          = {Brief(row) : row \in {r \in ListOf(rows, t.severity) : r.level # t.level}} \union {Brief(t)}
    BY <1>1, <2>1, <2>2 DEF Brevity
  <2>5. {Brief(row) : row \in {r \in ListOf(rows, t.severity) : r.level # t.level}}
          = {u \in Brevity(rows, t.severity) : u.level # t.level}
    BY <2>3 DEF Brevity
  <2> QED
    BY <2>4, <2>5
<1>5. ListsOf(rows)' = [ListsOf(rows) EXCEPT ![t.severity] = l]
  <2>1. ListsOf(rows)' = [s \in Bands |-> Brevity(rows', s)]
    BY DEF ListsOf, Brevity, ListOf
  <2>2. \A s \in Bands : s # t.severity => Brevity(rows', s) = Brevity(rows, s)
    BY <1>3 DEF Brevity
  <2> HIDE DEF l
  <2>3. ListsOf(rows) = [s \in Bands |-> Brevity(rows, s)]
    BY ListsAt
  <2> QED
    BY <1>2, <1>4, <2>1, <2>2, <2>3
<1>6. l = {u \in ListsOf(rows)[t.severity] : u.level # Brief(t).level} \union {Brief(t)}
  BY <1>2, ListsAt, BriefFacts
<1>7. ASSUME NEW r \in Requests
      PROVE  PutOf(r)' = IF PutOf(r).pc = "begun" THEN Register!Disturbed(PutOf(r).wants) ELSE PutOf(r)
  <2>1. /\ UnderWay(r)' <=> UnderWay(r)
        /\ UnderWay(r) => put'[r].tiers = put[r].tiers /\ ~put'[r].clean
        /\ ~UnderWay(r) => put'[r] = put[r]
    BY UpsertPuts
  <2>2. CASE UnderWay(r)
    <3>1. PutOf(r)' = Register!Disturbed(ListsOf(put[r].tiers))
      BY <2>1, <2>2 DEF PutOf, Register!Disturbed, ListsOf, ListOf
    <3> QED
      BY <1>0, <2>2, <3>1, PutOfFacts
  <2>3. CASE ~UnderWay(r)
    <3>1. PutOf(r)' = put[r]
      BY <2>1, <2>3 DEF PutOf
    <3> QED
      BY <1>0, <2>3, <3>1, PutOfFacts DEF Clean
  <2> QED
    BY <2>2, <2>3
<1> DEFINE P == [r \in Requests |-> PutOf(r)]
<1>8. P' = [r \in Requests |-> IF P[r].pc = "begun" THEN Register!Disturbed(P[r].wants) ELSE P[r]]
  BY <1>7
<1> HIDE DEF l
<1>9. Brief(t) \in {Brief(u) : u \in AnyTiers}
  BY <1>1
<1>10. ListsOf(rows)' = [ListsOf(rows) EXCEPT
          ![t.severity] = {u \in ListsOf(rows)[t.severity] : u.level # Brief(t).level} \union {Brief(t)}]
  BY <1>5, <1>6
<1> HIDE DEF P
<1>11. \E s \in Bands, u \in {Brief(v) : v \in AnyTiers} :
         ListsOf(rows)' = [ListsOf(rows) EXCEPT ![s] = {w \in @ : w.level # u.level} \union {u}]
  BY <1>2, <1>9, <1>10
<1> QED
  BY <1>8, <1>11 DEF Register!Seed, P

\* The lists after a commit: the request's own, and beside them what it has not seen.
LEMMA CommitLists ==
  ASSUME TableInv, NEW r \in Requests, CreateManyAndCommit(r), NEW s \in Bands
  PROVE  LET N == Register!Named(ListsOf(put[r].tiers))
         IN  /\ Brevity(rows', s) = Brevity(Survivors(r), s) \union Brevity(put[r].tiers, s)
             /\ s \in N <=> Brevity(put[r].tiers, s) # {}
             /\ s \in N <=> ListOf(News(r), s) # {}
             /\ Brevity(News(r), s) = Brevity(put[r].tiers, s)
<1>1. put[r].tiers \in TierSetRequest /\ rows' = Survivors(r) \union News(r)
  BY CommitFacts
<1>2. ListOf(News(r), s) = {Row(t, r) : t \in ListOf(put[r].tiers, s)}
  BY RowFacts DEF News, ListOf
<1>3. Brevity(News(r), s) = Brevity(put[r].tiers, s)
  BY <1>2, BriefFacts DEF Brevity
<1>4. ListOf(rows', s) = ListOf(Survivors(r), s) \union ListOf(News(r), s)
  BY <1>1 DEF ListOf
<1>5. Brevity(rows', s) = Brevity(Survivors(r), s) \union Brevity(News(r), s)
  BY <1>4 DEF Brevity
<1>6. s \in Register!Named(ListsOf(put[r].tiers)) <=> Brevity(put[r].tiers, s) # {}
  BY ListsAt DEF Register!Named
<1>7. s \in Register!Named(ListsOf(put[r].tiers)) <=> ListOf(News(r), s) # {}
  BY <1>3, <1>6, ListsAt
<1>8. Brevity(rows', s) = Brevity(Survivors(r), s) \union Brevity(put[r].tiers, s)
  BY <1>3, <1>5
<1> QED
  BY <1>3, <1>6, <1>7, <1>8

\* What a clean PUT beside the one that commits has not seen afterwards.
LEMMA CommitSince ==
  ASSUME TableInv, NEW r \in Requests, CreateManyAndCommit(r), NEW q \in Requests, q # r, Clean(q)
  PROVE  LET N == Register!Named(ListsOf(put[r].tiers))
         IN  /\ PutOf(q)'.pc = "begun"
             /\ PutOf(q)' = Register!Begun(ListsOf(put[q].tiers), ListsOf(Survivors(q)'))
             /\ \A s \in Bands : ListsOf(Survivors(q)')[s] =
                  IF s \in N THEN ListsOf(put[r].tiers)[s]
                  ELSE IF Clean(r) /\ ListsOf(Survivors(r))[s] = {} THEN {}
                  ELSE ListsOf(Survivors(q))[s]
<1> DEFINE N == Register!Named(ListsOf(put[r].tiers))
<1>0. Typed /\ WholeOrNone /\ Nested
  BY DEF TableInv
<1>1. /\ UnderWay(r) /\ put'[q] = put[q]
      /\ \A row \in Survivors(q), new \in News(r) : row \in Survivors(r) => row.severity # new.severity
  BY CommitFacts
<1>2. UnderWay(q) /\ UnderWay(q)' /\ put'[q].clean
  BY <1>1 DEF Clean, UnderWay
<1>3. Survivors(q)' = (Survivors(q) \intersect Survivors(r)) \union News(r)
  BY <1>2, SurvivorsAfter
<1>4. PutOf(q)' = Register!Begun(ListsOf(put[q].tiers), ListsOf(Survivors(q)'))
  <2>1. PutOf(q)' = [pc |-> "begun", wants |-> ListsOf(put'[q].tiers), since |-> ListsOf(Survivors(q)')]
    BY <1>2 DEF PutOf, ListsOf, ListOf
  <2> QED
    BY <1>1, <2>1 DEF Register!Begun
<1>5. ASSUME NEW s \in Bands
      PROVE  ListsOf(Survivors(q)')[s] =
               IF s \in N THEN ListsOf(put[r].tiers)[s]
               ELSE IF Clean(r) /\ ListsOf(Survivors(r))[s] = {} THEN {}
               ELSE ListsOf(Survivors(q))[s]
  <2> DEFINE kept == Survivors(q) \intersect Survivors(r)
  <2>1. ListOf(Survivors(q)', s) = ListOf(kept, s) \union ListOf(News(r), s)
    BY <1>3 DEF ListOf
  <2>2. CASE s \in N
    <3>1. ListOf(News(r), s) # {} /\ Brevity(News(r), s) = Brevity(put[r].tiers, s)
      BY <2>2, CommitLists
    <3>2. ListOf(kept, s) = {}
      BY <1>1, <3>1 DEF ListOf
    <3>3. ListOf(Survivors(q)', s) = ListOf(News(r), s)
      BY <2>1, <3>2
    <3>4. Brevity(Survivors(q)', s) = Brevity(put[r].tiers, s)
      BY <3>1, <3>3 DEF Brevity
    <3> QED
      BY <2>2, <3>4, ListsAt
  <2>3. CASE s \notin N
    <3>1. ListOf(Survivors(q)', s) = ListOf(kept, s)
      BY <2>1, <2>3, CommitLists
    <3>2. CASE Clean(r) /\ ListsOf(Survivors(r))[s] = {}
      <4>1. ListOf(Survivors(r), s) = {}
        BY <3>2, ListsAt
      <4>2. ListOf(Survivors(q)', s) = {}
        BY <3>1, <4>1 DEF ListOf
      <4> QED
        BY <2>3, <3>2, <4>2, ListsAt
    <3>3. CASE ~(Clean(r) /\ ListsOf(Survivors(r))[s] = {})
      <4>1. ListOf(kept, s) = ListOf(Survivors(q), s)
        <5>1. CASE Survivors(q) \subseteq Survivors(r)
          BY <5>1 DEF ListOf
        <5>2. CASE Clean(r) /\ Survivors(r) \subseteq Survivors(q)
          <6>1. ListOf(Survivors(r), s) # {}
            BY <3>3, <5>2, ListsAt
          <6>2. PICK a \in Survivors(r) : a.severity = s
            BY <6>1 DEF ListOf
          <6>3. \A b \in Survivors(q) : b.severity = s => b \in Survivors(r)
            BY <1>0, <1>1, <5>2, <6>2 DEF WholeOrNone
          <6> QED
            BY <6>3 DEF ListOf
        <5> QED
          BY <1>0, <1>1, <5>1, <5>2 DEF Nested
      <4> QED
        <5>1. Brevity(Survivors(q)', s) = Brevity(Survivors(q), s)
          BY <3>1, <4>1 DEF Brevity
        <5>2. ListsOf(Survivors(q)')[s] = ListsOf(Survivors(q))[s]
          BY <5>1, ListsAt
        <5> QED
          BY <2>3, <3>3, <5>2
    <3> QED
      BY <3>2, <3>3
  <2> QED
    BY <2>2, <2>3
<1>6. PutOf(q)'.pc = "begun"
  BY <1>4 DEF Register!Begun
<1> QED
  BY <1>4, <1>5, <1>6

\* The PUTs that are not clean, and the one that has committed.
LEMMA CommitOthers ==
  ASSUME TableInv, NEW r \in Requests, CreateManyAndCommit(r)
  PROVE  /\ PutOf(r)' = Register!Answered
         /\ \A q \in Requests \ {r} : ~Clean(q) => PutOf(q)' = PutOf(q)
<1>1. put'[r] = Answered /\ \A q \in Requests \ {r} : put'[q] = put[q]
  BY CommitFacts
<1>2. PutOf(r)' = Register!Answered
  BY <1>1 DEF PutOf, UnderWay, Answered, Register!Answered
<1> QED
  BY <1>1, <1>2, PutOfStays

\* A commit of a clean PUT leaves the lists the register says, and to the others it is the
\* news the register says: what it has written, and what of the others' it has left.
LEMMA StoreMaps ==
  ASSUME TableInv, NEW r \in Requests, CreateManyAndCommit(r), Clean(r)
  PROVE  Register!Store(r)
<1> DEFINE p == PutOf(r)
           N == Register!Named(ListsOf(put[r].tiers))
<1>0. Typed
  BY DEF TableInv
<1>1. /\ p.pc = "begun" /\ p.wants = ListsOf(put[r].tiers) /\ p.since = ListsOf(Survivors(r))
  BY <1>0, PutOfFacts
<1> HIDE DEF p
<1>2. ASSUME NEW s \in Bands, s \in N
      PROVE  ListsOf(Survivors(r))[s] = {}
  <2>1. PICK new \in News(r) : new.severity = s
    BY <1>2, CommitLists DEF ListOf
  <2>2. ListOf(Survivors(r), s) = {}
    BY <2>1, CommitFacts DEF ListOf
  <2> QED
    BY <2>2, ListsAt
<1>3. \A s \in Register!Named(p.wants) : p.since[s] = {}
  BY <1>1, <1>2 DEF Register!Named
<1>4. ListsOf(rows') = Register!ListsAfter(p)
  <2>1. ASSUME NEW s \in Bands
        PROVE  Brevity(rows', s) = IF s \in N THEN ListsOf(put[r].tiers)[s] ELSE ListsOf(Survivors(r))[s]
    <3>1. Brevity(rows', s) = Brevity(Survivors(r), s) \union Brevity(put[r].tiers, s)
      BY CommitLists
    <3>2. s \notin N => Brevity(put[r].tiers, s) = {}
      BY CommitLists
    <3>3. s \in N => Brevity(Survivors(r), s) = {}
      BY <1>2, ListsAt
    <3>4. ListsOf(put[r].tiers)[s] = Brevity(put[r].tiers, s) /\ ListsOf(Survivors(r))[s] = Brevity(Survivors(r), s)
      BY ListsAt
    <3> HIDE DEF N
    <3> QED
      BY <3>1, <3>2, <3>3, <3>4
  <2>2. ListsOf(rows') = [s \in Bands |-> Brevity(rows', s)]
    BY ListsAt
  <2> QED
    BY <1>1, <2>1, <2>2 DEF Register!ListsAfter
<1>5. ASSUME NEW q \in Requests, q # r, Clean(q)
      PROVE  PutOf(q)' = Register!Begun(PutOf(q).wants, Register!SinceAfter(PutOf(q), p))
  <2>1. PutOf(q).wants = ListsOf(put[q].tiers) /\ PutOf(q).since = ListsOf(Survivors(q))
    BY <1>0, <1>5, PutOfFacts
  <2>2. /\ PutOf(q)' = Register!Begun(ListsOf(put[q].tiers), ListsOf(Survivors(q)'))
        /\ \A s \in Bands : ListsOf(Survivors(q)')[s] =
             IF s \in N THEN ListsOf(put[r].tiers)[s]
             ELSE IF ListsOf(Survivors(r))[s] = {} THEN {} ELSE ListsOf(Survivors(q))[s]
    BY <1>5, CommitSince
  <2>3. ListsOf(Survivors(q)') = [s \in Bands |-> ListsOf(Survivors(q)')[s]]
    BY ListsAt
  <2>4. ListsOf(Survivors(q)') = Register!SinceAfter(PutOf(q), p)
    BY <1>1, <2>1, <2>2, <2>3 DEF Register!SinceAfter
  <2> QED
    BY <2>1, <2>2, <2>4
<1> DEFINE P == [q \in Requests |-> PutOf(q)]
<1>6. P' = [q \in Requests |->
              IF q = r THEN Register!Answered
              ELSE IF P[q].pc = "begun" THEN Register!Begun(P[q].wants, Register!SinceAfter(P[q], P[r]))
              ELSE P[q]]
  <2>1. \A q \in Requests : PutOf(q).pc = "begun" <=> Clean(q)
    BY <1>0, PutOfFacts
  <2> QED
    BY <1>5, <2>1, CommitOthers DEF p
<1>7. ListsOf(rows)' = ListsOf(rows')
  BY DEF ListsOf, ListOf
<1>8. P[r] = p
  BY DEF p
<1> HIDE DEF P
<1> QED
  BY <1>1, <1>3, <1>4, <1>6, <1>7, <1>8 DEF Register!Store, P

\* A commit of a disturbed one writes its lists, and beside them leaves what was there.
LEMMA StoreDisturbedMaps ==
  ASSUME TableInv, NEW r \in Requests, CreateManyAndCommit(r), ~Clean(r)
  PROVE  Register!StoreDisturbed(r)
<1> DEFINE p == PutOf(r)
           N == Register!Named(ListsOf(put[r].tiers))
<1>0. Typed /\ UnderWay(r)
  BY CommitFacts DEF TableInv
<1>1. p.pc = "disturbed" /\ p.wants = ListsOf(put[r].tiers)
  BY <1>0, PutOfFacts
<1> HIDE DEF p
<1>2. ListsOf(rows') = [s \in Bands |-> Brevity(rows', s)]
  BY ListsAt
<1>3. ASSUME NEW s \in Bands
      PROVE  /\ Register!MayLeave(p.wants[s], ListsOf(rows)[s], ListsOf(rows')[s])
             /\ ListsOf(rows')[s] \subseteq {Brief(t) : t \in AnyTiers}
  <2>1. Brevity(rows', s) = Brevity(Survivors(r), s) \union Brevity(put[r].tiers, s)
    BY CommitLists
  <2>2. Brevity(Survivors(r), s) \subseteq Brevity(rows, s)
    BY SurvivorFacts DEF Brevity, ListOf
  <2>3. Register!MayLeave(p.wants[s], ListsOf(rows)[s], ListsOf(rows')[s])
    BY <1>1, <2>1, <2>2, ListsAt DEF Register!MayLeave
  <2>4. rows' \subseteq TierRows
    BY <1>0, CommitFacts, NewsFacts, SurvivorFacts DEF Typed
  <2>5. Brevity(rows', s) \subseteq {Brief(t) : t \in AnyTiers}
    BY <2>4, BriefFacts DEF Brevity, ListOf
  <2> QED
    BY <2>3, <2>5, ListsAt
<1>4. ListsOf(rows') \in [Bands -> SUBSET {Brief(t) : t \in AnyTiers}]
  BY <1>2, <1>3
<1>5. ASSUME NEW q \in Requests, q # r, Clean(q)
      PROVE  PutOf(q)' = Register!Begun(PutOf(q).wants, Register!SinceDisturbed(PutOf(q), p))
  <2>1. PutOf(q).wants = ListsOf(put[q].tiers) /\ PutOf(q).since = ListsOf(Survivors(q))
    BY <1>0, <1>5, PutOfFacts
  <2>2. /\ PutOf(q)' = Register!Begun(ListsOf(put[q].tiers), ListsOf(Survivors(q)'))
        /\ \A s \in Bands : ListsOf(Survivors(q)')[s] =
             IF s \in N THEN ListsOf(put[r].tiers)[s] ELSE ListsOf(Survivors(q))[s]
    BY <1>5, CommitSince
  <2>3. ListsOf(Survivors(q)') = [s \in Bands |-> ListsOf(Survivors(q)')[s]]
    BY ListsAt
  <2>4. ListsOf(Survivors(q)') = Register!SinceDisturbed(PutOf(q), p)
    BY <1>1, <2>1, <2>2, <2>3 DEF Register!SinceDisturbed
  <2> QED
    BY <2>1, <2>2, <2>4
<1> DEFINE P == [q \in Requests |-> PutOf(q)]
<1>6. P' = [q \in Requests |->
              IF q = r THEN Register!Answered
              ELSE IF P[q].pc = "begun"
                THEN Register!Begun(P[q].wants, Register!SinceDisturbed(P[q], P[r]))
              ELSE P[q]]
  <2>1. \A q \in Requests : PutOf(q).pc = "begun" <=> Clean(q)
    BY <1>0, PutOfFacts
  <2> QED
    BY <1>5, <2>1, CommitOthers DEF p
<1>7. ListsOf(rows)' = ListsOf(rows')
  BY DEF ListsOf, ListOf
<1>8. P[r] = p
  BY DEF p
<1> HIDE DEF P
<1> QED
  BY <1>1, <1>3, <1>4, <1>6, <1>7, <1>8 DEF Register!StoreDisturbed, P

\* The other steps are none of the register's.
LEMMA QuietMaps ==
  ASSUME TableInv,
         \/ \E r \in Requests : DeleteMany(r)
         \/ Tick \/ StartRun \/ EscalateBatch \/ LoseRun \/ UNCHANGED vars
  PROVE  UNCHANGED <<ListsOf(rows), [r \in Requests |-> PutOf(r)]>>
<1>0. Typed
  BY DEF TableInv
<1>1. rows' = rows
  BY DEF DeleteMany, Tick, StartRun, EscalateBatch, LoseRun, tableVars, vars
<1>2. \A q \in Requests : PutOf(q)' = PutOf(q)
  <2>1. ASSUME NEW r \in Requests, DeleteMany(r)
        PROVE  PutOf(r)' = PutOf(r) /\ \A q \in Requests \ {r} : put'[q] = put[q]
    <3>1. put[r].pc = "deleting" /\ put' = [put EXCEPT ![r] = [put[r] EXCEPT !.pc = "inserting"]]
      BY <2>1 DEF DeleteMany
    <3>2. put[r] \in [pc : {"deleting", "inserting"}, tiers : TierSetRequest, clean : BOOLEAN,
                      seen : SUBSET {Id(row) : row \in TierRows}]
      BY <1>0, <3>1 DEF Typed, PutState, Answered
    <3>3. /\ put'[r].pc = "inserting" /\ put'[r].tiers = put[r].tiers
          /\ put'[r].seen = put[r].seen /\ put'[r].clean = put[r].clean
      BY <1>0, <3>1, <3>2 DEF Typed
    <3>4. UnderWay(r) /\ UnderWay(r)'
      BY <3>1, <3>3 DEF UnderWay
    <3>5. \A q \in Requests \ {r} : put'[q] = put[q]
      BY <1>0, <3>1 DEF Typed
    <3>6. Survivors(r)' = Survivors(r)
      BY <1>1, <3>3 DEF Survivors
    <3> QED
      BY <3>3, <3>4, <3>5, <3>6 DEF PutOf, ListsOf, ListOf
  <2>2. CASE Tick \/ StartRun \/ EscalateBatch \/ LoseRun \/ UNCHANGED vars
    BY <1>1, <2>2, PutOfStays DEF Tick, StartRun, EscalateBatch, LoseRun, tableVars, vars
  <2> QED
    BY <1>1, <2>1, <2>2, PutOfStays
<1>3. ListsOf(rows)' = ListsOf(rows)
  BY <1>1 DEF ListsOf, ListOf
<1> QED
  BY <1>2, <1>3

\* Deletes by row, keys by (severity, level), rollbacks and upserts add up to a register of
\* one list per severity: never half a list, and never a list gone that its writer's
\* successors have not seen, unless a tier was seeded during the PUT
\* (tiers.repository.ts, replaceTierSet; escalationTiers.seed.ts).
THEOREM TableIsRegister == Spec => ImplementsRegister
<1>1. Init => Register!Init
  BY RegisterInit
<1>2. IInv /\ [Next]_vars => [Register!Next]_<<ListsOf(rows), [r \in Requests |-> PutOf(r)]>>
  <2> SUFFICES ASSUME TableInv, [Next]_vars
               PROVE  Register!Next \/ UNCHANGED <<ListsOf(rows), [r \in Requests |-> PutOf(r)]>>
    BY DEF IInv
  <2>1. ASSUME NEW r \in Requests, PutTiers(r) \/ CreateManyAndCommit(r) \/ Rollback(r)
        PROVE  Register!Next
    BY <2>1, BeginMaps, StoreMaps, StoreDisturbedMaps, FailMaps DEF Register!Next
  <2>2. ASSUME NEW d \in Seedings, Upsert(d)
        PROVE  Register!Next
    BY <2>2, SeedMaps DEF Register!Next
  <2> QED
    BY <2>1, <2>2, QuietMaps DEF Next
<1> QED
  BY <1>1, <1>2, Invariance, PTL DEF Spec, ImplementsRegister, Register!Spec

===============================================================================
