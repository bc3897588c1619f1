-------------------------- MODULE EscalationJob_proofs --------------------------
(***************************************************************************)
(* Theorems of EscalationJob, for any incidents, callers, tiers, batch     *)
(* size, lease length and bounds.                                          *)
(*                                                                         *)
(* Exactly-once escalation needs neither the lease nor the counter: it     *)
(* rests on what the unique index gives, that a key pending in one open    *)
(* transaction is neither committed nor pending in another.                *)
(*                                                                         *)
(* Everything else follows from one invariant, IInv: the clock columns     *)
(* only move on (Clocks), what a run holds in memory still fits the rows   *)
(* it was read from or cannot be inserted (DueIsSound), so does the row an *)
(* INSERT has selected (RowIsSound), each raised level has its event in    *)
(* the same transaction (WritesAreSound), and each                         *)
(* incident that was due when the run began is reached, pending, listed,   *)
(* or ahead of the cursor (NothingLost).  The last part needs that a batch *)
(* is a prefix of the candidates in the scan's order (BatchLeavesLater).   *)
(***************************************************************************)
EXTENDS EscalationJob, FiniteSetTheorems, TLAPS

-------------------------------------------------------------------------------
(* One event for each key.                                                  *)

\* Variables fired and tx have the shape the steps rely on.
Shaped ==
  /\ fired \in [Keys -> Nat]
  /\ tx = [p \in Runs |-> tx[p]]
  /\ \A p \in Runs : tx[p] = [events |-> tx[p].events, levels |-> tx[p].levels]

\* A pending key is new, and pending in one transaction only.
PendingIsNew ==
  \A p \in Runs : \A k \in tx[p].events \cap Keys :
    fired[k] = 0 /\ \A q \in Runs \ {p} : k \notin tx[q].events

OnceInv == Shaped /\ PendingIsNew /\ ExactlyOnce

\* Nothing is pending and nothing fired at the start.
LEMMA OnceInit == Init => OnceInv
  BY DEF Init, OnceInv, Shaped, PendingIsNew, ExactlyOnce, NoWrites

\* Steps that leave the events alone keep the invariant.
LEMMA OnceQuiet ==
  ASSUME OnceInv, fired' = fired, tx' = [p \in Runs |-> tx'[p]],
         \A p \in Runs : /\ tx'[p] = [events |-> tx'[p].events, levels |-> tx'[p].levels]
                         /\ tx'[p].events \subseteq tx[p].events
  PROVE  OnceInv'
<1>1. Shaped' /\ ExactlyOnce'
  BY DEF OnceInv, Shaped, ExactlyOnce
<1>2. PendingIsNew'
  BY DEF OnceInv, PendingIsNew
<1> QED
  BY <1>1, <1>2 DEF OnceInv

\* Rolling a transaction back keeps the invariant.
LEMMA OnceRollback ==
  ASSUME OnceInv, NEW p \in Runs, fired' = fired, tx' = [tx EXCEPT ![p] = NoWrites]
  PROVE  OnceInv'
<1>1. tx' = [q \in Runs |-> tx'[q]]
  BY DEF OnceInv, Shaped
<1>2. \A q \in Runs : /\ tx'[q] = [events |-> tx'[q].events, levels |-> tx'[q].levels]
                      /\ tx'[q].events \subseteq tx[q].events
  BY DEF OnceInv, Shaped, NoWrites
<1> QED
  BY <1>1, <1>2, OnceQuiet

\* The INSERT adds a key only if no transaction has it, committed or open.
LEMMA OnceInsert ==
  ASSUME OnceInv, NEW p \in Runs, InsertEvent(p)
  PROVE  OnceInv'
<1>1. fired' = fired
  BY DEF InsertEvent
<1>2. PICK d \in run[p].due :
        /\ ~KeyHeld(p, Key(d))
        /\ IF Conflicts(p, Key(d)) THEN UNCHANGED tx
           ELSE tx' = [tx EXCEPT ![p].events = @ \union {Key(d)}]
  BY DEF InsertEvent
<1>3. CASE UNCHANGED tx
  <2>1. \A q \in Runs : /\ tx'[q] = [events |-> tx'[q].events, levels |-> tx'[q].levels]
                        /\ tx'[q].events \subseteq tx[q].events
    BY <1>3 DEF OnceInv, Shaped
  <2>2. tx' = [q \in Runs |-> tx'[q]]
    BY <1>3 DEF OnceInv, Shaped
  <2> QED
    BY <1>1, <2>1, <2>2, OnceQuiet
<1>4. CASE /\ ~Conflicts(p, Key(d)) /\ ~KeyHeld(p, Key(d))
           /\ tx' = [tx EXCEPT ![p].events = @ \union {Key(d)}]
  <2> DEFINE k == Key(d)
  <2>1. /\ tx' = [q \in Runs |-> tx'[q]]
        /\ tx'[p] = [events |-> tx[p].events \union {k}, levels |-> tx[p].levels]
        /\ \A q \in Runs \ {p} : tx'[q] = tx[q]
    <3>1. tx = [q \in Runs |-> tx[q]] /\ tx[p] = [events |-> tx[p].events, levels |-> tx[p].levels]
      BY DEF OnceInv, Shaped
    <3> DEFINE new == [tx[p] EXCEPT !.events = tx[p].events \union {k}]
    <3>2. new = [events |-> tx[p].events \union {k}, levels |-> tx[p].levels]
      BY <3>1
    <3>3. tx' = [tx EXCEPT ![p] = new]
      BY <1>4
    <3> HIDE DEF new, k
    <3> QED
      BY <3>1, <3>2, <3>3
  <2>2. ~(fired[k] > 0) /\ \A q \in Runs \ {p} : k \notin tx[q].events
    BY <1>4 DEF Conflicts, KeyHeld
  <2>3. k \in Keys => fired[k] = 0
    BY <2>2 DEF OnceInv, Shaped
  <2> HIDE DEF k
  <2>4. Shaped' /\ ExactlyOnce'
    BY <1>1, <2>1 DEF OnceInv, Shaped, ExactlyOnce
  <2>5. PendingIsNew'
    BY <1>1, <2>1, <2>2, <2>3 DEF OnceInv, PendingIsNew
  <2> QED
    BY <2>4, <2>5 DEF OnceInv
<1> QED
  BY <1>2, <1>3, <1>4

\* The counter's UPDATE leaves the events alone.
LEMMA OnceBump ==
  ASSUME OnceInv, NEW p \in Runs, BumpLevel(p)
  PROVE  OnceInv'
<1>1. fired' = fired
  BY DEF BumpLevel
<1>2. \E new : tx' = [tx EXCEPT ![p].levels = new]
  BY DEF BumpLevel
<1>3. PICK new : tx' = [tx EXCEPT ![p].levels = new]
  BY <1>2
<1>4. /\ tx' = [q \in Runs |-> tx'[q]]
      /\ \A q \in Runs : /\ tx'[q] = [events |-> tx'[q].events, levels |-> tx'[q].levels]
                         /\ tx'[q].events \subseteq tx[q].events
  BY <1>3 DEF OnceInv, Shaped
<1> QED
  BY <1>1, <1>4, OnceQuiet

\* Committing turns pending keys, all new, into committed ones.
LEMMA OnceCommit ==
  ASSUME OnceInv, NEW p \in Runs, CommitBatch(p)
  PROVE  OnceInv'
<1>1. /\ fired' = [k \in Keys |-> IF k \in tx[p].events THEN fired[k] + 1 ELSE fired[k]]
      /\ tx' = [tx EXCEPT ![p] = NoWrites]
  BY DEF CommitBatch
<1>2. /\ tx' = [q \in Runs |-> tx'[q]] /\ tx'[p] = NoWrites
      /\ \A q \in Runs \ {p} : tx'[q] = tx[q]
  BY <1>1 DEF OnceInv, Shaped
<1>3. \A k \in Keys : /\ fired'[k] \in Nat /\ fired'[k] <= 1
                      /\ k \notin tx[p].events => fired'[k] = fired[k]
  BY <1>1 DEF OnceInv, Shaped, PendingIsNew, ExactlyOnce
<1>4. Shaped' /\ ExactlyOnce'
  BY <1>1, <1>2, <1>3 DEF OnceInv, Shaped, ExactlyOnce, NoWrites
<1>5. PendingIsNew'
  <2> SUFFICES ASSUME NEW q \in Runs, NEW k \in tx'[q].events \cap Keys
               PROVE  fired'[k] = 0 /\ \A x \in Runs \ {q} : k \notin tx'[x].events
    BY DEF PendingIsNew
  <2>1. q # p /\ k \in tx[q].events
    BY <1>2 DEF NoWrites
  <2>2. fired[k] = 0 /\ \A x \in Runs \ {q} : k \notin tx[x].events
    BY <2>1 DEF OnceInv, PendingIsNew
  <2> QED
    BY <1>2, <1>3, <2>1, <2>2 DEF NoWrites
<1> QED
  BY <1>4, <1>5 DEF OnceInv

\* Every step keeps the invariant.
LEMMA OnceStep == OnceInv /\ [Next]_vars => OnceInv'
<1> SUFFICES ASSUME OnceInv, [Next]_vars PROVE OnceInv'
  OBVIOUS
<1>1. CASE fired' = fired /\ tx' = tx
  <2>1. /\ tx' = [q \in Runs |-> tx'[q]]
        /\ \A q \in Runs : /\ tx'[q] = [events |-> tx'[q].events, levels |-> tx'[q].levels]
                           /\ tx'[q].events \subseteq tx[q].events
    BY <1>1 DEF OnceInv, Shaped
  <2> QED
    BY <1>1, <2>1, OnceQuiet
<1>2. UNCHANGED vars => fired' = fired /\ tx' = tx
  BY DEF vars
<1>3. Tick => fired' = fired /\ tx' = tx
  BY DEF Tick
<1>4. ASSUME NEW i \in Incidents,
             \/ Acknowledge(i) \/ Close(i) \/ ReadSeverity(i) \/ CommitSeverity(i)
             \/ DropSeverity(i)
      PROVE  fired' = fired /\ tx' = tx
  BY SMTT(60), <1>4 DEF Acknowledge, Close, ReadSeverity, CommitSeverity, DropSeverity, Written
<1>5. ASSUME NEW p \in Runs,
             ClaimLease(p) \/ ReadBatch(p) \/ SelectRow(p) \/ NextBatch(p) \/ Complete(p)
      PROVE  fired' = fired /\ tx' = tx
  BY <1>5 DEF ClaimLease, ReadBatch, SelectRow, NextBatch, Complete
<1>6. ASSUME NEW p \in Runs, FailRun(p)
      PROVE  OnceInv'
  BY <1>6, OnceRollback DEF FailRun
<1> QED
  BY <1>1, <1>2, <1>3, <1>4, <1>5, <1>6, OnceInsert, OnceBump, OnceCommit DEF Next

\* No (incident, cycle, level) is ever escalated twice, whatever runs overlap,
\* fail or lose their lease, and whatever the counter says.
THEOREM EscalatesOnce == Spec => []ExactlyOnce
<1>1. OnceInv => ExactlyOnce
  BY DEF OnceInv
<1> QED
  BY <1>1, OnceInit, OnceStep, PTL DEF Spec

-------------------------------------------------------------------------------
(* Severities and finite orders.                                            *)

\* The ranks of the severities, and which of them make the high band.
LEMMA BandRanks ==
  /\ \A s \in Severities : SeverityRank(s) \in 1..4
  /\ \A s \in Severities : InHighBand(s) <=> s \in {"HIGH", "CRITICAL"}
  /\ \A s, t \in Severities : SeverityRank(s) = SeverityRank(t) => s = t
<1>1. /\ SeverityRank("LOW") = 1 /\ SeverityRank("MEDIUM") = 2
      /\ SeverityRank("HIGH") = 3 /\ SeverityRank("CRITICAL") = 4
  BY DEF SeverityRank
<1> QED
  BY <1>1 DEF Severities, InHighBand, HIGH_BAND_RANK

\* A finite set has an element that no other one is above, in any strict order.
LEMMA MaximalElement ==
  ASSUME NEW S, IsFiniteSet(S), S # {}, NEW R,
         \A x \in S : <<x, x>> \notin R,
         \A x, y, z \in S : <<x, y>> \in R /\ <<y, z>> \in R => <<x, z>> \in R
  PROVE  \E x \in S : \A y \in S : <<x, y>> \notin R
<1> DEFINE Above(x) == {y \in S : <<x, y>> \in R}
<1> DEFINE Family == {Above(x) : x \in S}
<1>1. IsWellFoundedOn(StrictSubsetOrdering(S), SUBSET S)
  BY FS_StrictSubsetOrderingWellFounded, FS_FiniteSubsetsOfFinite
<1>2. Family \subseteq SUBSET S /\ Family # {}
  <2>1. PICK x \in S : TRUE
    OBVIOUS
  <2>2. Above(x) \in Family /\ \A y \in S : Above(y) \subseteq S
    BY <2>1
  <2> HIDE DEF Above
  <2> QED
    BY <2>2
<1>3. PICK A \in Family : \A B \in Family : <<B, A>> \notin StrictSubsetOrdering(S)
  <2> HIDE DEF Family
  <2> QED
    BY <1>1, <1>2, WFMin
<1>4. PICK x \in S : A = Above(x)
  OBVIOUS
<1>5. ASSUME NEW y \in S, <<x, y>> \in R PROVE FALSE
  <2>1. Above(y) \subseteq Above(x) /\ y \in Above(x) /\ y \notin Above(y)
    BY <1>5
  <2>2. <<Above(y), Above(x)>> \in StrictSubsetOrdering(S)
    BY <2>1 DEF StrictSubsetOrdering
  <2> QED
    BY <2>2, <1>3, <1>4
<1> QED
  BY <1>5

-------------------------------------------------------------------------------
\* The records of the state, each with exactly its fields.
ClockColumns == [since : Time \union {Never}, cycle : 0..MaxCycle, level : Levels \union {0},
                 acked : BOOLEAN]

Row == [severity : Severities, since : Time \union {Never}, cycle : 0..MaxCycle,
        level : Levels \union {0}, acked : BOOLEAN, closed : BOOLEAN]

Change == [next : SeverityInputs, clock : ClockColumns]

DueItems == [on : Incidents, severity : {"HIGH", "CRITICAL"}, since : Time,
             cycle : 0..MaxCycle, level : Levels]

Memory == [pc : {"scan", "select", "insert", "bump", "next"}, began : Time, touched : SUBSET Incidents,
           cursor : (Time \union {Never}) \X (Incidents \union {Never}),
           more : BOOLEAN, due : SUBSET DueItems, row : Row \union {NoRow}]

Writes == [events : SUBSET Keys, levels : UNION {[D -> Levels] : D \in SUBSET Incidents}]

\* TypeOK with every record exactly shaped.
Typed ==
  /\ now \in Time
  /\ incident \in [Incidents -> Row]
  /\ held \in [Incidents -> Change \union {NoChange}]
  /\ lease \in [owner : Runs, until : Nat] \union {Free}
  /\ run \in [Runs -> Memory \union {Idle}]
  /\ tx \in [Runs -> Writes]
  /\ fired \in [Keys -> Nat]
  /\ faults \in 0..MaxFaults

\* The CHECK high_severity_clock.
ClockIsBand(r) == r.since # Never <=> InHighBand(r.severity)

\* What a severity change decided on the clock, which is still that of row r.
Succeeds(h, r) ==
  \/ /\ InHighBand(h.next) /\ h.clock.since \in Time
     /\ h.clock.cycle = r.cycle + 1 /\ h.clock.level = 0
  \/ /\ InHighBand(h.next) /\ InHighBand(r.severity)
     /\ SeverityRank(h.next) <= SeverityRank(r.severity)
     /\ h.clock.since = r.since /\ h.clock.cycle = r.cycle
  \/ /\ ~InHighBand(h.next)
     /\ h.clock.since = Never /\ h.clock.cycle = r.cycle /\ h.clock.level = 0

\* The clocks of the rows and of the severity changes under way.
Clocks ==
  /\ \A i \in Incidents : ClockIsBand(incident[i])
  /\ \A i \in Incidents : held[i] # NoChange => Succeeds(held[i], incident[i])

\* A clock value is told apart from the absent one.
LEMMA TimesAreNotNever ==
  Time \subseteq Nat /\ Never \notin Time /\ Time \union {Never} \subseteq Int
<1>1. Time \subseteq Nat /\ Time \subseteq Int /\ Never \notin Time /\ Never \in Int
  BY BoundsAssumption DEF Time, Never
<1> QED
  BY <1>1

\* Incidents are reported with well-shaped columns.
LEMMA TypedInit == Init => Typed /\ Clocks
<1> SUFFICES ASSUME Init PROVE Typed /\ Clocks
  OBVIOUS
<1>1. \A s \in SeverityInputs : NewIncident(s) \in Row /\ ClockIsBand(NewIncident(s))
  <2> TAKE s \in SeverityInputs
  <2>1. 0 \in Time /\ 0 \in 0..MaxCycle /\ 1 \in 0..MaxCycle /\ s \in Severities
    BY BoundsAssumption DEF Time
  <2> QED
    BY <2>1, TimesAreNotNever DEF NewIncident, Row, ClockIsBand
<1>2. incident \in [Incidents -> Row] /\ \A i \in Incidents : ClockIsBand(incident[i])
  BY <1>1 DEF Init
<1>3. held \in [Incidents -> Change \union {NoChange}] /\ \A i \in Incidents : held[i] = NoChange
  BY DEF Init
<1>4. NoWrites \in Writes
  <2>1. {} \in SUBSET Incidents /\ <<>> \in [{} -> Levels]
    OBVIOUS
  <2> QED
    BY <2>1 DEF NoWrites, Writes
<1>5. now \in Time /\ lease = Free /\ faults \in 0..MaxFaults
  BY BoundsAssumption DEF Init, Time
<1>6. run \in [Runs -> Memory \union {Idle}] /\ tx \in [Runs -> Writes] /\ fired \in [Keys -> Nat]
  BY <1>4 DEF Init
<1> QED
  BY <1>2, <1>3, <1>5, <1>6 DEF Typed, Clocks

\* What a severity change decides on a row is typed and follows from that row.
LEMMA ChangeSucceeds ==
  ASSUME NEW r \in Row, ClockIsBand(r), NEW next \in SeverityInputs, NEW at \in Time,
         NEW clock, clock = ApplySeverityChange(r, next, at), clock.cycle <= MaxCycle
  PROVE  [next |-> next, clock |-> clock] \in Change /\ Succeeds([next |-> next, clock |-> clock], r)
<1> DEFINE rule == ClockRule(r.severity, next)
           h == [next |-> next, clock |-> clock]
<1>1. /\ next \in Severities /\ r.severity \in Severities /\ r.cycle \in 0..MaxCycle
      /\ r.since \in Time \union {Never} /\ r.level \in Levels \union {0} /\ r.acked \in BOOLEAN
  BY BoundsAssumption DEF Row
<1>2. SeverityRank(next) \in 1..4 /\ SeverityRank(r.severity) \in 1..4
  BY <1>1, BandRanks
<1>3. clock = [since |-> CASE rule = "restart" -> at [] rule = "keep" -> r.since [] OTHER -> Never,
               cycle |-> IF rule = "restart" THEN r.cycle + 1 ELSE r.cycle,
               level |-> IF rule = "keep" THEN r.level ELSE 0,
               acked |-> rule # "restart" /\ r.acked]
  BY DEF ApplySeverityChange
<1>4. CASE rule = "restart"
  <2>1. InHighBand(next)
    BY <1>4 DEF ClockRule
  <2>2. clock = [since |-> at, cycle |-> r.cycle + 1, level |-> 0, acked |-> FALSE]
    BY <1>3, <1>4, Zenon
  <2>3. clock \in ClockColumns
    BY <2>2, <1>1 DEF ClockColumns
  <2> HIDE DEF rule
  <2> QED
    BY <2>1, <2>2, <2>3 DEF Change, Succeeds
<1>5. CASE rule = "keep"
  <2>1. InHighBand(next) /\ InHighBand(r.severity) /\ SeverityRank(next) <= SeverityRank(r.severity)
    BY <1>2, <1>5 DEF ClockRule
  <2>2. clock = [since |-> r.since, cycle |-> r.cycle, level |-> r.level, acked |-> r.acked]
    BY <1>1, <1>3, <1>5
  <2>3. clock \in ClockColumns
    BY <2>2, <1>1 DEF ClockColumns
  <2> HIDE DEF rule
  <2> QED
    BY <2>1, <2>2, <2>3 DEF Change, Succeeds
<1>6. CASE rule = "stop"
  <2>1. ~InHighBand(next)
    BY <1>6 DEF ClockRule
  <2>2. clock = [since |-> Never, cycle |-> r.cycle, level |-> 0, acked |-> r.acked]
    BY <1>1, <1>3, <1>6
  <2>3. clock \in ClockColumns
    BY <2>2, <1>1 DEF ClockColumns
  <2> HIDE DEF rule
  <2> QED
    BY <2>1, <2>2, <2>3 DEF Change, Succeeds
<1> QED
  BY <1>4, <1>5, <1>6 DEF ClockRule

\* Levels, the initial 0 included, are numbers.
LEMMA LevelsAreNaturals == Levels \union {0} \subseteq Nat
<1>1. Levels \subseteq Nat
  BY TiersAssumption
<1> QED
  BY <1>1

\* What typing says of one row.
LEMMA RowFacts ==
  ASSUME Typed, NEW i \in Incidents
  PROVE  /\ incident[i] \in Row
         /\ incident[i].cycle \in Nat /\ incident[i].level \in Nat
         /\ incident[i].severity \in Severities
         /\ SeverityRank(incident[i].severity) \in 1..4
<1>1. incident[i] \in Row
  BY DEF Typed
<1>2. incident[i].cycle \in 0..MaxCycle /\ incident[i].severity \in Severities
  BY <1>1 DEF Row
<1>3. incident[i].level \in Levels \union {0}
  BY <1>1 DEF Row
<1> QED
  BY <1>1, <1>2, <1>3, BandRanks, LevelsAreNaturals

\* The clock columns of a row only move on: no cycle comes back, and within one
\* the band is not entered again and the severity not raised.
MovesOn(r, new) ==
  /\ r.cycle <= new.cycle
  /\ r.cycle = new.cycle /\ InHighBand(new.severity) =>
       /\ InHighBand(r.severity) /\ new.since = r.since
       /\ SeverityRank(new.severity) <= SeverityRank(r.severity)

\* A row nobody wrote to but the job, which raises its level.
OnlyRaised(r, new) ==
  /\ r.level <= new.level
  /\ new.severity = r.severity /\ new.since = r.since /\ new.cycle = r.cycle
  /\ new.acked = r.acked /\ new.closed = r.closed

\* A row that does not move has moved on, and has only been raised.
LEMMA RowStays ==
  ASSUME Typed, NEW i \in Incidents
  PROVE  MovesOn(incident[i], incident[i]) /\ OnlyRaised(incident[i], incident[i])
  BY RowFacts DEF MovesOn, OnlyRaised

\* An UPDATE with typed columns keeps the state typed.
LEMMA WrittenTypes ==
  ASSUME Typed, Clocks, NEW i \in Incidents, NEW new \in Row, ClockIsBand(new), Written(i, new)
  PROVE  Typed' /\ Clocks'
<1>1. /\ incident' = [incident EXCEPT ![i] = new]
      /\ held' = [held EXCEPT ![i] = NoChange]
      /\ run' = [p \in Runs |-> IF run[p] = Idle THEN Idle
                                ELSE [run[p] EXCEPT !.touched = @ \union {i}]]
      /\ UNCHANGED <<now, lease, tx, fired, faults>>
  BY DEF Written
<1>2. \A m \in Memory : [m EXCEPT !.touched = @ \union {i}] \in Memory
  BY DEF Memory
<1>3. run' \in [Runs -> Memory \union {Idle}]
  BY <1>1, <1>2 DEF Typed
<1>4. Typed'
  BY <1>1, <1>3 DEF Typed
<1>5. Clocks'
  <2>1. \A j \in Incidents \ {i} : incident'[j] = incident[j] /\ held'[j] = held[j]
    BY <1>1 DEF Typed
  <2>2. incident'[i] = new /\ held'[i] = NoChange
    BY <1>1 DEF Typed
  <2> QED
    BY <2>1, <2>2 DEF Clocks
<1> QED
  BY <1>4, <1>5

\* The endpoints that write a row: what they leave there.
LEMMA EndpointWrites ==
  ASSUME Typed, Clocks, NEW i \in Incidents, Acknowledge(i) \/ Close(i) \/ CommitSeverity(i)
  PROVE  \E new \in Row :
           /\ Written(i, new) /\ ClockIsBand(new) /\ MovesOn(incident[i], new)
           /\ \/ new.level = incident[i].level /\ new.cycle = incident[i].cycle
              \/ /\ held[i] # NoChange
                 /\ new.level = held[i].clock.level /\ new.cycle = held[i].clock.cycle
<1>1. incident[i] \in Row /\ ClockIsBand(incident[i]) /\ held[i] \in Change \union {NoChange}
  BY DEF Typed, Clocks
<1>2. CASE Acknowledge(i)
  <2> DEFINE new == [incident[i] EXCEPT !.acked = TRUE]
  <2>0. /\ new \in Row /\ new.severity = incident[i].severity /\ new.since = incident[i].since
        /\ new.cycle = incident[i].cycle
    BY <1>1 DEF Row
  <2>1. new \in Row /\ ClockIsBand(new) /\ MovesOn(incident[i], new)
    BY <1>1, <2>0, RowStays DEF ClockIsBand, MovesOn
  <2>2. Written(i, new) /\ new.level = incident[i].level /\ new.cycle = incident[i].cycle
    BY <1>1, <1>2 DEF Acknowledge, Row
  <2> QED
    BY <2>1, <2>2
<1>3. CASE Close(i)
  <2> DEFINE new == [incident[i] EXCEPT !.closed = TRUE]
  <2>0. /\ new \in Row /\ new.severity = incident[i].severity /\ new.since = incident[i].since
        /\ new.cycle = incident[i].cycle
    BY <1>1 DEF Row
  <2>1. new \in Row /\ ClockIsBand(new) /\ MovesOn(incident[i], new)
    BY <1>1, <2>0, RowStays DEF ClockIsBand, MovesOn
  <2>2. Written(i, new) /\ new.level = incident[i].level /\ new.cycle = incident[i].cycle
    BY <1>1, <1>3 DEF Close, Row
  <2> QED
    BY <2>1, <2>2
<1>4. CASE CommitSeverity(i)
  <2> DEFINE h == held[i]
             new == [severity |-> h.next, since |-> h.clock.since, cycle |-> h.clock.cycle,
                     level |-> h.clock.level, acked |-> h.clock.acked,
                     closed |-> incident[i].closed]
  <2>1. /\ h # NoChange /\ h \in Change /\ Succeeds(h, incident[i]) /\ Written(i, new)
    BY <1>1, <1>4 DEF CommitSeverity, Clocks
  <2>2. new \in Row /\ new.level = h.clock.level /\ new.cycle = h.clock.cycle
    BY <1>1, <2>1, BoundsAssumption DEF Row, Change, ClockColumns
  <2>3. ClockIsBand(new)
    BY <1>1, <2>1, TimesAreNotNever DEF Succeeds, ClockIsBand, Row, Change, ClockColumns
  <2>4. MovesOn(incident[i], new)
    <3>1. incident[i].cycle \in Nat
      BY RowFacts
    <3> QED
      BY <2>1, <3>1 DEF MovesOn, Succeeds
  <2> HIDE DEF new
  <2> QED
    BY <2>1, <2>2, <2>3, <2>4
<1> QED
  BY <1>2, <1>3, <1>4

\* h is held on i from now on, and the level it writes back is the one it read.
TakesUp(i, h) ==
  /\ Succeeds(h, incident[i])
  /\ h.clock.level > 0 => h.clock.level = incident[i].level /\ h.clock.cycle = incident[i].cycle
  /\ held' = [held EXCEPT ![i] = h]
  /\ UNCHANGED <<now, incident, lease, run, tx, fired, faults>>

\* The read half of a severity change, spelt out.
LEMMA ReadSeverityEffect ==
  ASSUME Typed, Clocks, NEW i \in Incidents, ReadSeverity(i)
  PROVE  \E h \in Change : TakesUp(i, h)
<1>1. incident[i] \in Row /\ ClockIsBand(incident[i])
  BY DEF Typed, Clocks
<1>2. PICK next \in SeverityInputs :
        LET clock == ApplySeverityChange(incident[i], next, now)
        IN  /\ clock.cycle <= MaxCycle
            /\ held' = [held EXCEPT ![i] = [next |-> next, clock |-> clock]]
  BY DEF ReadSeverity
<1> DEFINE h == [next |-> next, clock |-> ApplySeverityChange(incident[i], next, now)]
<1>3. h \in Change /\ Succeeds(h, incident[i]) /\ held' = [held EXCEPT ![i] = h]
  BY <1>1, <1>2, ChangeSucceeds DEF Typed
<1>4. h.clock.level > 0 => h.clock.level = incident[i].level /\ h.clock.cycle = incident[i].cycle
  BY DEF ApplySeverityChange
<1>5. TakesUp(i, h)
  BY <1>3, <1>4 DEF ReadSeverity, TakesUp
<1> HIDE DEF h
<1> QED
  BY <1>3, <1>5

\* The endpoints keep the state typed.
LEMMA PeopleTypes ==
  ASSUME Typed, Clocks, NEW i \in Incidents,
         \/ Acknowledge(i) \/ Close(i) \/ ReadSeverity(i) \/ CommitSeverity(i) \/ DropSeverity(i)
  PROVE  Typed' /\ Clocks'
<1>1. CASE Acknowledge(i) \/ Close(i) \/ CommitSeverity(i)
  BY <1>1, EndpointWrites, WrittenTypes
<1>2. CASE ReadSeverity(i)
  <2>1. PICK h \in Change : TakesUp(i, h)
    BY <1>2, ReadSeverityEffect
  <2> QED
    BY <2>1 DEF TakesUp, Typed, Clocks
<1>3. CASE DropSeverity(i)
  <2>1. /\ held' = [held EXCEPT ![i] = NoChange]
        /\ UNCHANGED <<now, incident, lease, run, tx, fired, faults>>
    BY <1>3 DEF DropSeverity
  <2> QED
    BY <2>1 DEF Typed, Clocks
<1> QED
  BY <1>1, <1>2, <1>3

-------------------------------------------------------------------------------
(* The scan's order.                                                        *)

\* The keyset order of the scan is a strict total order of the incidents.
LEMMA AfterIsOrder ==
  ASSUME Typed
  PROVE  /\ \A i \in Incidents : ~After(Position(i), Position(i))
         /\ \A i, j \in Incidents :
              i = j \/ After(Position(i), Position(j)) \/ After(Position(j), Position(i))
         /\ \A i, j, k \in Incidents :
              After(Position(i), Position(j)) /\ After(Position(j), Position(k))
                => After(Position(i), Position(k))
<1>1. \A i \in Incidents : i \in Int /\ incident[i].since \in Int
  <2> TAKE i \in Incidents
  <2>1. incident[i].since \in Time \union {Never}
    BY DEF Typed, Row
  <2>2. incident[i].since \in Int
    BY <2>1, TimesAreNotNever
  <2>3. i \in Int
    BY IncidentsAssumption
  <2> QED
    BY <2>2, <2>3
<1> QED
  BY <1>1 DEF After, Position

\* The cursor's CHOOSE has a value: a batch that is not empty has a last row.
LEMMA LastOfBatch ==
  ASSUME Typed, NEW batch \in SUBSET Incidents, batch # {}, NEW last,
         last = CHOOSE i \in batch : \A j \in batch \ {i} : After(Position(i), Position(j))
  PROVE  last \in batch /\ \A j \in batch \ {last} : After(Position(last), Position(j))
<1> DEFINE R == {e \in batch \X batch : After(Position(e[2]), Position(e[1]))}
<1>1. IsFiniteSet(batch)
  BY IncidentsAssumption, FS_Subset
<1>2. \A x, y \in batch : <<x, y>> \in R <=> After(Position(y), Position(x))
  OBVIOUS
<1>3. PICK x \in batch : \A y \in batch : <<x, y>> \notin R
  <2> HIDE DEF R
  <2>1. /\ \A y \in batch : <<y, y>> \notin R
        /\ \A y, z, w \in batch : <<y, z>> \in R /\ <<z, w>> \in R => <<y, w>> \in R
    BY <1>2, AfterIsOrder
  <2> QED
    BY <1>1, <2>1, MaximalElement
<1>4. \A j \in batch \ {x} : After(Position(x), Position(j))
  BY <1>2, <1>3, AfterIsOrder
<1> QED
  BY <1>4

\* The rows of a batch have a clock, and their due items are typed.
LEMMA BatchRows ==
  ASSUME Typed, Clocks, NEW cursor
  PROVE  /\ Batch(cursor) \subseteq Candidates(cursor)
         /\ \A i \in Candidates(cursor) : i \in Incidents /\ incident[i].since \in Time
         /\ \A i \in Candidates(cursor) : \A l \in TiersDueFor(incident[i]) : DueItem(i, l) \in DueItems
<1>1. Batch(cursor) \subseteq Candidates(cursor)
  BY DEF Batch
<1>2. \A i \in Candidates(cursor) : /\ i \in Incidents /\ incident[i] \in Row
                                    /\ incident[i].since \in Time
                                    /\ incident[i].severity \in {"HIGH", "CRITICAL"}
  BY BandRanks DEF Candidates, Typed, Row
<1>3. ASSUME NEW i \in Candidates(cursor), NEW l \in TiersDueFor(incident[i])
      PROVE  DueItem(i, l) \in DueItems
  <2>1. l \in Levels
    BY <1>2 DEF TiersDueFor, Levels
  <2> QED
    BY <1>2, <2>1 DEF DueItem, DueItems, Row
<1> QED
  BY <1>1, <1>2, <1>3

\* What a run holds in memory tells an idle one from one under way.
LEMMA RunShape ==
  ASSUME Typed, NEW p \in Runs
  PROVE  /\ run[p] = Idle <=> run[p].pc = "idle"
         /\ run[p] # Idle => run[p] \in Memory
  BY SMTT(60) DEF Typed, Memory, Idle

DueFrom(cursor) ==
  UNION {{DueItem(i, l) : l \in TiersDueFor(incident[i])} : i \in Batch(cursor)}

IsLast(i, batch) == i \in batch /\ \A j \in batch \ {i} : After(Position(i), Position(j))

\* What ReadBatch leaves in memory, spelt out.
LEMMA ReadBatchEffect ==
  ASSUME Typed, Clocks, NEW p \in Runs, ReadBatch(p)
  PROVE  /\ run[p].pc = "scan" /\ run[p] \in Memory
         /\ run'[p].pc = (IF DueFrom(run[p].cursor) = {} THEN "next" ELSE "select")
         /\ run'[p].due = DueFrom(run[p].cursor)
         /\ run'[p].more = (Cardinality(Batch(run[p].cursor)) = BATCH_SIZE)
         /\ run'[p].began = run[p].began /\ run'[p].touched = run[p].touched
         /\ run'[p].row = run[p].row
         /\ Batch(run[p].cursor) = {} => run'[p].cursor = run[p].cursor
         /\ Batch(run[p].cursor) # {} =>
              \E last : IsLast(last, Batch(run[p].cursor)) /\ run'[p].cursor = Position(last)
         /\ run'[p] \in Memory
         /\ run' = [run EXCEPT ![p] = run'[p]]
         /\ UNCHANGED <<now, incident, held, lease, tx, fired, faults>>
<1> DEFINE batch == Batch(run[p].cursor)
           due   == DueFrom(run[p].cursor)
           last  == CHOOSE i \in batch : \A j \in batch \ {i} : After(Position(i), Position(j))
           pc    == IF due = {} THEN "next" ELSE "select"
           cursor == IF batch = {} THEN run[p].cursor ELSE Position(last)
           more  == Cardinality(batch) = BATCH_SIZE
<1>1. /\ run[p].pc = "scan"
      /\ run' = [run EXCEPT ![p].pc = pc, ![p].cursor = cursor, ![p].more = more, ![p].due = due]
      /\ UNCHANGED <<now, incident, held, lease, tx, fired, faults>>
  BY ZenonT(60) DEF ReadBatch, DueFrom
<1>2. run[p] \in Memory
  BY <1>1, RunShape DEF Idle
<1>3. batch \subseteq Incidents /\ due \subseteq DueItems
  BY BatchRows DEF DueFrom
<1>4. batch # {} => IsLast(last, batch)
  <2> HIDE DEF batch
  <2> QED
    BY SMTT(60), <1>3, LastOfBatch DEF IsLast
<1>5. cursor \in (Time \union {Never}) \X (Incidents \union {Never})
  <2>1. CASE batch = {}
    BY <1>2, <2>1 DEF Memory
  <2>2. CASE batch # {}
    <3>1. last \in Incidents /\ cursor = <<incident[last].since, last>>
      BY <1>3, <1>4, <2>2 DEF Position, IsLast
    <3> HIDE DEF last, cursor
    <3> QED
      BY <3>1 DEF Typed, Row
  <2> QED
    BY <2>1, <2>2
<1>6. pc \in {"next", "select"} /\ more \in BOOLEAN
  OBVIOUS
<1>7. batch # {} => \E i : IsLast(i, batch) /\ cursor = Position(i)
  BY <1>4
<1>8. batch = {} => cursor = run[p].cursor
  OBVIOUS
<1>9. /\ run'[p].pc = pc /\ run'[p].due = due /\ run'[p].more = more
      /\ run'[p].began = run[p].began /\ run'[p].touched = run[p].touched
      /\ run'[p].cursor = cursor /\ run'[p].row = run[p].row
      /\ run'[p] \in Memory
      /\ run' = [run EXCEPT ![p] = run'[p]]
  <2> HIDE DEF pc, cursor, more, due
  <2> QED
    BY <1>1, <1>2, <1>3, <1>5, <1>6 DEF Typed, Memory
<1> HIDE DEF last, cursor
<1> QED
  BY ZenonT(60), <1>1, <1>2, <1>7, <1>8, <1>9

-------------------------------------------------------------------------------
(* The steps of a run, each spelt out for typed states.                     *)

\* The two outcomes of the INSERT's SELECT for the due item d.
Selects(p, d) ==
  /\ StillCandidate(p, d)
  /\ run' = [run EXCEPT ![p] = [run[p] EXCEPT !.pc = "insert", !.row = incident[d.on]]]

Passes(p, d) ==
  /\ ~StillCandidate(p, d)
  /\ run' = [run EXCEPT ![p] = [run[p] EXCEPT !.due = @ \ {d}]]

\* The two outcomes of its write.
Inserts(p, d) ==
  /\ ~Conflicts(p, Key(d)) /\ ~KeyHeld(p, Key(d))
  /\ tx' = [tx EXCEPT ![p] = [events |-> tx[p].events \union {Key(d)}, levels |-> tx[p].levels]]
  /\ run' = [run EXCEPT ![p] = [run[p] EXCEPT !.pc = "bump", !.row = NoRow]]

Skips(p, d) ==
  /\ Conflicts(p, Key(d))
  /\ run' = [run EXCEPT ![p] = [run[p] EXCEPT !.pc = "select", !.row = NoRow, !.due = @ \ {d}]]
  /\ UNCHANGED tx

\* What typing says of one due item and of its key.
LEMMA DueItemFacts ==
  ASSUME Typed, NEW p \in Runs, run[p] \in Memory, NEW d \in run[p].due
  PROVE  /\ d \in DueItems /\ d.on \in Incidents /\ d.since \in Time /\ d.level \in Levels
         /\ d.cycle \in 0..MaxCycle /\ Key(d) \in Keys
         /\ Key(d)[1] = d.on /\ Key(d)[2] = d.cycle /\ Key(d)[3] = d.level
<1>1. d \in DueItems
  BY DEF Memory
<1> QED
  BY <1>1 DEF DueItems, Key, Keys

\* The SELECT of the INSERT, spelt out for typed states.
LEMMA SelectEffect ==
  ASSUME Typed, NEW p \in Runs, SelectRow(p)
  PROVE  /\ run[p].pc = "select" /\ run[p] \in Memory
         /\ \E d \in run[p].due : IsNext(d, run[p].due) /\ (Selects(p, d) \/ Passes(p, d))
         /\ UNCHANGED <<now, incident, held, lease, tx, fired, faults>>
<1>1. /\ run[p].pc = "select" /\ run[p] \in Memory
      /\ UNCHANGED <<now, incident, held, lease, tx, fired, faults>>
  BY RunShape DEF SelectRow
<1>2. PICK d \in run[p].due :
        /\ IsNext(d, run[p].due)
        /\ run' = IF StillCandidate(p, d)
                  THEN [run EXCEPT ![p].pc = "insert", ![p].row = incident[d.on]]
                  ELSE [run EXCEPT ![p].due = @ \ {d}]
  BY DEF SelectRow
<1>3. CASE StillCandidate(p, d)
  <2>1. run' = [run EXCEPT ![p].pc = "insert", ![p].row = incident[d.on]]
    BY <1>2, <1>3
  <2>2. run' = [run EXCEPT ![p] = [run[p] EXCEPT !.pc = "insert", !.row = incident[d.on]]]
    BY <2>1 DEF Typed
  <2> QED
    BY <1>1, <1>2, <1>3, <2>2 DEF Selects
<1>4. CASE ~StillCandidate(p, d)
  <2>1. run' = [run EXCEPT ![p] = [run[p] EXCEPT !.due = @ \ {d}]]
    BY <1>2, <1>4
  <2> QED
    BY <1>1, <1>2, <1>4, <2>1 DEF Passes
<1> QED
  BY <1>3, <1>4

\* The write of the INSERT, spelt out.
LEMMA InsertEffect ==
  ASSUME Typed, NEW p \in Runs, InsertEvent(p)
  PROVE  /\ run[p].pc = "insert" /\ run[p] \in Memory
         /\ \E d \in run[p].due : IsNext(d, run[p].due) /\ (Inserts(p, d) \/ Skips(p, d))
         /\ UNCHANGED <<now, incident, held, lease, fired, faults>>
<1>1. run[p].pc = "insert" /\ run[p] \in Memory /\ UNCHANGED <<now, incident, held, lease, fired, faults>>
  BY RunShape DEF InsertEvent
<1>2. PICK d \in run[p].due :
        /\ IsNext(d, run[p].due)
        /\ ~KeyHeld(p, Key(d))
        /\ IF Conflicts(p, Key(d))
           THEN /\ run' = [run EXCEPT ![p].pc = "select", ![p].row = NoRow, ![p].due = @ \ {d}]
                /\ UNCHANGED tx
           ELSE /\ run' = [run EXCEPT ![p].pc = "bump", ![p].row = NoRow]
                /\ tx' = [tx EXCEPT ![p].events = @ \union {Key(d)}]
  BY DEF InsertEvent
<1>3. CASE ~Conflicts(p, Key(d))
  <2>1. tx[p] = [events |-> tx[p].events, levels |-> tx[p].levels]
    BY DEF Typed, Writes
  <2>2. tx' = [tx EXCEPT ![p] = [tx[p] EXCEPT !.events = @ \union {Key(d)}]]
    BY <1>2, <1>3
  <2>3. [tx[p] EXCEPT !.events = @ \union {Key(d)}]
          = [events |-> tx[p].events \union {Key(d)}, levels |-> tx[p].levels]
    BY <2>1
  <2>4. run' = [run EXCEPT ![p].pc = "bump", ![p].row = NoRow]
    BY <1>2, <1>3
  <2>5. run' = [run EXCEPT ![p] = [run[p] EXCEPT !.pc = "bump", !.row = NoRow]]
    BY <2>4 DEF Typed
  <2> QED
    BY <1>1, <1>2, <1>3, <2>2, <2>3, <2>5 DEF Inserts
<1>4. CASE Conflicts(p, Key(d))
  <2>1. /\ run' = [run EXCEPT ![p].pc = "select", ![p].row = NoRow, ![p].due = @ \ {d}]
        /\ UNCHANGED tx
    BY <1>2, <1>4
  <2>2. run' = [run EXCEPT ![p] = [run[p] EXCEPT !.pc = "select", !.row = NoRow, !.due = @ \ {d}]]
    BY <2>1 DEF Typed
  <2> QED
    BY <1>1, <1>2, <1>4, <2>1, <2>2 DEF Skips
<1> QED
  BY <1>3, <1>4

\* The levels a transaction has written once it has raised d's.
RaisedLevels(p, d) ==
  IF LevelSeen(p, d.on) < d.level
  THEN [i \in DOMAIN tx[p].levels \union {d.on} |-> IF i = d.on THEN d.level ELSE tx[p].levels[i]]
  ELSE tx[p].levels

\* The counter's UPDATE, spelt out.
LEMMA BumpEffect ==
  ASSUME Typed, NEW p \in Runs, BumpLevel(p)
  PROVE  /\ run[p].pc = "bump" /\ run[p] \in Memory
         /\ \E d \in run[p].due :
              /\ IsNext(d, run[p].due)
              /\ \A q \in Runs \ {p} : d.on \notin DOMAIN tx[q].levels
              /\ tx' = [tx EXCEPT ![p] = [events |-> tx[p].events, levels |-> RaisedLevels(p, d)]]
              /\ run' = [run EXCEPT ![p] = [run[p] EXCEPT !.pc = "select", !.due = @ \ {d}]]
         /\ UNCHANGED <<now, incident, held, lease, fired, faults>>
<1>1. run[p].pc = "bump" /\ run[p] \in Memory /\ UNCHANGED <<now, incident, held, lease, fired, faults>>
  BY RunShape DEF BumpLevel
<1>2. PICK d \in run[p].due :
       /\ IsNext(d, run[p].due)
       /\ \A q \in Runs \ {p} : d.on \notin DOMAIN tx[q].levels
       /\ tx' = [tx EXCEPT ![p].levels =
                   IF LevelSeen(p, d.on) < d.level
                   THEN [i \in DOMAIN @ \union {d.on} |-> IF i = d.on THEN RaisedTo(p, d) ELSE @[i]]
                   ELSE @]
       /\ run' = [run EXCEPT ![p].pc = "select", ![p].due = @ \ {d}]
  BY DEF BumpLevel
<1>3. tx[p] = [events |-> tx[p].events, levels |-> tx[p].levels]
  BY DEF Typed, Writes
<1>4. tx' = [tx EXCEPT ![p] = [tx[p] EXCEPT !.levels = RaisedLevels(p, d)]]
  BY <1>2, Zenon DEF RaisedLevels, RaisedTo
<1>5. [tx[p] EXCEPT !.levels = RaisedLevels(p, d)] = [events |-> tx[p].events, levels |-> RaisedLevels(p, d)]
  BY <1>3
<1>6. run' = [run EXCEPT ![p] = [run[p] EXCEPT !.pc = "select", !.due = @ \ {d}]]
  BY <1>2 DEF Typed
<1> QED
  BY <1>1, <1>2, <1>4, <1>5, <1>6

\* The commit, spelt out.
LEMMA CommitEffect ==
  ASSUME Typed, NEW p \in Runs, CommitBatch(p)
  PROVE  /\ run[p].pc = "select" /\ run[p].due = {} /\ run[p] \in Memory
         /\ incident' = [i \in Incidents |-> [incident[i] EXCEPT !.level = LevelSeen(p, i)]]
         /\ fired' = [k \in Keys |-> IF k \in tx[p].events THEN fired[k] + 1 ELSE fired[k]]
         /\ tx' = [tx EXCEPT ![p] = NoWrites]
         /\ run' = [run EXCEPT ![p] = [run[p] EXCEPT !.pc = "next"]]
         /\ UNCHANGED <<now, held, lease, faults>>
<1>1. run[p].pc = "select" /\ run[p] \in Memory
  BY RunShape DEF CommitBatch
<1>2. run' = [run EXCEPT ![p] = [run[p] EXCEPT !.pc = "next"]]
  BY DEF CommitBatch
<1> QED
  BY <1>1, <1>2 DEF CommitBatch

\* Going on to the next batch, spelt out.
LEMMA NextBatchEffect ==
  ASSUME Typed, NEW p \in Runs, NextBatch(p)
  PROVE  /\ run[p].pc = "next" /\ run[p].more /\ run[p] \in Memory
         /\ run' = [run EXCEPT ![p] = [run[p] EXCEPT !.pc = "scan", !.due = {}]]
         /\ lease' = IF lease.owner = p THEN [lease EXCEPT !.until = now + LEASE] ELSE lease
         /\ UNCHANGED <<now, incident, held, tx, fired, faults>>
<1>1. run[p].pc = "next" /\ run[p] \in Memory
  BY RunShape DEF NextBatch
<1>2. run' = [run EXCEPT ![p] = [run[p] EXCEPT !.pc = "scan", !.due = {}]]
  BY DEF NextBatch, Typed
<1> QED
  BY <1>1, <1>2 DEF NextBatch

\* What typing says of one transaction's writes.
LEMMA LevelTypes ==
  ASSUME Typed, NEW p \in Runs
  PROVE  /\ tx[p].events \subseteq Keys
         /\ \E D \in SUBSET Incidents : tx[p].levels \in [D -> Levels]
         /\ DOMAIN tx[p].levels \subseteq Incidents
         /\ \A i \in DOMAIN tx[p].levels : tx[p].levels[i] \in Levels
         /\ \A i \in Incidents : LevelSeen(p, i) \in Levels \union {0} /\ LevelSeen(p, i) \in Nat
<1>1. tx[p].events \subseteq Keys /\ tx[p].levels \in UNION {[D -> Levels] : D \in SUBSET Incidents}
  BY DEF Typed, Writes
<1>2. PICK D \in SUBSET Incidents : tx[p].levels \in [D -> Levels]
  <2> DEFINE levels == tx[p].levels
  <2>1. levels \in UNION {[D -> Levels] : D \in SUBSET Incidents}
    BY <1>1
  <2> HIDE DEF levels
  <2>2. \E D \in SUBSET Incidents : levels \in [D -> Levels]
    BY <2>1
  <2> QED
    BY <2>2 DEF levels
<1>3. DOMAIN tx[p].levels = D /\ \A i \in D : tx[p].levels[i] \in Levels
  BY <1>2
<1>4. ASSUME NEW i \in Incidents
      PROVE  LevelSeen(p, i) \in Levels \union {0} /\ LevelSeen(p, i) \in Nat
  <2>1. incident[i].level \in Levels \union {0}
    BY DEF Typed, Row
  <2>2. LevelSeen(p, i) \in Levels \union {0}
    BY <1>3, <2>1 DEF LevelSeen
  <2> QED
    BY <2>2, LevelsAreNaturals
<1> QED
  BY <1>1, <1>2, <1>3, <1>4

\* The steps of a run keep the state typed.
LEMMA RunTypes ==
  ASSUME Typed, Clocks, NEW p \in Runs,
         \/ ClaimLease(p) \/ ReadBatch(p) \/ SelectRow(p) \/ InsertEvent(p) \/ BumpLevel(p)
         \/ CommitBatch(p) \/ NextBatch(p) \/ Complete(p) \/ FailRun(p)
  PROVE  Typed' /\ Clocks'
<1>0. NoWrites \in Writes
  <2>1. {} \in SUBSET Incidents /\ <<>> \in [{} -> Levels]
    OBVIOUS
  <2> QED
    BY <2>1 DEF NoWrites, Writes
<1>1. CASE ClaimLease(p)
  <2>1. now + LEASE \in Nat
    BY BoundsAssumption, TimesAreNotNever DEF Typed
  <2>2. [pc |-> "scan", began |-> now, touched |-> {}, cursor |-> <<Never, Never>>,
         more |-> TRUE, due |-> {}, row |-> NoRow] \in Memory
    BY DEF Memory, Typed
  <2> QED
    BY <1>1, <2>1, <2>2 DEF ClaimLease, Typed, Clocks
<1>2. CASE ReadBatch(p)
  BY <1>2, ReadBatchEffect DEF Typed, Clocks
<1>3. CASE InsertEvent(p)
  <2>1. /\ run[p] \in Memory
        /\ UNCHANGED <<now, incident, held, lease, fired, faults>>
    BY <1>3, InsertEffect
  <2>2. PICK d \in run[p].due : Inserts(p, d) \/ Skips(p, d)
    BY <1>3, InsertEffect
  <2>3. /\ [run[p] EXCEPT !.pc = "bump", !.row = NoRow] \in Memory
        /\ [run[p] EXCEPT !.pc = "select", !.row = NoRow, !.due = @ \ {d}] \in Memory
    BY <2>1 DEF Memory
  <2>4. [events |-> tx[p].events \union {Key(d)}, levels |-> tx[p].levels] \in Writes
    BY <2>1, DueItemFacts DEF Typed, Writes
  <2> QED
    BY <2>1, <2>2, <2>3, <2>4 DEF Typed, Clocks, Inserts, Skips
<1>4. CASE BumpLevel(p)
  <2>1. /\ run[p] \in Memory
        /\ UNCHANGED <<now, incident, held, lease, fired, faults>>
    BY <1>4, BumpEffect
  <2>2. PICK d \in run[p].due :
          /\ tx' = [tx EXCEPT ![p] = [events |-> tx[p].events, levels |-> RaisedLevels(p, d)]]
          /\ run' = [run EXCEPT ![p] = [run[p] EXCEPT !.pc = "select", !.due = @ \ {d}]]
    BY <1>4, BumpEffect
  <2>3. [run[p] EXCEPT !.pc = "select", !.due = @ \ {d}] \in Memory
    BY <2>1 DEF Memory
  <2>4. RaisedLevels(p, d) \in UNION {[D -> Levels] : D \in SUBSET Incidents}
    <3>1. PICK D \in SUBSET Incidents : tx[p].levels \in [D -> Levels]
      BY LevelTypes
    <3>2. CASE LevelSeen(p, d.on) < d.level
      <4>1. RaisedLevels(p, d) \in [D \union {d.on} -> Levels]
        BY <2>1, <3>1, <3>2, DueItemFacts DEF RaisedLevels
      <4>2. D \union {d.on} \in SUBSET Incidents
        BY <2>1, DueItemFacts
      <4> QED
        BY <4>1, <4>2
    <3>3. CASE ~(LevelSeen(p, d.on) < d.level)
      BY <3>1, <3>3 DEF RaisedLevels
    <3> QED
      BY <3>2, <3>3
  <2>5. [events |-> tx[p].events, levels |-> RaisedLevels(p, d)] \in Writes
    BY <2>4 DEF Typed, Writes
  <2> QED
    BY <2>1, <2>2, <2>3, <2>5 DEF Typed, Clocks
<1>5. CASE CommitBatch(p)
  <2>1. \A i \in Incidents : [incident[i] EXCEPT !.level = LevelSeen(p, i)] \in Row
    BY LevelTypes DEF Typed, Row
  <2>2. incident' \in [Incidents -> Row]
    BY <1>5, <2>1, CommitEffect
  <2>3. \A i \in Incidents : /\ incident'[i].severity = incident[i].severity
                             /\ incident'[i].since = incident[i].since
                             /\ incident'[i].cycle = incident[i].cycle
    BY <1>5, CommitEffect DEF Typed, Row
  <2>4. [run[p] EXCEPT !.pc = "next"] \in Memory
    BY <1>5, CommitEffect DEF Memory
  <2>5. fired' \in [Keys -> Nat]
    BY <1>5, CommitEffect DEF Typed
  <2>6. Typed'
    BY <1>0, <1>5, <2>2, <2>4, <2>5, CommitEffect DEF Typed
  <2>7. Clocks'
    BY <1>5, <2>3, CommitEffect DEF Clocks, ClockIsBand, Succeeds
  <2> QED
    BY <2>6, <2>7
<1>6. CASE NextBatch(p)
  <2>1. [run[p] EXCEPT !.pc = "scan", !.due = {}] \in Memory
    <3>1. run[p] \in Memory /\ {} \in SUBSET DueItems
      BY <1>6, NextBatchEffect
    <3> QED
      BY <3>1 DEF Memory
  <2>2. now + LEASE \in Nat
    BY BoundsAssumption, TimesAreNotNever DEF Typed
  <2>3. lease' \in [owner : Runs, until : Nat] \union {Free}
    BY <1>6, <2>2, NextBatchEffect DEF Typed, Free
  <2>4. /\ run' = [run EXCEPT ![p] = [run[p] EXCEPT !.pc = "scan", !.due = {}]]
        /\ UNCHANGED <<now, incident, held, tx, fired, faults>>
    BY <1>6, NextBatchEffect
  <2> QED
    BY <2>1, <2>3, <2>4 DEF Typed, Clocks
<1>7. CASE Complete(p)
  BY <1>7 DEF Complete, Released, Typed, Clocks
<1>8. CASE FailRun(p)
  <2>1. /\ run' = [run EXCEPT ![p] = Idle] /\ tx' = [tx EXCEPT ![p] = NoWrites]
        /\ lease' \in {lease, Free} /\ faults' \in 0..MaxFaults
        /\ UNCHANGED <<now, incident, held, fired>>
    BY <1>8, BoundsAssumption DEF FailRun, Released, Typed
  <2> QED
    BY <1>0, <2>1 DEF Typed, Clocks
<1>9. CASE SelectRow(p)
  <2>1. /\ run[p] \in Memory
        /\ UNCHANGED <<now, incident, held, lease, tx, fired, faults>>
    BY <1>9, SelectEffect
  <2>2. PICK d \in run[p].due : Selects(p, d) \/ Passes(p, d)
    BY <1>9, SelectEffect
  <2>3. incident[d.on] \in Row
    BY <2>1, DueItemFacts DEF Typed
  <2>4. /\ [run[p] EXCEPT !.pc = "insert", !.row = incident[d.on]] \in Memory
        /\ [run[p] EXCEPT !.due = @ \ {d}] \in Memory
    BY <2>1, <2>3 DEF Memory
  <2> QED
    BY <2>1, <2>2, <2>4 DEF Typed, Clocks, Selects, Passes
<1> QED
  BY <1>1, <1>2, <1>3, <1>4, <1>5, <1>6, <1>7, <1>8, <1>9

\* Every step keeps the state typed.
LEMMA TypedStep == Typed /\ Clocks /\ [Next]_vars => Typed' /\ Clocks'
<1> SUFFICES ASSUME Typed, Clocks, [Next]_vars PROVE Typed' /\ Clocks'
  OBVIOUS
<1>1. CASE UNCHANGED vars
  BY <1>1 DEF vars, Typed, Clocks
<1>2. CASE Tick
  <2>1. now' \in Time
    BY <1>2, BoundsAssumption DEF Tick, Typed, Time
  <2> QED
    BY <1>2, <2>1 DEF Tick, Typed, Clocks
<1> QED
  BY <1>1, <1>2, PeopleTypes, RunTypes DEF Next

-------------------------------------------------------------------------------
(* What a batch has of the candidates.                                      *)

\* The candidates before i in the scan's order.
Earlier(cursor, i) == {j \in Candidates(cursor) : After(Position(i), Position(j))}

\* A batch is the candidates that have fewer than BATCH_SIZE before them.
LEMMA BatchIsPrefix ==
  ASSUME NEW cursor
  PROVE  /\ Candidates(cursor) \subseteq Incidents
         /\ Batch(cursor) = {i \in Candidates(cursor) : Cardinality(Earlier(cursor, i)) < BATCH_SIZE}
         /\ \A i \in Candidates(cursor) :
              IsFiniteSet(Earlier(cursor, i)) /\ Cardinality(Earlier(cursor, i)) \in Nat
<1>1. Candidates(cursor) \subseteq Incidents
  BY DEF Candidates
<1>2. ASSUME NEW i \in Candidates(cursor)
      PROVE  {j \in Candidates(cursor) :
                \/ incident[j].since < incident[i].since
                \/ incident[j].since = incident[i].since /\ j < i} = Earlier(cursor, i)
  BY DEF Earlier, After, Position
<1>3. Batch(cursor) = {i \in Candidates(cursor) : Cardinality(Earlier(cursor, i)) < BATCH_SIZE}
  BY <1>2 DEF Batch
<1>4. ASSUME NEW i \in Candidates(cursor)
      PROVE  IsFiniteSet(Earlier(cursor, i)) /\ Cardinality(Earlier(cursor, i)) \in Nat
  <2>1. Earlier(cursor, i) \in SUBSET Incidents
    BY <1>1 DEF Earlier
  <2> QED
    BY <2>1, IncidentsAssumption, FS_Subset, FS_CardinalityType
<1> QED
  BY <1>1, <1>3, <1>4

\* A candidate that is not in the batch comes after all of it, and the batch is full.
LEMMA BatchLeavesLater ==
  ASSUME Typed, NEW cursor, NEW i \in Candidates(cursor), i \notin Batch(cursor)
  PROVE  /\ Cardinality(Batch(cursor)) = BATCH_SIZE
         /\ \A j \in Batch(cursor) : After(Position(i), Position(j))
<1> DEFINE C == Candidates(cursor)
           B == Batch(cursor)
           Before(j) == Earlier(cursor, j)
<1>1. /\ C \subseteq Incidents /\ B \subseteq C
      /\ \A j \in C : /\ IsFiniteSet(Before(j)) /\ Cardinality(Before(j)) \in Nat
                      /\ j \in B <=> Cardinality(Before(j)) < BATCH_SIZE
  BY BatchIsPrefix
<1>2. BATCH_SIZE \in Nat \ {0}
  BY BoundsAssumption
<1>3. IsFiniteSet(C) /\ IsFiniteSet(B) /\ IsFiniteSet(C \ B) /\ Cardinality(B) \in Nat
  BY <1>1, IncidentsAssumption, FS_Subset, FS_CardinalityType
<1>4. \A j, k \in C : After(Position(k), Position(j)) => Before(j) \subseteq Before(k)
  BY <1>1, AfterIsOrder DEF Earlier
<1>5. \A k \in C \ B : \A j \in B : After(Position(k), Position(j))
  <2> SUFFICES ASSUME NEW k \in C \ B, NEW j \in B, ~After(Position(k), Position(j))
               PROVE  FALSE
    OBVIOUS
  <2>1. After(Position(j), Position(k))
    BY <1>1, AfterIsOrder
  <2>2. Before(k) \in SUBSET Before(j) /\ IsFiniteSet(Before(j))
    BY <1>1, <1>4, <2>1
  <2>3. Cardinality(Before(k)) <= Cardinality(Before(j))
    BY <2>2, FS_Subset
  <2> QED
    BY <1>1, <1>2, <2>3
<1>6. Cardinality(B) >= BATCH_SIZE
  <2> DEFINE R == {e \in C \X C : After(Position(e[1]), Position(e[2]))}
  <2>1. \A x, y \in C : <<x, y>> \in R <=> After(Position(x), Position(y))
    OBVIOUS
  <2>2. PICK k \in C \ B : \A y \in C \ B : <<k, y>> \notin R
    <3> HIDE DEF R, C, B
    <3>1. /\ \A y \in C \ B : <<y, y>> \notin R
          /\ \A y, z, w \in C \ B : <<y, z>> \in R /\ <<z, w>> \in R => <<y, w>> \in R
      BY <1>1, <2>1, AfterIsOrder
    <3>2. C \ B # {}
      BY DEF C, B
    <3> QED
      BY <1>3, <3>1, <3>2, MaximalElement
  <2>3. Before(k) \in SUBSET B
    BY <2>1, <2>2 DEF Earlier
  <2>4. Cardinality(Before(k)) <= Cardinality(B)
    BY <1>3, <2>3, FS_Subset
  <2> QED
    BY <1>1, <1>2, <1>3, <2>4
<1>7. Cardinality(B) <= BATCH_SIZE
  <2>1. B # {}
    BY <1>2, <1>3, <1>6, FS_EmptySet
  <2>2. \E x \in B : \A j \in B \ {x} : After(Position(x), Position(j))
    <3> HIDE DEF B
    <3> QED
      BY <1>1, <2>1, LastOfBatch
  <2>3. PICK x \in B : \A j \in B \ {x} : After(Position(x), Position(j))
    BY <2>2
  <2>4. B \ {x} \in SUBSET Before(x)
    BY <1>1, <2>3 DEF Earlier
  <2>5. Cardinality(B \ {x}) <= Cardinality(Before(x))
    BY <1>1, <2>4, FS_Subset
  <2>6. Cardinality(B \ {x}) = Cardinality(B) - 1
    BY <1>3, FS_RemoveElement
  <2>7. Cardinality(Before(x)) < BATCH_SIZE /\ Cardinality(Before(x)) \in Nat
    BY <1>1
  <2> HIDE DEF B, Before
  <2> QED
    BY <1>2, <1>3, <2>5, <2>6, <2>7
<1> HIDE DEF B, C
<1>8. Cardinality(B) = BATCH_SIZE
  BY <1>2, <1>3, <1>6, <1>7
<1> QED
  BY <1>5, <1>8 DEF B, C

-------------------------------------------------------------------------------
(* The invariant of the runs and their transactions.                        *)

\* A due item still fits the incident, unless a severity change has ended its cycle
\* or is about to take the incident out of the band.
Fits(d, r) ==
  /\ d.cycle <= r.cycle
  /\ d.cycle = r.cycle /\ InHighBand(r.severity) =>
       r.since = d.since /\ SeverityRank(r.severity) <= SeverityRank(d.severity)

\* The due items of one incident come from one reading of its row.
OneReading(due) ==
  \A d, e \in due :
    d.on = e.on => d.cycle = e.cycle /\ d.since = e.since /\ d.severity = e.severity

\* What the list of due items says is true enough to act on.
DueIsSound(p) ==
  run[p] # Idle =>
    /\ run[p].began <= now
    /\ \A d \in run[p].due : Fits(d, incident[d.on])
    /\ OneReading(run[p].due)

\* The row r is still on the clock of the due item d, and no more severe.
OnClockOf(d, r) == r.since = d.since /\ SeverityRank(r.severity) <= SeverityRank(d.severity)

\* The row an INSERT has selected, while it waits to write: one its due item fits.
RowIsSound(p) ==
  run[p] # Idle =>
    /\ run[p].row # NoRow <=> run[p].pc = "insert"
    /\ run[p].pc = "insert" =>
         \A d \in run[p].due : IsNext(d, run[p].due) => OnClockOf(d, run[p].row)

\* A transaction is open only while its batch is worked off, and between the INSERT
\* and the UPDATE it has the event whose level is to be raised.
OpenInBatch(p) ==
  /\ run[p].pc \notin {"select", "insert", "bump"} => tx[p] = NoWrites
  /\ run[p].pc \in {"scan", "next"} => run[p].due = {}
  /\ run[p].pc = "bump" =>
       \A d \in run[p].due : IsNext(d, run[p].due) => Key(d) \in tx[p].events

\* The writes of an open transaction: events of past or current cycles, levels that
\* are raised, each by an event of the same transaction.
WritesAreSound(p) ==
  /\ \A k \in tx[p].events : k[2] <= incident[k[1]].cycle
  /\ \A i \in DOMAIN tx[p].levels :
       /\ tx[p].levels[i] > incident[i].level
       /\ \E c \in 0..MaxCycle : <<i, c, tx[p].levels[i]>> \in tx[p].events

\* Two transactions never update the same incident.
RowLocks == \A p, q \in Runs : p # q => DOMAIN tx[p].levels \intersect DOMAIN tx[q].levels = {}

\* Level l of incident i fired in a cycle up to c, by the events in f.
FiredBy(f, i, c, l) == \E b \in 0..MaxCycle : b <= c /\ f[<<i, b, l>>] > 0

\* A level has fired whether it is in the row or still to be written back.
LevelsFired ==
  /\ \A i \in Incidents :
       incident[i].level > 0 => FiredBy(fired, i, incident[i].cycle, incident[i].level)
  /\ \A i \in Incidents : held[i] # NoChange /\ held[i].clock.level > 0 =>
       FiredBy(fired, i, held[i].clock.cycle, held[i].clock.level)

\* Level l of incident i is reached, will be when p's transaction commits, is on p's
\* list, or is still ahead of p's scan.
Accounted(p, i, l) ==
  \/ Reached(i, l)
  \/ <<i, incident[i].cycle, l>> \in tx[p].events
  \/ i \in DOMAIN tx[p].levels /\ tx[p].levels[i] >= l
  \/ DueItem(i, l) \in run[p].due
  \/ (run[p].pc = "scan" \/ run[p].more) /\ After(Position(i), run[p].cursor)

\* A run never loses an incident that was due when it began and that nobody wrote to.
NothingLost(p) ==
  run[p] # Idle =>
    \A i \in Incidents \ run[p].touched, l \in Levels :
      DueBy(run[p].began, i, l) => Accounted(p, i, l)

RunInv(p) ==
  DueIsSound(p) /\ RowIsSound(p) /\ OpenInBatch(p) /\ WritesAreSound(p) /\ NothingLost(p)

IInv == Typed /\ Clocks /\ RowLocks /\ LevelsFired /\ \A p \in Runs : RunInv(p)

-------------------------------------------------------------------------------
(* What a run may rely on while others move.                                *)

WorldMoves ==
  /\ now <= now'
  /\ \A i \in Incidents : MovesOn(incident[i], incident'[i])
  /\ \A k \in Keys : fired[k] <= fired'[k]

\* Run p itself does not move, but the incidents it will have to leave out are noted.
StandsStill(p) ==
  /\ tx'[p] = tx[p]
  /\ run'[p].pc = run[p].pc /\ (run'[p] = Idle <=> run[p] = Idle)
  /\ run[p] # Idle =>
       /\ run'[p].began = run[p].began /\ run'[p].cursor = run[p].cursor
       /\ run'[p].more = run[p].more /\ run'[p].due = run[p].due
       /\ run'[p].row = run[p].row
       /\ run[p].touched \subseteq run'[p].touched
       /\ \A i \in Incidents \ run'[p].touched : OnlyRaised(incident[i], incident'[i])
  /\ \A i \in DOMAIN tx[p].levels : incident'[i].level = incident[i].level

\* A due item keeps fitting an incident whose clock moves on.
LEMMA FitsOn ==
  ASSUME Typed, Typed', NEW i \in Incidents, MovesOn(incident[i], incident'[i]),
         NEW d \in DueItems, Fits(d, incident[i])
  PROVE  Fits(d, incident'[i])
<1>1. /\ incident[i] \in Row /\ incident'[i] \in Row /\ d.cycle \in Int
      /\ incident[i].cycle \in Int /\ incident'[i].cycle \in Int
      /\ SeverityRank(incident[i].severity) \in 1..4 /\ SeverityRank(incident'[i].severity) \in 1..4
      /\ SeverityRank(d.severity) \in 1..4
  <2>1. incident[i] \in Row /\ incident'[i] \in Row
    BY DEF Typed
  <2>2. /\ incident[i].severity \in Severities /\ incident'[i].severity \in Severities
        /\ d.severity \in Severities
    BY <2>1 DEF Row, DueItems, Severities
  <2>3. incident[i].cycle \in 0..MaxCycle /\ incident'[i].cycle \in 0..MaxCycle /\ d.cycle \in 0..MaxCycle
    BY <2>1 DEF Row, DueItems
  <2> QED
    BY <2>1, <2>2, <2>3, BandRanks
<1> QED
  BY <1>1 DEF MovesOn, Fits

\* A level that has fired has fired for every later cycle and in every later state.
LEMMA FiredOn ==
  ASSUME Typed, Typed', \A k \in Keys : fired[k] <= fired'[k], NEW i \in Incidents,
         NEW c \in Nat, NEW d \in Nat, c <= d, NEW l \in Levels, FiredBy(fired, i, c, l)
  PROVE  FiredBy(fired', i, d, l)
<1>1. PICK b \in 0..MaxCycle : b <= c /\ fired[<<i, b, l>>] > 0
  BY DEF FiredBy
<1>2. <<i, b, l>> \in Keys
  BY DEF Keys
<1>3. fired'[<<i, b, l>>] > 0
  BY <1>1, <1>2 DEF Typed
<1> QED
  BY <1>1, <1>3 DEF FiredBy

\* The invariant of a run stands while others move.
LEMMA StandingRun ==
  ASSUME Typed, Clocks, Typed', WorldMoves, NEW p \in Runs, RunInv(p), StandsStill(p)
  PROVE  RunInv(p)'
<1>1. DueIsSound(p)'
  <2> SUFFICES ASSUME run'[p] # Idle PROVE DueIsSound(p)'
    BY DEF DueIsSound
  <2>1. /\ run[p] # Idle /\ run[p] \in Memory
        /\ run'[p].due = run[p].due /\ run'[p].began = run[p].began
    BY RunShape DEF StandsStill
  <2>2. run'[p].began <= now'
    <3>1. run[p].began \in Int /\ now \in Int /\ now' \in Int
      BY <2>1, TimesAreNotNever DEF Memory, Typed
    <3>2. run[p].began <= now /\ now <= now'
      BY <2>1 DEF RunInv, DueIsSound, WorldMoves
    <3> QED
      BY <2>1, <3>1, <3>2
  <2>3. ASSUME NEW d \in run[p].due PROVE Fits(d, incident'[d.on])
    <3>1. d \in DueItems /\ d.on \in Incidents
      BY <2>1, DueItemFacts
    <3>2. MovesOn(incident[d.on], incident'[d.on]) /\ Fits(d, incident[d.on])
      BY <2>1, <3>1 DEF WorldMoves, RunInv, DueIsSound
    <3> QED
      BY <3>1, <3>2, FitsOn
  <2>4. OneReading(run[p].due)
    BY <2>1 DEF RunInv, DueIsSound
  <2> QED
    BY <2>1, <2>2, <2>3, <2>4 DEF DueIsSound, OneReading
<1>2. OpenInBatch(p)'
  <2>1. /\ run'[p].pc = run[p].pc /\ tx'[p] = tx[p]
        /\ run[p].pc \in {"scan", "next", "bump"} => run'[p].due = run[p].due
    BY RunShape DEF StandsStill, Idle
  <2> QED
    BY <2>1 DEF RunInv, OpenInBatch, IsNext
<1>3. WritesAreSound(p)'
  <2>1. tx'[p] = tx[p] /\ \A i \in DOMAIN tx[p].levels : incident'[i].level = incident[i].level
    BY DEF StandsStill
  <2>2. ASSUME NEW k \in tx[p].events PROVE k[2] <= incident'[k[1]].cycle
    <3>1. k \in Keys
      BY LevelTypes
    <3>2. k[1] \in Incidents /\ k[2] \in 0..MaxCycle
      BY <3>1 DEF Keys
    <3>3. /\ incident[k[1]].cycle \in 0..MaxCycle /\ incident'[k[1]].cycle \in 0..MaxCycle
          /\ incident[k[1]].cycle <= incident'[k[1]].cycle
      BY <3>2 DEF Typed, Row, WorldMoves, MovesOn
    <3>4. k[2] <= incident[k[1]].cycle
      BY DEF RunInv, WritesAreSound
    <3> QED
      BY <3>2, <3>3, <3>4
  <2> QED
    BY <2>1, <2>2 DEF RunInv, WritesAreSound
<1>4. NothingLost(p)'
  <2> SUFFICES ASSUME run'[p] # Idle,
                      NEW i \in Incidents \ run'[p].touched, NEW l \in Levels,
                      DueBy(run[p].began, i, l)'
               PROVE  Accounted(p, i, l)'
    BY DEF NothingLost, StandsStill
  <2>1. /\ run[p] # Idle /\ i \in Incidents \ run[p].touched
        /\ run'[p].pc = run[p].pc /\ run'[p].due = run[p].due
        /\ run'[p].cursor = run[p].cursor /\ run'[p].more = run[p].more
        /\ tx'[p] = tx[p] /\ run'[p].began = run[p].began
        /\ OnlyRaised(incident[i], incident'[i])
    BY DEF StandsStill
  <2>2. DueBy(run[p].began, i, l)
    BY <2>1 DEF DueBy, OnClock, OnlyRaised
  <2>3. Accounted(p, i, l)
    BY <2>1, <2>2 DEF RunInv, NothingLost
  <2>4. Reached(i, l) => Reached(i, l)'
    <3>1. /\ incident[i].level \in Nat /\ incident'[i].level \in Nat /\ l \in Nat
          /\ incident[i].cycle \in 0..MaxCycle
      BY LevelsAreNaturals DEF Typed, Row
    <3>2. <<i, incident[i].cycle, l>> \in Keys
      BY <3>1 DEF Keys
    <3>3. fired[<<i, incident[i].cycle, l>>] > 0 => fired'[<<i, incident[i].cycle, l>>] > 0
      BY <3>2 DEF Typed, WorldMoves
    <3> QED
      BY <2>1, <3>1, <3>3 DEF Reached, OnlyRaised
  <2>5. DueItem(i, l)' = DueItem(i, l) /\ Position(i)' = Position(i)
    BY <2>1 DEF DueItem, Position, OnlyRaised
  <2> QED
    BY <2>1, <2>3, <2>4, <2>5 DEF Accounted, OnlyRaised
<1>5. RowIsSound(p)'
  BY DEF RunInv, RowIsSound, StandsStill, IsNext
<1> QED
  BY <1>1, <1>2, <1>3, <1>4, <1>5 DEF RunInv

\* A request's UPDATE, seen from a run.
LEMMA WrittenMoves ==
  ASSUME Typed, Clocks, Typed', NEW i \in Incidents, NEW new \in Row, MovesOn(incident[i], new),
         Written(i, new)
  PROVE  WorldMoves /\ \A p \in Runs : StandsStill(p)
<1>1. /\ incident' = [incident EXCEPT ![i] = new]
      /\ run' = [p \in Runs |-> IF run[p] = Idle THEN Idle
                                ELSE [run[p] EXCEPT !.touched = @ \union {i}]]
      /\ UNCHANGED <<now, lease, tx, fired, faults>>
      /\ ~Locked(i)
  BY DEF Written
<1>2. \A j \in Incidents \ {i} : incident'[j] = incident[j]
  BY <1>1 DEF Typed
<1>3. incident'[i] = new
  BY <1>1 DEF Typed
<1>4. now <= now' /\ \A k \in Keys : fired[k] <= fired'[k]
  BY <1>1, TimesAreNotNever DEF Typed
<1>5. WorldMoves
  BY <1>2, <1>3, <1>4, RowStays DEF WorldMoves
<1>6. ASSUME NEW p \in Runs PROVE StandsStill(p)
  <2>1. i \notin DOMAIN tx[p].levels /\ DOMAIN tx[p].levels \subseteq Incidents /\ tx'[p] = tx[p]
    BY <1>1, LevelTypes DEF Locked
  <2>2. CASE run[p] = Idle
    <3>1. run'[p] = Idle
      BY <1>1, <2>2
    <3> QED
      BY <1>2, <2>1, <2>2, <3>1 DEF StandsStill
  <2>3. CASE run[p] # Idle
    <3>1. run[p] \in Memory /\ run'[p] = [run[p] EXCEPT !.touched = @ \union {i}]
      BY <1>1, <2>3, RunShape
    <3>2. /\ run'[p].pc = run[p].pc /\ run'[p].began = run[p].began /\ run'[p].more = run[p].more
          /\ run'[p].cursor = run[p].cursor /\ run'[p].due = run[p].due
          /\ run'[p].touched = run[p].touched \union {i} /\ run'[p] # Idle
          /\ run'[p].row = run[p].row
      BY <3>1 DEF Memory, Idle
    <3>3. \A j \in Incidents \ run'[p].touched : OnlyRaised(incident[j], incident'[j])
      BY <1>2, <3>2, RowStays
    <3> QED
      BY <1>2, <2>1, <2>3, <3>2, <3>3 DEF StandsStill
  <2> QED
    BY <2>2, <2>3
<1> QED
  BY <1>5, <1>6

\* The world moves on when no row is written and the job writes no event.
LEMMA NothingWritten ==
  ASSUME Typed, incident' = incident, fired' = fired, now <= now'
  PROVE  /\ WorldMoves
         /\ \A p \in Runs : run'[p] = run[p] /\ tx'[p] = tx[p] => StandsStill(p)
  BY RowStays, RowFacts DEF Typed, WorldMoves, StandsStill

\* What an UPDATE does to the levels that are known to have fired.
LEMMA WrittenLevels ==
  ASSUME Typed, LevelsFired, NEW i \in Incidents, NEW new \in Row, Written(i, new),
         new.level > 0 => FiredBy(fired, i, new.cycle, new.level)
  PROVE  LevelsFired'
<1>1. /\ incident' = [incident EXCEPT ![i] = new] /\ held' = [held EXCEPT ![i] = NoChange]
      /\ fired' = fired
  BY DEF Written
<1>2. /\ \A j \in Incidents \ {i} : incident'[j] = incident[j] /\ held'[j] = held[j]
      /\ incident'[i] = new /\ held'[i] = NoChange
  BY <1>1 DEF Typed
<1> QED
  BY <1>1, <1>2 DEF LevelsFired

\* The steps of the people who work on the incidents.
LEMMA PeopleStep ==
  ASSUME IInv, Typed', NEW i \in Incidents,
         \/ Acknowledge(i) \/ Close(i) \/ ReadSeverity(i) \/ CommitSeverity(i) \/ DropSeverity(i)
  PROVE  WorldMoves /\ (\A p \in Runs : StandsStill(p)) /\ RowLocks' /\ LevelsFired'
<1>0. Typed /\ Clocks /\ LevelsFired
  BY DEF IInv
<1>1. RowLocks'
  <2>1. tx' = tx
    BY DEF Acknowledge, Close, ReadSeverity, CommitSeverity, DropSeverity, Written
  <2> QED
    BY <2>1 DEF RowLocks, IInv
<1>2. CASE Acknowledge(i) \/ Close(i) \/ CommitSeverity(i)
  <2>1. PICK new \in Row :
           /\ Written(i, new) /\ MovesOn(incident[i], new)
           /\ \/ new.level = incident[i].level /\ new.cycle = incident[i].cycle
              \/ /\ held[i] # NoChange
                 /\ new.level = held[i].clock.level /\ new.cycle = held[i].clock.cycle
    BY <1>2, EndpointWrites DEF IInv
  <2>2. new.level > 0 => FiredBy(fired, i, new.cycle, new.level)
    BY <2>1 DEF IInv, LevelsFired
  <2>3. LevelsFired'
    BY <2>1, <2>2, WrittenLevels DEF IInv
  <2> QED
    BY <1>1, <2>1, <2>3, WrittenMoves DEF IInv
<1>3. ASSUME UNCHANGED <<now, incident, run, tx, fired>> PROVE WorldMoves /\ \A p \in Runs : StandsStill(p)
  <2>1. now <= now'
    BY <1>3, TimesAreNotNever DEF IInv, Typed
  <2> QED
    BY <1>3, <2>1, NothingWritten DEF IInv
<1>4. CASE ReadSeverity(i)
  <2>1. PICK h \in Change : TakesUp(i, h)
    BY <1>0, <1>4, ReadSeverityEffect
  <2>2. UNCHANGED <<now, incident, run, tx, fired>>
    BY <2>1 DEF TakesUp
  <2>3. LevelsFired'
    BY <1>0, <2>1, <2>2 DEF LevelsFired, Typed, TakesUp
  <2> QED
    BY <1>1, <1>3, <2>2, <2>3
<1>5. CASE DropSeverity(i)
  <2>1. /\ held' = [held EXCEPT ![i] = NoChange]
        /\ UNCHANGED <<now, incident, run, tx, fired>>
    BY <1>5 DEF DropSeverity
  <2>2. LevelsFired'
    BY <1>0, <2>1 DEF LevelsFired, Typed
  <2> QED
    BY <1>1, <1>3, <2>1, <2>2
<1> QED
  BY <1>2, <1>4, <1>5

\* The steps of run p that write no row, seen from outside p.
LEMMA QuietRunStep ==
  ASSUME IInv, NEW p \in Runs,
         \/ ClaimLease(p) \/ ReadBatch(p) \/ SelectRow(p) \/ InsertEvent(p) \/ BumpLevel(p)
         \/ NextBatch(p) \/ Complete(p) \/ FailRun(p)
  PROVE  /\ WorldMoves /\ LevelsFired' /\ incident' = incident /\ fired' = fired /\ now' = now
         /\ \A q \in Runs \ {p} : run'[q] = run[q] /\ tx'[q] = tx[q] /\ StandsStill(q)
<1>0. Typed /\ Clocks /\ LevelsFired
  BY DEF IInv
<1>1. UNCHANGED <<now, incident, held, fired>>
  BY <1>0, ReadBatchEffect, SelectEffect, InsertEffect, BumpEffect, NextBatchEffect
     DEF ClaimLease, Complete, FailRun
<1>2. ASSUME NEW q \in Runs \ {p} PROVE run'[q] = run[q] /\ tx'[q] = tx[q]
  <2>1. CASE ClaimLease(p) \/ Complete(p) \/ FailRun(p)
    BY <1>0, <2>1 DEF ClaimLease, Complete, FailRun, Typed
  <2>2. CASE ReadBatch(p)
    BY <1>0, <2>2, ReadBatchEffect DEF Typed
  <2>3. CASE InsertEvent(p)
    <3>1. PICK d : Inserts(p, d) \/ Skips(p, d)
      BY <1>0, <2>3, InsertEffect
    <3> QED
      BY <1>0, <3>1 DEF Inserts, Skips, Typed
  <2>4. CASE BumpLevel(p)
    <3>1. PICK d :
            /\ tx' = [tx EXCEPT ![p] = [events |-> tx[p].events, levels |-> RaisedLevels(p, d)]]
            /\ run' = [run EXCEPT ![p] = [run[p] EXCEPT !.pc = "select", !.due = @ \ {d}]]
      BY <1>0, <2>4, BumpEffect
    <3> QED
      BY <1>0, <3>1 DEF Typed
  <2>5. CASE NextBatch(p)
    <3>1. run' = [run EXCEPT ![p] = [run[p] EXCEPT !.pc = "scan", !.due = {}]] /\ tx' = tx
      BY <1>0, <2>5, NextBatchEffect
    <3> QED
      BY <1>0, <3>1 DEF Typed
  <2>6. CASE SelectRow(p)
    <3>1. tx' = tx /\ \E d : Selects(p, d) \/ Passes(p, d)
      BY <1>0, <2>6, SelectEffect
    <3> QED
      BY <1>0, <3>1 DEF Selects, Passes, Typed
  <2> QED
    BY <2>1, <2>2, <2>3, <2>4, <2>5, <2>6
<1>3. now <= now'
  BY <1>0, <1>1, TimesAreNotNever DEF Typed
<1>4. LevelsFired'
  BY <1>0, <1>1 DEF LevelsFired
<1> QED
  BY <1>0, <1>1, <1>2, <1>3, <1>4, NothingWritten

\* The steps of a run leave each row's level with at most one open transaction.
LEMMA QuietRunLocks ==
  ASSUME IInv, NEW p \in Runs,
         \/ ClaimLease(p) \/ ReadBatch(p) \/ SelectRow(p) \/ InsertEvent(p) \/ BumpLevel(p)
         \/ NextBatch(p) \/ Complete(p) \/ FailRun(p)
  PROVE  RowLocks'
<1>0. Typed /\ Clocks /\ RowLocks
  BY DEF IInv
<1>1. \A q \in Runs \ {p} : tx'[q] = tx[q]
  BY QuietRunStep
<1>2. \A i \in DOMAIN tx'[p].levels :
        i \in DOMAIN tx[p].levels \/ \A q \in Runs \ {p} : i \notin DOMAIN tx[q].levels
  <2>1. CASE ClaimLease(p) \/ ReadBatch(p) \/ SelectRow(p) \/ NextBatch(p) \/ Complete(p)
    <3>1. tx' = tx
      BY <2>1 DEF ClaimLease, ReadBatch, SelectRow, NextBatch, Complete
    <3> QED
      BY SMTT(60), <3>1
  <2>2. CASE InsertEvent(p)
    <3>1. PICK d : Inserts(p, d) \/ Skips(p, d)
      BY <1>0, <2>2, InsertEffect
    <3>2. tx'[p].levels = tx[p].levels
      BY <1>0, <3>1 DEF Inserts, Skips, Typed
    <3> QED
      BY <3>2
  <2>3. CASE BumpLevel(p)
    <3>1. PICK d :
            /\ \A q \in Runs \ {p} : d.on \notin DOMAIN tx[q].levels
            /\ tx' = [tx EXCEPT ![p] = [events |-> tx[p].events, levels |-> RaisedLevels(p, d)]]
      BY <1>0, <2>3, BumpEffect
    <3>2. tx'[p].levels = RaisedLevels(p, d)
      BY <1>0, <3>1 DEF Typed
    <3>3. DOMAIN RaisedLevels(p, d) \subseteq DOMAIN tx[p].levels \union {d.on}
      BY DEF RaisedLevels
    <3> QED
      BY <3>1, <3>2, <3>3
  <2>4. CASE FailRun(p)
    <3>1. tx'[p] = NoWrites
      BY <1>0, <2>4 DEF FailRun, Typed
    <3> QED
      BY <3>1 DEF NoWrites
  <2> QED
    BY <2>1, <2>2, <2>3, <2>4
<1> QED
  BY <1>0, <1>1, <1>2 DEF RowLocks

\* The commit, seen from outside p: levels rise to what p's transaction wrote, on rows
\* no other transaction has, and every level that rises has its event.
LEMMA CommitWorld ==
  ASSUME IInv, Typed', NEW p \in Runs, CommitBatch(p)
  PROVE  /\ WorldMoves /\ RowLocks' /\ LevelsFired'
         /\ \A i \in Incidents : OnlyRaised(incident[i], incident'[i])
         /\ \A q \in Runs \ {p} : StandsStill(q)
<1>0. Typed /\ Clocks /\ LevelsFired /\ RowLocks /\ WritesAreSound(p)
  BY DEF IInv, RunInv
<1>1. /\ incident' = [i \in Incidents |-> [incident[i] EXCEPT !.level = LevelSeen(p, i)]]
      /\ fired' = [k \in Keys |-> IF k \in tx[p].events THEN fired[k] + 1 ELSE fired[k]]
      /\ tx' = [tx EXCEPT ![p] = NoWrites]
      /\ run' = [run EXCEPT ![p] = [run[p] EXCEPT !.pc = "next"]]
      /\ UNCHANGED <<now, held, lease, faults>>
  BY <1>0, CommitEffect
<1>2. ASSUME NEW i \in Incidents
      PROVE  /\ incident'[i].level = LevelSeen(p, i)
             /\ OnlyRaised(incident[i], incident'[i]) /\ MovesOn(incident[i], incident'[i])
  <2>1. /\ incident'[i].level = LevelSeen(p, i)
        /\ incident'[i].severity = incident[i].severity /\ incident'[i].since = incident[i].since
        /\ incident'[i].cycle = incident[i].cycle /\ incident'[i].acked = incident[i].acked
        /\ incident'[i].closed = incident[i].closed
    BY <1>0, <1>1 DEF Typed, Row
  <2>2. incident[i].level <= LevelSeen(p, i)
    BY <1>0, RowFacts, LevelTypes, LevelsAreNaturals DEF WritesAreSound, LevelSeen
  <2> QED
    BY <1>0, <2>1, <2>2, RowStays DEF OnlyRaised, MovesOn
<1>3. \A k \in Keys : fired'[k] \in Nat /\ fired[k] <= fired'[k] /\ (k \in tx[p].events => fired'[k] > 0)
  BY <1>0, <1>1 DEF Typed
<1>4. now <= now'
  BY <1>0, <1>1, TimesAreNotNever DEF Typed
<1>5. WorldMoves
  BY <1>2, <1>3, <1>4 DEF WorldMoves
<1>6. RowLocks'
  <2>1. tx'[p] = NoWrites /\ \A q \in Runs \ {p} : tx'[q] = tx[q]
    BY <1>0, <1>1 DEF Typed
  <2>2. DOMAIN tx'[p].levels = {}
    BY <2>1 DEF NoWrites
  <2> QED
    BY <1>0, <2>1, <2>2 DEF RowLocks
<1>7. ASSUME NEW q \in Runs \ {p} PROVE StandsStill(q)
  <2>1. run'[q] = run[q] /\ tx'[q] = tx[q]
    BY <1>0, <1>1 DEF Typed
  <2>2. \A i \in DOMAIN tx[q].levels : i \in Incidents /\ i \notin DOMAIN tx[p].levels
    BY <1>0, LevelTypes DEF RowLocks
  <2>3. \A i \in DOMAIN tx[q].levels : incident'[i].level = incident[i].level
    BY <1>2, <2>2 DEF LevelSeen
  <2> QED
    BY <1>2, <2>1, <2>3 DEF StandsStill
<1>8. LevelsFired'
  <2>1. ASSUME NEW i \in Incidents, incident'[i].level > 0
        PROVE  FiredBy(fired', i, incident[i].cycle, incident'[i].level)
    <3>1. CASE i \in DOMAIN tx[p].levels
      <4>1. PICK c \in 0..MaxCycle : <<i, c, tx[p].levels[i]>> \in tx[p].events
        BY <1>0, <3>1 DEF WritesAreSound
      <4>2. <<i, c, tx[p].levels[i]>> \in Keys /\ c <= incident[i].cycle
        BY <1>0, <4>1, LevelTypes DEF WritesAreSound
      <4>3. fired'[<<i, c, incident'[i].level>>] > 0
        BY <1>2, <1>3, <3>1, <4>1, <4>2 DEF LevelSeen
      <4> QED
        BY <1>2, <4>2, <4>3 DEF FiredBy, OnlyRaised
    <3>2. CASE i \notin DOMAIN tx[p].levels
      <4>1. incident'[i].level = incident[i].level
        BY <1>2, <3>2 DEF LevelSeen
      <4>2. incident[i].level \in Levels /\ incident[i].cycle \in Nat /\ incident[i].cycle <= incident[i].cycle
        BY <1>0, <2>1, <4>1, RowFacts DEF Row
      <4>3. FiredBy(fired, i, incident[i].cycle, incident[i].level)
        BY <1>0, <2>1, <4>1 DEF LevelsFired
      <4>4. FiredBy(fired', i, incident[i].cycle, incident[i].level)
        BY <1>0, <1>2, <1>5, <4>2, <4>3, FiredOn DEF WorldMoves, OnlyRaised
      <4> QED
        BY <1>2, <4>1, <4>4 DEF FiredBy, OnlyRaised
    <3> QED
      BY <3>1, <3>2
  <2>2. ASSUME NEW i \in Incidents, held[i] # NoChange, held[i].clock.level > 0
        PROVE  FiredBy(fired', i, held[i].clock.cycle, held[i].clock.level)
    <3>1. held[i] \in Change
      BY <1>0, <2>2 DEF Typed
    <3>2. held[i].clock.level \in Levels /\ held[i].clock.cycle \in Nat
      BY <2>2, <3>1 DEF Change, ClockColumns
    <3>3. held[i].clock.cycle <= held[i].clock.cycle /\ FiredBy(fired, i, held[i].clock.cycle, held[i].clock.level)
      BY <1>0, <2>2, <3>2 DEF LevelsFired
    <3> QED
      BY <1>0, <1>1, <1>5, <3>2, <3>3, FiredOn DEF WorldMoves, FiredBy
  <2> QED
    BY <1>1, <1>2, <2>1, <2>2 DEF LevelsFired, OnlyRaised, FiredBy
<1> QED
  BY <1>2, <1>5, <1>6, <1>7, <1>8

-------------------------------------------------------------------------------
(* The steps of a run, seen from the run itself.                            *)

\* A caller without a run and without writes keeps its part of the invariant.
LEMMA AtRest ==
  ASSUME NEW p \in Runs, run'[p] = Idle, tx'[p] = NoWrites
  PROVE  RunInv(p)'
<1>1. run'[p].pc = "idle" /\ tx'[p].events = {} /\ DOMAIN tx'[p].levels = {}
  BY DEF Idle, NoWrites
<1> QED
  BY <1>1 DEF RunInv, DueIsSound, RowIsSound, OpenInBatch, WritesAreSound, NothingLost

\* A claim starts without writes, with the cursor before every clock.
LEMMA ClaimKeeps ==
  ASSUME IInv, NEW p \in Runs, ClaimLease(p)
  PROVE  RunInv(p)'
<1>0. Typed /\ RunInv(p)
  BY DEF IInv
<1>1. /\ run[p] = Idle /\ tx' = tx /\ now' = now /\ incident' = incident /\ fired' = fired
      /\ run'[p] = [pc |-> "scan", began |-> now, touched |-> {},
                    cursor |-> <<Never, Never>>, more |-> TRUE, due |-> {}, row |-> NoRow]
  BY <1>0 DEF ClaimLease, Typed
<1>2. tx'[p].events = {} /\ DOMAIN tx'[p].levels = {} /\ tx'[p] = NoWrites
  BY <1>0, <1>1 DEF RunInv, OpenInBatch, Idle, NoWrites
<1>3. /\ run'[p].pc = "scan" /\ run'[p].began = now /\ run'[p].due = {} /\ run'[p].row = NoRow
      /\ run'[p].cursor = <<Never, Never>> /\ now <= now'
  BY <1>0, <1>1, TimesAreNotNever DEF Typed
<1>4. NothingLost(p)'
  <2> SUFFICES ASSUME NEW i \in Incidents, NEW l \in Levels, DueBy(now, i, l)
               PROVE  Accounted(p, i, l)'
    BY <1>1, <1>3 DEF NothingLost, DueBy, OnClock
  <2>1. incident[i].since \in Time
    BY <1>0 DEF DueBy, OnClock, Typed, Row
  <2>2. incident[i].since > Never
    <3>1. incident[i].since \in Nat
      BY <2>1, TimesAreNotNever
    <3> QED
      BY <3>1 DEF Never
  <2>3. After(Position(i)', run'[p].cursor)
    BY <1>1, <1>3, <2>2 DEF After, Position
  <2> QED
    BY <1>3, <2>3 DEF Accounted
<1> QED
  BY <1>2, <1>3, <1>4 DEF RunInv, DueIsSound, RowIsSound, OpenInBatch, WritesAreSound, OneReading

\* What the scan does not put on the list is not due, or still ahead of the cursor.
LEMMA ReadKeeps ==
  ASSUME IInv, NEW p \in Runs, ReadBatch(p)
  PROVE  RunInv(p)'
<1> DEFINE cursor == run[p].cursor
<1>0. Typed /\ Clocks /\ RunInv(p)
  BY DEF IInv
<1>1. /\ run[p].pc = "scan" /\ run[p] \in Memory /\ run[p] # Idle
      /\ run'[p].pc = (IF DueFrom(cursor) = {} THEN "next" ELSE "select") /\ run'[p].row = run[p].row
      /\ run'[p].due = DueFrom(cursor)
      /\ run'[p].more = (Cardinality(Batch(cursor)) = BATCH_SIZE)
      /\ run'[p].began = run[p].began /\ run'[p].touched = run[p].touched
      /\ Batch(cursor) # {} =>
           \E last : IsLast(last, Batch(cursor)) /\ run'[p].cursor = Position(last)
      /\ UNCHANGED <<now, incident, held, lease, tx, fired, faults>>
  BY <1>0, ReadBatchEffect DEF Idle
<1>2. tx'[p] = NoWrites /\ tx'[p].events = {} /\ DOMAIN tx'[p].levels = {} /\ run[p].due = {}
  BY <1>0, <1>1 DEF RunInv, OpenInBatch, NoWrites
<1>3. DueIsSound(p)'
  <2>1. run'[p].began <= now'
    BY <1>0, <1>1 DEF RunInv, DueIsSound
  <2>2. ASSUME NEW d \in DueFrom(cursor)
        PROVE  \E i \in Incidents : \E l : d = DueItem(i, l)
    BY <1>0, BatchRows DEF DueFrom
  <2>3. ASSUME NEW d \in DueFrom(cursor) PROVE Fits(d, incident[d.on])
    <3>1. PICK i \in Incidents : \E l : d = DueItem(i, l)
      BY <2>2
    <3>2. d.on = i /\ d.cycle = incident[i].cycle /\ d.since = incident[i].since
          /\ d.severity = incident[i].severity
      BY <3>1 DEF DueItem
    <3> QED
      BY <1>0, <3>2, RowFacts DEF Fits
  <2>4. OneReading(DueFrom(cursor))
    BY <2>2 DEF OneReading, DueItem
  <2> QED
    BY <1>1, <2>1, <2>3, <2>4 DEF DueIsSound, OneReading
<1>4. OpenInBatch(p)'
  BY <1>1, <1>2 DEF OpenInBatch
<1>5. WritesAreSound(p)'
  BY <1>2 DEF WritesAreSound
<1>6. NothingLost(p)'
  <2> SUFFICES ASSUME NEW i \in Incidents \ run[p].touched, NEW l \in Levels,
                      DueBy(run[p].began, i, l), ~Reached(i, l)
               PROVE  Accounted(p, i, l)'
    BY <1>1 DEF NothingLost, DueBy, OnClock, Accounted, Reached
  <2>1. Accounted(p, i, l)
    BY <1>0, <1>1 DEF RunInv, NothingLost
  <2>2. After(Position(i), cursor)
    BY <1>1, <1>2, <2>1 DEF Accounted
  <2>3. i \in Candidates(cursor)
    BY <1>0, <2>2 DEF Candidates, DueBy, OnClock, Clocks, ClockIsBand
  <2>4. CASE i \in Batch(cursor)
    <3>1. /\ incident[i].level \in Nat /\ l \in Nat /\ incident[i].since \in Nat
          /\ now \in Nat /\ run[p].began \in Nat /\ run[p].began <= now
      <4>1. incident[i].since \in Time
        BY <1>0, <2>3, BatchRows
      <4> QED
        BY <1>0, <1>1, <4>1, RowFacts, LevelsAreNaturals, TimesAreNotNever
           DEF RunInv, DueIsSound, Memory, Typed
    <3>2. Threshold[incident[i].severity][l] \in Nat
      BY <2>3, TiersAssumption, BandRanks, RowFacts, <1>0 DEF DueBy, Candidates
    <3>3. l \in TiersDueFor(incident[i])
      BY <3>1, <3>2 DEF DueBy, Reached, TiersDueFor
    <3>4. DueItem(i, l) \in run'[p].due
      BY <1>1, <2>4, <3>3 DEF DueFrom
    <3> QED
      BY <1>1, <3>4 DEF Accounted, DueItem
  <2>5. CASE i \notin Batch(cursor)
    <3>1. /\ Cardinality(Batch(cursor)) = BATCH_SIZE
          /\ \A j \in Batch(cursor) : After(Position(i), Position(j))
      BY <1>0, <2>3, <2>5, BatchLeavesLater
    <3>2. Batch(cursor) # {}
      BY <3>1, BoundsAssumption, FS_EmptySet
    <3>3. run'[p].more /\ After(Position(i)', run'[p].cursor)
      BY <1>1, <3>1, <3>2 DEF IsLast, Position
    <3> QED
      BY <3>3 DEF Accounted
  <2> QED
    BY <2>4, <2>5
<1>7. RowIsSound(p)'
  BY <1>0, <1>1 DEF RunInv, RowIsSound
<1> QED
  BY <1>3, <1>4, <1>5, <1>6, <1>7 DEF RunInv

\* The next due item is one: IsNext orders the items of one reading.
LEMMA NextIsOne ==
  ASSUME Typed, NEW p \in Runs, run[p] \in Memory, OneReading(run[p].due),
         NEW d \in run[p].due, NEW e \in run[p].due,
         IsNext(d, run[p].due), IsNext(e, run[p].due)
  PROVE  d = e
<1>1. /\ d.on \in Int /\ e.on \in Int /\ d.since \in Int /\ e.since \in Int
      /\ d.level \in Int /\ e.level \in Int
  <2>1. /\ d.on \in Incidents /\ e.on \in Incidents /\ d.since \in Time /\ e.since \in Time
        /\ d.level \in Levels /\ e.level \in Levels
    BY DueItemFacts
  <2>2. Incidents \subseteq Int /\ Time \subseteq Int /\ Levels \subseteq Int
    BY IncidentsAssumption, TimesAreNotNever, LevelsAreNaturals
  <2> QED
    BY <2>1, <2>2
<1>2. d.on = e.on => d.since = e.since
  BY DEF OneReading
<1>3. SUFFICES ASSUME d # e PROVE FALSE
  OBVIOUS
<1>4. /\ After(<<e.since, e.on>>, <<d.since, d.on>>) \/ (e.on = d.on /\ e.level > d.level)
      /\ After(<<d.since, d.on>>, <<e.since, e.on>>) \/ (d.on = e.on /\ d.level > e.level)
  BY <1>3 DEF IsNext
<1> QED
  BY <1>1, <1>2, <1>4 DEF After

\* An item is selected from a row that fits it, or leaves the list because its level
\* is reached.
LEMMA SelectKeeps ==
  ASSUME IInv, NEW p \in Runs, SelectRow(p)
  PROVE  RunInv(p)'
<1>0. Typed /\ Clocks /\ RunInv(p)
  BY DEF IInv
<1>1. /\ run[p].pc = "select" /\ run[p] \in Memory /\ run[p] # Idle
      /\ UNCHANGED <<now, incident, held, lease, tx, fired, faults>>
  BY <1>0, SelectEffect DEF Idle
<1>2. PICK d \in run[p].due : IsNext(d, run[p].due) /\ (Selects(p, d) \/ Passes(p, d))
  BY <1>0, SelectEffect
<1>3. /\ d.on \in Incidents /\ d.level \in Levels /\ d.level \in Nat
      /\ incident[d.on] \in Row
  BY <1>0, <1>1, DueItemFacts, LevelsAreNaturals DEF Typed
<1>4. CASE Selects(p, d)
  <2>1. run'[p] = [run[p] EXCEPT !.pc = "insert", !.row = incident[d.on]]
    BY <1>0, <1>4 DEF Selects, Typed
  <2>2. /\ run'[p].pc = "insert" /\ run'[p].due = run[p].due /\ run'[p].began = run[p].began
        /\ run'[p].more = run[p].more /\ run'[p].cursor = run[p].cursor
        /\ run'[p].touched = run[p].touched /\ run'[p].row = incident[d.on]
    BY <1>1, <2>1 DEF Memory
  <2>3. DueIsSound(p)'
    BY <1>0, <1>1, <2>2 DEF RunInv, DueIsSound, OneReading, Fits
  <2>4. OpenInBatch(p)'
    BY <2>2 DEF OpenInBatch
  <2>5. WritesAreSound(p)'
    BY <1>0, <1>1 DEF RunInv, WritesAreSound
  <2>6. NothingLost(p)'
    <3> SUFFICES ASSUME NEW i \in Incidents \ run[p].touched, NEW l \in Levels,
                        DueBy(run[p].began, i, l)
                 PROVE  Accounted(p, i, l)'
      BY <1>1, <2>2 DEF NothingLost, DueBy, OnClock
    <3>1. Accounted(p, i, l)
      BY <1>0, <1>1 DEF RunInv, NothingLost
    <3> QED
      BY <1>1, <2>2, <3>1 DEF Accounted, Reached, Position, DueItem
  <2>7. RowIsSound(p)'
    <3>1. incident[d.on] # NoRow
      BY <1>3 DEF Row, NoRow, Severities
    <3>2. ASSUME NEW e \in run[p].due, IsNext(e, run[p].due) PROVE OnClockOf(e, incident[d.on])
      <4>1. e = d
        BY <1>0, <1>1, <1>2, <3>2, NextIsOne DEF RunInv, DueIsSound
      <4>2. incident[d.on].cycle = d.cycle /\ InHighBand(incident[d.on].severity)
        BY <1>4 DEF Selects, StillCandidate
      <4>3. Fits(d, incident[d.on])
        BY <1>0, <1>1 DEF RunInv, DueIsSound
      <4> QED
        BY <4>1, <4>2, <4>3 DEF Fits, OnClockOf
    <3> QED
      BY <2>2, <3>1, <3>2 DEF RowIsSound, IsNext
  <2> QED
    BY <2>3, <2>4, <2>5, <2>6, <2>7 DEF RunInv
<1>5. CASE Passes(p, d)
  <2>1. run'[p] = [run[p] EXCEPT !.due = @ \ {d}]
    BY <1>0, <1>5 DEF Passes, Typed
  <2>2. /\ run'[p].pc = "select" /\ run'[p].due = run[p].due \ {d} /\ run'[p].began = run[p].began
        /\ run'[p].more = run[p].more /\ run'[p].cursor = run[p].cursor
        /\ run'[p].touched = run[p].touched /\ run'[p].row = run[p].row
    BY <1>1, <2>1 DEF Memory
  <2>3. DueIsSound(p)'
    BY <1>0, <1>1, <2>2 DEF RunInv, DueIsSound, OneReading, Fits
  <2>4. OpenInBatch(p)' /\ RowIsSound(p)'
    BY <1>0, <1>1, <2>2 DEF OpenInBatch, RunInv, RowIsSound
  <2>5. WritesAreSound(p)'
    BY <1>0, <1>1 DEF RunInv, WritesAreSound
  <2>6. NothingLost(p)'
    <3> SUFFICES ASSUME NEW i \in Incidents \ run[p].touched, NEW l \in Levels,
                        DueBy(run[p].began, i, l)
                 PROVE  Accounted(p, i, l)'
      BY <1>1, <2>2 DEF NothingLost, DueBy, OnClock
    <3>1. Accounted(p, i, l)
      BY <1>0, <1>1 DEF RunInv, NothingLost
    <3>2. CASE DueItem(i, l) = d
      <4>1. d.on = i /\ d.level = l /\ d.cycle = incident[i].cycle
        BY <3>2 DEF DueItem
      <4>2. ~(LevelSeen(p, i) < l)
        BY <1>0, <1>5, <4>1 DEF Passes, StillCandidate, DueBy, OnClock, Clocks, ClockIsBand
      <4>3. LevelSeen(p, i) >= l
        BY <1>0, <4>2, LevelTypes, LevelsAreNaturals
      <4> QED
        BY <1>1, <4>3 DEF LevelSeen, Accounted, Reached
    <3>3. CASE DueItem(i, l) # d
      BY <1>1, <2>2, <3>1, <3>3 DEF Accounted, Reached, Position, DueItem
    <3> QED
      BY <3>2, <3>3
  <2> QED
    BY <2>3, <2>4, <2>5, <2>6 DEF RunInv
<1> QED
  BY <1>2, <1>4, <1>5

\* An item leaves the list with its event written, or because another has its key.
LEMMA InsertKeeps ==
  ASSUME IInv, NEW p \in Runs, InsertEvent(p)
  PROVE  RunInv(p)'
<1>0. Typed /\ Clocks /\ RunInv(p)
  BY DEF IInv
<1>1. /\ run[p].pc = "insert" /\ run[p] \in Memory /\ run[p] # Idle
      /\ UNCHANGED <<now, incident, held, lease, fired, faults>>
  BY <1>0, InsertEffect DEF Idle
<1>2. PICK d \in run[p].due : IsNext(d, run[p].due) /\ (Inserts(p, d) \/ Skips(p, d))
  BY <1>0, InsertEffect
<1>3. /\ d.on \in Incidents /\ d.level \in Levels /\ d.level \in Nat /\ Key(d) \in Keys
      /\ Key(d)[1] = d.on /\ Key(d)[2] = d.cycle
  BY <1>0, <1>1, DueItemFacts, LevelsAreNaturals
<1>4. CASE Inserts(p, d)
  <2>1. /\ tx'[p].events = tx[p].events \union {Key(d)} /\ tx'[p].levels = tx[p].levels
        /\ run'[p] = [run[p] EXCEPT !.pc = "bump", !.row = NoRow]
    BY <1>0, <1>4 DEF Inserts, Typed
  <2>2. /\ run'[p].pc = "bump" /\ run'[p].due = run[p].due /\ run'[p].began = run[p].began
        /\ run'[p].more = run[p].more /\ run'[p].cursor = run[p].cursor
        /\ run'[p].touched = run[p].touched /\ run'[p].row = NoRow
    BY <1>1, <2>1 DEF Memory
  <2>3. DueIsSound(p)'
    BY <1>0, <1>1, <2>2 DEF RunInv, DueIsSound, OneReading, Fits
  <2>4. OpenInBatch(p)' /\ RowIsSound(p)'
    <3>1. ASSUME NEW e \in run[p].due, IsNext(e, run[p].due) PROVE Key(e) \in tx'[p].events
      <4>1. e = d
        BY <1>0, <1>1, <1>2, <3>1, NextIsOne DEF RunInv, DueIsSound
      <4> QED
        BY <2>1, <4>1
    <3> QED
      BY <2>2, <3>1 DEF OpenInBatch, RowIsSound, IsNext
  <2>5. WritesAreSound(p)'
    <3>1. Key(d)[2] <= incident[Key(d)[1]].cycle
      BY <1>0, <1>1, <1>3 DEF RunInv, DueIsSound, Fits
    <3> QED
      BY <1>0, <1>1, <2>1, <3>1 DEF RunInv, WritesAreSound
  <2>6. NothingLost(p)'
    <3> SUFFICES ASSUME NEW i \in Incidents \ run[p].touched, NEW l \in Levels,
                        DueBy(run[p].began, i, l)
                 PROVE  Accounted(p, i, l)'
      BY <1>1, <2>2 DEF NothingLost, DueBy, OnClock
    <3>1. Accounted(p, i, l)
      BY <1>0, <1>1 DEF RunInv, NothingLost
    <3> QED
      BY <1>1, <2>1, <2>2, <3>1 DEF Accounted, Reached, Position, DueItem
  <2> QED
    BY <2>3, <2>4, <2>5, <2>6 DEF RunInv
<1>5. CASE Skips(p, d)
  <2>1. tx' = tx /\ run'[p] = [run[p] EXCEPT !.pc = "select", !.row = NoRow, !.due = @ \ {d}]
    BY <1>0, <1>5 DEF Skips, Typed
  <2>2. /\ run'[p].pc = "select" /\ run'[p].due = run[p].due \ {d} /\ run'[p].began = run[p].began
        /\ run'[p].more = run[p].more /\ run'[p].cursor = run[p].cursor
        /\ run'[p].touched = run[p].touched /\ run'[p].row = NoRow
    BY <1>1, <2>1 DEF Memory
  <2>3. DueIsSound(p)'
    BY <1>0, <1>1, <2>2 DEF RunInv, DueIsSound, OneReading, Fits
  <2>4. OpenInBatch(p)' /\ RowIsSound(p)'
    BY <2>2 DEF OpenInBatch, RowIsSound
  <2>5. WritesAreSound(p)'
    BY <1>0, <1>1, <2>1 DEF RunInv, WritesAreSound
  <2>6. NothingLost(p)'
    <3> SUFFICES ASSUME NEW i \in Incidents \ run[p].touched, NEW l \in Levels,
                        DueBy(run[p].began, i, l)
                 PROVE  Accounted(p, i, l)'
      BY <1>1, <2>2 DEF NothingLost, DueBy, OnClock
    <3>1. Accounted(p, i, l)
      BY <1>0, <1>1 DEF RunInv, NothingLost
    <3>2. CASE DueItem(i, l) = d
      <4>1. Key(d) = <<i, incident[i].cycle, l>>
        BY <3>2 DEF DueItem, Key
      <4> QED
        BY <1>1, <1>5, <2>1, <4>1 DEF Skips, Conflicts, Accounted, Reached
    <3>3. CASE DueItem(i, l) # d
      BY <1>1, <2>1, <2>2, <3>1, <3>3 DEF Accounted, Reached, Position, DueItem
    <3> QED
      BY <3>2, <3>3
  <2> QED
    BY <2>3, <2>4, <2>5, <2>6 DEF RunInv
<1> QED
  BY <1>2, <1>4, <1>5

\* An item leaves the list with its event in the transaction, and its level raised.
LEMMA BumpKeeps ==
  ASSUME IInv, NEW p \in Runs, BumpLevel(p)
  PROVE  RunInv(p)'
<1>0. Typed /\ Clocks /\ RunInv(p)
  BY DEF IInv
<1>1. /\ run[p].pc = "bump" /\ run[p] \in Memory /\ run[p] # Idle
      /\ UNCHANGED <<now, incident, held, lease, fired, faults>>
  <2>1. run[p].pc = "bump" /\ run[p] \in Memory /\ UNCHANGED <<now, incident, held, lease, fired, faults>>
    BY <1>0, BumpEffect
  <2> QED
    BY <1>0, <2>1, RunShape
<1>2. PICK d \in run[p].due :
        /\ IsNext(d, run[p].due)
        /\ tx' = [tx EXCEPT ![p] = [events |-> tx[p].events, levels |-> RaisedLevels(p, d)]]
        /\ run' = [run EXCEPT ![p] = [run[p] EXCEPT !.pc = "select", !.due = @ \ {d}]]
  BY <1>0, BumpEffect
<1>3. /\ d.on \in Incidents /\ d.level \in Levels /\ d.level \in Nat /\ d.cycle \in 0..MaxCycle
      /\ Key(d) = <<d.on, d.cycle, d.level>> /\ Key(d) \in tx[p].events
  BY <1>0, <1>1, <1>2, DueItemFacts, LevelsAreNaturals DEF RunInv, OpenInBatch, Key
<1>4. tx'[p].events = tx[p].events /\ tx'[p].levels = RaisedLevels(p, d)
  BY <1>0, <1>2 DEF Typed
<1>5. /\ run'[p].pc = "select" /\ run'[p].due = run[p].due \ {d} /\ run'[p].began = run[p].began
      /\ run'[p].more = run[p].more /\ run'[p].cursor = run[p].cursor
      /\ run'[p].touched = run[p].touched /\ run'[p].row = run[p].row
  <2>1. run'[p] = [run[p] EXCEPT !.pc = "select", !.due = @ \ {d}]
    BY <1>0, <1>2 DEF Typed
  <2> QED
    BY <1>1, <2>1 DEF Memory
<1>6. DueIsSound(p)'
  BY <1>0, <1>1, <1>5 DEF RunInv, DueIsSound, OneReading, Fits
<1>7. OpenInBatch(p)'
  BY <1>5 DEF OpenInBatch
<1>8. ASSUME NEW i \in DOMAIN tx'[p].levels
      PROVE  \/ i = d.on /\ LevelSeen(p, i) < d.level /\ tx'[p].levels[i] = d.level
             \/ i \in DOMAIN tx[p].levels /\ tx'[p].levels[i] = tx[p].levels[i]
  BY <1>4 DEF RaisedLevels
<1>9. ASSUME NEW i \in DOMAIN tx[p].levels
      PROVE  i \in DOMAIN tx'[p].levels /\ tx'[p].levels[i] >= tx[p].levels[i]
  <2>1. tx[p].levels[i] \in Nat
    BY <1>0, LevelTypes, LevelsAreNaturals
  <2> QED
    BY <1>3, <1>4, <2>1 DEF RaisedLevels, LevelSeen
<1>10. WritesAreSound(p)'
  <2>1. ASSUME NEW i \in DOMAIN tx'[p].levels
        PROVE  /\ tx'[p].levels[i] > incident[i].level
               /\ \E c \in 0..MaxCycle : <<i, c, tx'[p].levels[i]>> \in tx[p].events
    <3>1. CASE i \in DOMAIN tx[p].levels /\ tx'[p].levels[i] = tx[p].levels[i]
      BY <1>0, <3>1 DEF RunInv, WritesAreSound
    <3>2. CASE i = d.on /\ LevelSeen(p, i) < d.level /\ tx'[p].levels[i] = d.level
      <4>1. incident[i].level <= LevelSeen(p, i) /\ incident[i].level \in Nat /\ LevelSeen(p, i) \in Nat
        BY <1>0, <1>3, <3>2, RowFacts, LevelTypes DEF RunInv, WritesAreSound, LevelSeen
      <4> QED
        BY <1>3, <3>2, <4>1
    <3> QED
      BY <1>8, <3>1, <3>2
  <2> QED
    BY <1>0, <1>1, <1>4, <2>1 DEF RunInv, WritesAreSound
<1>11. NothingLost(p)'
  <2> SUFFICES ASSUME NEW i \in Incidents \ run[p].touched, NEW l \in Levels,
                      DueBy(run[p].began, i, l)
               PROVE  Accounted(p, i, l)'
    BY <1>1, <1>5 DEF NothingLost, DueBy, OnClock
  <2>1. Accounted(p, i, l)
    BY <1>0, <1>1 DEF RunInv, NothingLost
  <2>2. CASE DueItem(i, l) = d
    <3>1. Key(d) = <<i, incident[i].cycle, l>>
      BY <2>2 DEF DueItem, Key
    <3> QED
      BY <1>1, <1>3, <1>4, <3>1 DEF Accounted
  <2>3. CASE i \in DOMAIN tx[p].levels /\ tx[p].levels[i] >= l
    <3>1. tx[p].levels[i] \in Nat /\ tx'[p].levels[i] \in Nat /\ l \in Nat
      BY <1>0, <1>3, <1>8, <1>9, <2>3, LevelTypes, LevelsAreNaturals
    <3> QED
      BY <1>9, <2>3, <3>1 DEF Accounted
  <2>4. CASE DueItem(i, l) # d /\ ~(i \in DOMAIN tx[p].levels /\ tx[p].levels[i] >= l)
    BY <1>1, <1>4, <1>5, <2>1, <2>4 DEF Accounted, Reached, Position, DueItem
  <2> QED
    BY <2>2, <2>3, <2>4
<1>12. RowIsSound(p)'
  BY <1>0, <1>1, <1>5 DEF RunInv, RowIsSound
<1> QED
  BY <1>6, <1>7, <1>10, <1>11, <1>12 DEF RunInv

\* What the transaction had reached is reached for everybody when it commits.
LEMMA CommitKeeps ==
  ASSUME IInv, Typed', NEW p \in Runs, CommitBatch(p)
  PROVE  RunInv(p)'
<1>0. Typed /\ Clocks /\ RunInv(p)
  BY DEF IInv
<1>1. /\ run[p].pc = "select" /\ run[p].due = {} /\ run[p] \in Memory /\ run[p] # Idle
      /\ incident' = [i \in Incidents |-> [incident[i] EXCEPT !.level = LevelSeen(p, i)]]
      /\ fired' = [k \in Keys |-> IF k \in tx[p].events THEN fired[k] + 1 ELSE fired[k]]
      /\ tx' = [tx EXCEPT ![p] = NoWrites]
      /\ run' = [run EXCEPT ![p] = [run[p] EXCEPT !.pc = "next"]]
      /\ UNCHANGED <<now, held, lease, faults>>
  BY <1>0, CommitEffect DEF Idle
<1>2. /\ run'[p].pc = "next" /\ run'[p].due = {} /\ run'[p].began = run[p].began
      /\ run'[p].more = run[p].more /\ run'[p].cursor = run[p].cursor
      /\ run'[p].touched = run[p].touched /\ run'[p].row = run[p].row
  <2>1. run'[p] = [run[p] EXCEPT !.pc = "next"]
    BY <1>0, <1>1 DEF Typed
  <2> QED
    BY <1>1, <2>1 DEF Memory
<1>3. tx'[p] = NoWrites /\ tx'[p].events = {} /\ DOMAIN tx'[p].levels = {}
  BY <1>0, <1>1 DEF Typed, NoWrites
<1>4. WorldMoves /\ \A i \in Incidents : OnlyRaised(incident[i], incident'[i])
  BY CommitWorld
<1>5. \A i \in Incidents : incident'[i].level = LevelSeen(p, i)
  BY <1>0, <1>1 DEF Typed, Row
<1>6. \A k \in tx[p].events : fired'[k] > 0
  BY <1>0, <1>1, LevelTypes DEF Typed
<1>7. NothingLost(p)'
  <2> SUFFICES ASSUME NEW i \in Incidents \ run[p].touched, NEW l \in Levels,
                      DueBy(run[p].began, i, l)'
               PROVE  Accounted(p, i, l)'
    BY <1>2 DEF NothingLost
  <2>0. OnlyRaised(incident[i], incident'[i])
    BY <1>4
  <2>1. Accounted(p, i, l)
    <3>1. DueBy(run[p].began, i, l)
      BY <1>2, <2>0 DEF DueBy, OnClock, OnlyRaised
    <3> QED
      BY <1>0, <1>1, <3>1 DEF RunInv, NothingLost
  <2>2. /\ incident[i].level \in Nat /\ incident'[i].level \in Nat /\ l \in Nat
        /\ <<i, incident[i].cycle, l>> \in Keys
    BY <1>0, LevelsAreNaturals DEF Typed, Row, Keys
  <2>3. CASE Reached(i, l)
    <3>1. fired[<<i, incident[i].cycle, l>>] > 0 => fired'[<<i, incident[i].cycle, l>>] > 0
      BY <1>0, <1>4, <2>2 DEF Typed, WorldMoves
    <3> QED
      BY <2>0, <2>2, <2>3, <3>1 DEF Accounted, Reached, OnlyRaised
  <2>4. CASE <<i, incident[i].cycle, l>> \in tx[p].events
    BY <1>6, <2>0, <2>4 DEF Accounted, Reached, OnlyRaised
  <2>5. CASE i \in DOMAIN tx[p].levels /\ tx[p].levels[i] >= l
    BY <1>5, <2>5 DEF LevelSeen, Accounted, Reached
  <2>6. CASE run[p].more /\ After(Position(i), run[p].cursor)
    BY <1>2, <2>0, <2>6 DEF Accounted, Position, OnlyRaised
  <2> QED
    BY <1>1, <2>1, <2>3, <2>4, <2>5, <2>6 DEF Accounted
<1>8. DueIsSound(p)'
  BY <1>0, <1>1, <1>2 DEF RunInv, DueIsSound, OneReading
<1>9. RowIsSound(p)'
  BY <1>0, <1>1, <1>2 DEF RunInv, RowIsSound
<1> QED
  BY <1>2, <1>3, <1>7, <1>8, <1>9 DEF RunInv, OpenInBatch, WritesAreSound

\* After a full batch the rest of the incidents are ahead of the cursor.
LEMMA NextKeeps ==
  ASSUME IInv, NEW p \in Runs, NextBatch(p)
  PROVE  RunInv(p)'
<1>0. Typed /\ Clocks /\ RunInv(p)
  BY DEF IInv
<1>1. /\ run[p].pc = "next" /\ run[p].more /\ run[p] \in Memory /\ run[p] # Idle
      /\ run' = [run EXCEPT ![p] = [run[p] EXCEPT !.pc = "scan", !.due = {}]]
      /\ UNCHANGED <<now, incident, held, tx, fired, faults>>
  <2>1. run[p].pc = "next" /\ run[p] \in Memory
    BY <1>0, NextBatchEffect
  <2>2. run[p] # Idle
    BY <1>0, <2>1, RunShape
  <2> QED
    BY <1>0, <2>1, <2>2, NextBatchEffect
<1>2. /\ run'[p].pc = "scan" /\ run'[p].due = {} /\ run'[p].began = run[p].began
      /\ run'[p].more = run[p].more /\ run'[p].cursor = run[p].cursor
      /\ run'[p].touched = run[p].touched /\ run'[p].row = run[p].row
  <2>1. run'[p] = [run[p] EXCEPT !.pc = "scan", !.due = {}]
    BY <1>0, <1>1 DEF Typed
  <2>2. run[p] \in Memory
    BY <1>1
  <2> QED
    BY <2>1, <2>2 DEF Memory
<1>3. tx[p] = NoWrites /\ run[p].due = {}
  BY <1>0, <1>1 DEF RunInv, OpenInBatch
<1>4. DueIsSound(p)'
  BY <1>0, <1>1, <1>2 DEF RunInv, DueIsSound, OneReading
<1>5. NothingLost(p)'
  <2> SUFFICES ASSUME NEW i \in Incidents \ run[p].touched, NEW l \in Levels,
                      DueBy(run[p].began, i, l)
               PROVE  Accounted(p, i, l)'
    BY <1>1, <1>2 DEF NothingLost, DueBy, OnClock
  <2>1. Accounted(p, i, l)
    BY <1>0, <1>1 DEF RunInv, NothingLost
  <2> QED
    BY <1>1, <1>2, <1>3, <2>1 DEF Accounted, Reached, Position, DueItem
<1>6. RowIsSound(p)'
  BY <1>0, <1>1, <1>2 DEF RunInv, RowIsSound
<1> QED
  BY <1>0, <1>1, <1>2, <1>3, <1>4, <1>5, <1>6 DEF RunInv, OpenInBatch, WritesAreSound

-------------------------------------------------------------------------------
(* The invariant, and what follows from it.                                 *)

\* The initial states satisfy the invariant.
LEMMA InvariantInit == Init => IInv
<1> SUFFICES ASSUME Init PROVE IInv
  OBVIOUS
<1>1. Typed /\ Clocks
  BY TypedInit
<1>2. /\ \A i \in Incidents : held[i] = NoChange
      /\ \A p \in Runs : run[p] = Idle /\ tx[p] = NoWrites
  BY DEF Init
<1>3. \A i \in Incidents : incident[i].level = 0
  BY DEF Init, NewIncident
<1>4. LevelsFired
  BY <1>2, <1>3 DEF LevelsFired
<1>5. \A p \in Runs : run[p].pc = "idle" /\ tx[p].events = {} /\ DOMAIN tx[p].levels = {}
  BY <1>2 DEF Idle, NoWrites
<1>6. RowLocks
  BY <1>5 DEF RowLocks
<1>7. \A p \in Runs : RunInv(p)
  BY <1>2, <1>5 DEF RunInv, DueIsSound, RowIsSound, OpenInBatch, WritesAreSound, NothingLost
<1> QED
  BY <1>1, <1>4, <1>6, <1>7 DEF IInv

\* A step of run p keeps p's own part of the invariant.
LEMMA OwnStep ==
  ASSUME IInv, Typed', NEW p \in Runs,
         \/ ClaimLease(p) \/ ReadBatch(p) \/ SelectRow(p) \/ InsertEvent(p) \/ BumpLevel(p)
         \/ CommitBatch(p) \/ NextBatch(p) \/ Complete(p) \/ FailRun(p)
  PROVE  RunInv(p)'
<1>0. Typed /\ RunInv(p)
  BY DEF IInv
<1>1. CASE Complete(p)
  <2>1. run'[p] = Idle /\ tx'[p] = tx[p] /\ run[p].pc = "next"
    BY <1>0, <1>1 DEF Complete, Typed
  <2>2. tx'[p] = NoWrites
    BY <1>0, <2>1 DEF RunInv, OpenInBatch
  <2> QED
    BY <2>1, <2>2, AtRest
<1>2. CASE FailRun(p)
  <2>1. run'[p] = Idle /\ tx'[p] = NoWrites
    BY <1>0, <1>2 DEF FailRun, Typed
  <2> QED
    BY <2>1, AtRest
<1> QED
  BY <1>1, <1>2, ClaimKeeps, ReadKeeps, SelectKeeps, InsertKeeps, BumpKeeps, CommitKeeps, NextKeeps

\* Every step keeps the invariant.
LEMMA InvariantStep == IInv /\ [Next]_vars => IInv'
<1> SUFFICES ASSUME IInv, [Next]_vars PROVE IInv'
  OBVIOUS
<1>0. Typed /\ Clocks /\ LevelsFired /\ RowLocks /\ \A p \in Runs : RunInv(p)
  BY DEF IInv
<1>1. Typed' /\ Clocks'
  BY <1>0, TypedStep
<1>2. ASSUME WorldMoves, NEW p \in Runs, StandsStill(p) PROVE RunInv(p)'
  BY <1>0, <1>1, <1>2, StandingRun
<1>3. CASE UNCHANGED <<incident, held, run, tx, fired>> /\ now <= now'
  <2>1. WorldMoves /\ \A p \in Runs : StandsStill(p)
    BY <1>0, <1>3, NothingWritten
  <2>2. RowLocks' /\ LevelsFired'
    BY <1>0, <1>3 DEF RowLocks, LevelsFired
  <2> QED
    BY <1>1, <1>2, <2>1, <2>2 DEF IInv
<1>4. CASE UNCHANGED vars
  <2>1. now <= now'
    BY <1>0, <1>4, TimesAreNotNever DEF Typed, vars
  <2> QED
    BY <1>3, <1>4, <2>1 DEF vars
<1>5. CASE Tick
  <2>1. now <= now'
    BY <1>0, <1>5, TimesAreNotNever DEF Typed, Tick
  <2> QED
    BY <1>3, <1>5, <2>1 DEF Tick
<1>6. ASSUME NEW i \in Incidents,
             \/ Acknowledge(i) \/ Close(i) \/ ReadSeverity(i) \/ CommitSeverity(i)
             \/ DropSeverity(i)
      PROVE  IInv'
  BY <1>1, <1>2, <1>6, PeopleStep DEF IInv
<1>7. ASSUME NEW p \in Runs,
             \/ ClaimLease(p) \/ ReadBatch(p) \/ SelectRow(p) \/ InsertEvent(p) \/ BumpLevel(p)
             \/ NextBatch(p) \/ Complete(p) \/ FailRun(p)
      PROVE  IInv'
  <2>1. RunInv(p)'
    BY <1>1, <1>7, OwnStep
  <2>2. WorldMoves /\ LevelsFired' /\ \A q \in Runs \ {p} : StandsStill(q)
    BY <1>7, QuietRunStep
  <2>3. RowLocks'
    BY <1>7, QuietRunLocks
  <2>4. \A q \in Runs \ {p} : RunInv(q)'
    BY <1>2, <2>2
  <2> QED
    BY <1>1, <2>1, <2>2, <2>3, <2>4 DEF IInv
<1>8. ASSUME NEW p \in Runs, CommitBatch(p) PROVE IInv'
  <2>1. RunInv(p)'
    BY <1>1, <1>8, OwnStep
  <2>2. WorldMoves /\ RowLocks' /\ LevelsFired' /\ \A q \in Runs \ {p} : StandsStill(q)
    BY <1>1, <1>8, CommitWorld
  <2>3. \A q \in Runs \ {p} : RunInv(q)'
    BY <1>2, <2>2
  <2> QED
    BY <1>1, <2>1, <2>2, <2>3 DEF IInv
<1> QED
  BY <1>4, <1>5, <1>6, <1>7, <1>8 DEF Next

\* The invariant holds in every reachable state, for every value of the constants.
THEOREM Invariance == Spec => []IInv
  BY InvariantInit, InvariantStep, PTL DEF Spec

\* The types of all variables, and the CHECK high_severity_clock: an incident has a
\* clock exactly while it is in the high band.
THEOREM TypeCorrect == Spec => []TypeOK
<1>1. IInv => TypeOK
  <2> SUFFICES ASSUME IInv PROVE TypeOK
    OBVIOUS
  <2>0. Typed /\ Clocks
    BY DEF IInv
  <2>1. incident \in [Incidents -> Clocked]
    <3>1. Row \subseteq Clocked
      BY DEF Row, Clocked
    <3> QED
      BY <2>0, <3>1 DEF Typed
  <2>2. \A i \in Incidents : incident[i].since # Never <=> InHighBand(incident[i].severity)
    BY <2>0 DEF Clocks, ClockIsBand
  <2>3. \A i \in Incidents : held[i] = NoChange \/
          /\ held[i].next \in SeverityInputs
          /\ held[i].clock \in [since : Time \union {Never}, cycle : 0..MaxCycle,
                                level : Levels \union {0}, acked : BOOLEAN]
    BY <2>0 DEF Typed, Change, ClockColumns
  <2>4. \A p \in Runs : run[p] = Idle \/ InMemory(run[p])
    <3> SUFFICES ASSUME NEW p \in Runs, run[p] # Idle PROVE InMemory(run[p])
      OBVIOUS
    <3>1. run[p] \in Memory
      BY <2>0, RunShape
    <3>2. run[p].row = NoRow \/ run[p].row \in Clocked
      BY <3>1 DEF Memory, Row, Clocked
    <3>3. run[p].row # NoRow <=> run[p].pc = "insert"
      BY DEF IInv, RunInv, RowIsSound
    <3>4. run[p].due \subseteq DueItems
      BY <3>1 DEF Memory
    <3> QED
      BY <3>1, <3>2, <3>3, <3>4 DEF Memory, InMemory, DueItems
  <2>5. \A p \in Runs : /\ tx[p].events \subseteq Keys
                        /\ tx[p].levels \in [DOMAIN tx[p].levels -> Levels]
                        /\ DOMAIN tx[p].levels \subseteq Incidents
    BY <2>0, LevelTypes
  <2> QED
    BY <2>0, <2>1, <2>2, <2>3, <2>4, <2>5 DEF Typed, TypeOK
<1> QED
  BY <1>1, Invariance, PTL

\* The counter never shows a level the incident was not escalated to, whatever a
\* severity change writes back and whichever runs raise it meanwhile.
THEOREM LevelsHaveFired == Spec => []LevelHasFired
<1>1. IInv => LevelHasFired
  BY DEF IInv, LevelsFired, FiredBy, LevelHasFired
<1> QED
  BY <1>1, Invariance, PTL

\* An event is written from a row on the clock its deadline was computed from, whose
\* severity its recipients are cleared for; what the incident has become while the
\* INSERT waited is no more severe, unless a new cycle began.
THEOREM EventsFit == Spec => EventFitsIncident
<1>1. ASSUME IInv, [Next]_vars, NEW p \in Runs, run[p] # Idle, NEW d \in run[p].due,
             Key(d) \in tx'[p].events \ tx[p].events
      PROVE  /\ OnClockOf(d, run[p].row)
             /\ incident[d.on].cycle = d.cycle =>
                  SeverityRank(incident[d.on].severity) <= SeverityRank(d.severity)
  <2>0. Typed /\ run[p] \in Memory /\ d \in run[p].due /\ Fits(d, incident[d.on])
    BY <1>1, RunShape DEF IInv, RunInv, DueIsSound
  <2>1. InsertEvent(p)
    <3>1. tx'[p] # tx[p] /\ tx'[p] # NoWrites
      BY <1>1 DEF NoWrites
    <3>2. ~(UNCHANGED vars) /\ ~Tick
      BY <3>1 DEF vars, Tick
    <3>3. \A i \in Incidents : ~(\/ Acknowledge(i) \/ Close(i) \/ ReadSeverity(i)
                                 \/ CommitSeverity(i) \/ DropSeverity(i))
      BY <3>1 DEF Acknowledge, Close, ReadSeverity, CommitSeverity, DropSeverity, Written
    <3>4. PICK q \in Runs : \/ ClaimLease(q) \/ ReadBatch(q) \/ SelectRow(q) \/ InsertEvent(q) \/ BumpLevel(q)
                            \/ CommitBatch(q) \/ NextBatch(q) \/ Complete(q) \/ FailRun(q)
      BY SMTT(60), <1>1, <3>2, <3>3 DEF Next
    <3>5. ~ClaimLease(q) /\ ~ReadBatch(q) /\ ~SelectRow(q) /\ ~NextBatch(q) /\ ~Complete(q)
      BY <3>1 DEF ClaimLease, ReadBatch, SelectRow, NextBatch, Complete
    <3>6. ~CommitBatch(q) /\ ~FailRun(q)
      BY <2>0, <3>1 DEF CommitBatch, FailRun, Typed
    <3>7. ~BumpLevel(q)
      <4> SUFFICES ASSUME BumpLevel(q) PROVE FALSE
        OBVIOUS
      <4>1. PICK e : tx' = [tx EXCEPT ![q] = [events |-> tx[q].events, levels |-> RaisedLevels(q, e)]]
        BY <2>0, BumpEffect
      <4>2. tx'[p].events = tx[p].events
        BY <2>0, <4>1 DEF Typed
      <4> QED
        BY <1>1, <4>2
    <3>8. q = p
      <4> SUFFICES ASSUME q # p PROVE FALSE
        OBVIOUS
      <4>1. tx'[p] = tx[p]
        BY <1>1, <3>4, <3>5, <3>6, <3>7, QuietRunStep
      <4> QED
        BY <3>1, <4>1
    <3> QED
      BY <3>4, <3>5, <3>6, <3>7, <3>8
  <2>2. PICK e \in run[p].due : IsNext(e, run[p].due) /\ (Inserts(p, e) \/ Skips(p, e))
    BY <2>0, <2>1, InsertEffect
  <2>3. Inserts(p, e) /\ Key(d) = Key(e)
    BY <1>1, <2>0, <2>2 DEF Inserts, Skips, Typed
  <2>4. d.on = e.on /\ d.cycle = e.cycle /\ d.level = e.level
    BY <2>3 DEF Key
  <2>5. d.since = e.since
    BY <1>1, <2>4 DEF IInv, RunInv, DueIsSound, OneReading
  <2>6. IsNext(d, run[p].due)
    <3>1. d.severity = e.severity
      BY <1>1, <2>4 DEF IInv, RunInv, DueIsSound, OneReading
    <3>2. d = e
      <4>1. d \in DueItems /\ e \in DueItems
        BY <2>0, DueItemFacts
      <4> QED
        BY <2>4, <2>5, <3>1, <4>1 DEF DueItems
    <3> QED
      BY <2>2, <3>2
  <2>7. OnClockOf(d, run[p].row)
    BY <1>1, <2>1, <2>6 DEF InsertEvent, IInv, RunInv, RowIsSound
  <2>8. incident[d.on].cycle = d.cycle => SeverityRank(incident[d.on].severity) <= SeverityRank(d.severity)
    <3>1. d.severity \in {"HIGH", "CRITICAL"} /\ incident[d.on].severity \in Severities
      BY <2>0, DueItemFacts DEF DueItems, Typed, Row
    <3>2. CASE InHighBand(incident[d.on].severity)
      BY <2>0, <3>2 DEF Fits
    <3>3. CASE ~InHighBand(incident[d.on].severity)
      <4>1. d.severity \in Severities
        BY <3>1 DEF Severities
      <4>2. InHighBand(d.severity)
        BY <3>1, <4>1, BandRanks
      <4>3. SeverityRank(incident[d.on].severity) \in 1..4 /\ SeverityRank(d.severity) \in 1..4
        BY <3>1, <4>1, BandRanks
      <4> QED
        BY <3>3, <4>2, <4>3 DEF InHighBand, HIGH_BAND_RANK
    <3> QED
      BY <3>2, <3>3
  <2> QED
    BY <2>7, <2>8
<1>2. IInv /\ [Next]_vars =>
        \A p \in Runs : run[p] # Idle => \A d \in run[p].due :
          Key(d) \in tx'[p].events \ tx[p].events =>
            /\ OnClockOf(d, run[p].row)
            /\ incident[d.on].cycle = d.cycle =>
                 SeverityRank(incident[d.on].severity) <= SeverityRank(d.severity)
  BY <1>1
<1>3. IInv /\ [Next]_vars =>
        \A p \in Runs : run[p] # Idle => \A d \in run[p].due :
          Key(d) \in tx'[p].events \ tx[p].events =>
            /\ run[p].row.since = d.since
            /\ SeverityRank(run[p].row.severity) <= SeverityRank(d.severity)
            /\ incident[d.on].cycle = d.cycle =>
                 SeverityRank(incident[d.on].severity) <= SeverityRank(d.severity)
  BY <1>2, Zenon DEF OnClockOf
<1> QED
  BY <1>3, Invariance, PTL DEF Spec, EventFitsIncident

\* Nobody but the run that holds the lease gives it up before it has expired.
THEOREM LeaseIsKept == Spec => LeaseOutlastsOthers
<1>1. ASSUME IInv, [Next]_vars, NEW p \in Runs, lease.owner = p, lease'.owner # p
      PROVE  lease.until <= now \/ run'[p] = Idle
  <2>0. Typed
    BY <1>1 DEF IInv
  <2>1. lease' # lease
    BY <1>1
  <2>2. ~(UNCHANGED vars) /\ ~Tick
    BY <2>1 DEF vars, Tick
  <2>3. \A i \in Incidents : ~(\/ Acknowledge(i) \/ Close(i) \/ ReadSeverity(i)
                               \/ CommitSeverity(i) \/ DropSeverity(i))
    BY <2>1 DEF Acknowledge, Close, ReadSeverity, CommitSeverity, DropSeverity, Written
  <2>4. PICK q \in Runs : \/ ClaimLease(q) \/ ReadBatch(q) \/ SelectRow(q) \/ InsertEvent(q) \/ BumpLevel(q)
                          \/ CommitBatch(q) \/ NextBatch(q) \/ Complete(q) \/ FailRun(q)
    BY SMTT(60), <1>1, <2>2, <2>3 DEF Next
  <2>5. ~ReadBatch(q) /\ ~SelectRow(q) /\ ~InsertEvent(q) /\ ~BumpLevel(q) /\ ~CommitBatch(q)
    BY <2>1 DEF ReadBatch, SelectRow, InsertEvent, BumpLevel, CommitBatch
  <2>6. CASE ClaimLease(q)
    BY <2>6 DEF ClaimLease, LeaseFree
  <2>7. CASE NextBatch(q)
    <3>1. lease' = IF lease.owner = q THEN [lease EXCEPT !.until = now + LEASE] ELSE lease
      BY <2>7 DEF NextBatch
    <3>2. lease'.owner = lease.owner
      BY <2>0, <3>1 DEF Typed, Free
    <3> QED
      BY <1>1, <3>2
  <2>8. CASE Complete(q) \/ FailRun(q)
    <3>1. lease.owner = q /\ run' = [run EXCEPT ![q] = Idle]
      BY <2>1, <2>8 DEF Complete, FailRun, Released
    <3> QED
      BY <1>1, <2>0, <3>1 DEF Typed
  <2> QED
    BY <2>4, <2>5, <2>6, <2>7, <2>8
<1>2. IInv /\ [Next]_vars =>
        \A p \in Runs : lease.owner = p /\ lease'.owner # p => lease.until <= now \/ run'[p] = Idle
  BY <1>1
<1> QED
  BY <1>2, Invariance, PTL DEF Spec, LeaseOutlastsOthers

\* However often it is interrupted between its batches, and whatever other runs do, a
\* run that completes has left behind no incident that was due when it began.
THEOREM SweepsAreComplete == Spec => SweepComplete
<1>1. ASSUME IInv, NEW p \in Runs, Complete(p),
             NEW i \in Incidents \ run[p].touched, NEW l \in Levels, DueBy(run[p].began, i, l)
      PROVE  Reached(i, l)
  <2>0. Typed /\ RunInv(p)
    BY <1>1 DEF IInv
  <2>1. run[p].pc = "next" /\ ~run[p].more /\ run[p] # Idle
    BY <1>1, <2>0, RunShape DEF Complete
  <2>2. Accounted(p, i, l)
    BY <1>1, <2>0, <2>1 DEF RunInv, NothingLost
  <2>3. run[p].due = {} /\ tx[p].events = {} /\ DOMAIN tx[p].levels = {}
    BY <2>0, <2>1 DEF RunInv, OpenInBatch, NoWrites
  <2> QED
    BY <2>1, <2>2, <2>3 DEF Accounted
<1>2. IInv =>
        \A p \in Runs : Complete(p) =>
          \A i \in Incidents \ run[p].touched, l \in Levels :
            DueBy(run[p].began, i, l) => Reached(i, l)
  BY <1>1
<1> QED
  BY <1>2, Invariance, PTL DEF SweepComplete
===============================================================================
