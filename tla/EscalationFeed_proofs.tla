------------------------- MODULE EscalationFeed_proofs -------------------------
(***************************************************************************)
(* Theorems of EscalationFeed, for any incidents, page size, tiers and     *)
(* clearances.                                                             *)
(*                                                                         *)
(* The keyset walk is complete because an incident that has stayed on the  *)
(* list, with its clock, without moving up lies past the cursor until it   *)
(* is shown (Owed): the order and the cursor's predicate agree on a row    *)
(* with a clock (CursorFacts), and a failed page leaves the cursor alone;  *)
(* it shows nothing twice because what has been shown and has not moved    *)
(* down does not lie past the cursor (Settled).  Owed leans on two things  *)
(* the policies see to: an incident that rises in severity starts over at  *)
(* level 0, so one that stayed listed is still readable with the clearance *)
(* its page request began with; and events are never deleted, so a row     *)
(* that had its event when the page was read has it when they are joined.  *)
(***************************************************************************)
EXTENDS EscalationFeed, FiniteSetTheorems, TLAPS

OpenState == [on : Incidents, cycle : Nat, level : 1..MaxLevel]

WalkState ==
  [pc : {"page", "join", "between"}, cleared : Clearances, cursor : Cursors,
   rows : SUBSET [at : Positions, cycle : Nat], more : BOOLEAN,
   shown : SUBSET Incidents, ahead : SUBSET Incidents, behind : SUBSET Incidents]

Typed ==
  /\ incident \in [Incidents -> Clocked]
  /\ fired \subseteq Keys
  /\ open \in OpenState \union {NoEscalation}
  /\ clearance \in Clearances
  /\ walk \in WalkState \union {NoWalk}
  /\ moves \in 0..MaxMoves

\* A page is of different incidents, no more than asked for, past the cursor, and is
\* not empty if there is more.
PageFits(w) ==
  /\ Cardinality(w.rows) <= PageSize /\ IsFiniteSet(w.rows)
  /\ \A r, s \in w.rows : r.at[3] = s.at[3] => r = s
  /\ w.pc = "join" => /\ w.more => w.rows # {}
                      /\ \A r \in w.rows : PastCursor(w.cursor, r.at)

\* What a walk owes the reader of an incident that stayed on the list with its clock and
\* did not move up.
Owed(w, i) ==
  /\ Due(i)
  /\ i \in w.shown \/ PastCursor(w.cursor, Position(i))
  /\ w.pc = "page" => CanViewSeverity(w.cleared, incident[i].severity)
  /\ w.pc = "join" =>
       \/ i \in w.shown \union {r.at[3] : r \in {s \in w.rows : <<s.at[3], s.cycle, s.at[1]>> \in fired}}
       \/ w.more /\ \A r \in w.rows : Precedes(r.at, Position(i))

NotAfter(a, b) == a = b \/ Precedes(a, b)

\* Where an incident that did not move down is, when it has been shown or is about to be.
Settled(w) ==
  /\ \A i \in w.shown \ w.behind : w.cursor # NoCursor /\ NotAfter(Position(i), w.cursor)
  /\ w.pc = "join" => \A r \in w.rows : r.at[3] \notin w.behind =>
                      r.at[3] \notin w.shown /\ NotAfter(Position(r.at[3]), r.at)

IInv ==
  /\ Typed
  /\ walk # NoWalk => /\ PageFits(walk) /\ Settled(walk)
                      /\ \A i \in Incidents \ walk.ahead : Owed(walk, i)

-------------------------------------------------------------------------------
(* The order of the feed.                                                   *)

LEMMA PositionParts ==
  ASSUME NEW a \in Positions
  PROVE  /\ a[1] \in Nat /\ a[2] \in Int /\ a[3] \in Nat /\ a[3] \in Incidents
         /\ a = <<a[1], a[2], a[3]>> /\ a # NoCursor
<1>1. a[1] \in 0..MaxLevel /\ a[2] \in (0..MaxTime) \union {Never} /\ a[3] \in Incidents
  BY DEF Positions
<1>2. a = <<a[1], a[2], a[3]>>
  BY DEF Positions
<1>3. a[1] \in Nat /\ a[2] \in Int /\ a[3] \in Nat
  <2>1. a[1] \in Nat
    BY <1>1
  <2>4. a[3] \in Nat
    <3>1. Incidents \subseteq Nat
      BY IncidentsAssumption
    <3> QED
      BY <1>1, <3>1
  <2>2. MaxTime \in Nat /\ Never \in Int
    BY BoundsAssumption DEF Never
  <2> QED
    BY <1>1, <2>1, <2>2, <2>4
<1>4. a # NoCursor
  BY <1>2 DEF NoCursor
<1> QED
  BY <1>1, <1>2, <1>3, <1>4

\* The order is strict and total.
LEMMA OrderFacts ==
  ASSUME NEW a \in Positions, NEW b \in Positions
  PROVE  /\ ~Precedes(a, a) /\ ~(Precedes(a, b) /\ Precedes(b, a))
         /\ a = b \/ Precedes(a, b) \/ Precedes(b, a)
         /\ \A c \in Positions : Precedes(a, b) /\ Precedes(b, c) => Precedes(a, c)
<1>1. a[1] \in Nat /\ a[2] \in Int /\ a[3] \in Nat /\ b[1] \in Nat /\ b[2] \in Int /\ b[3] \in Nat
  BY PositionParts
<1>2. a[1] = b[1] /\ a[2] = b[2] /\ a[3] = b[3] => a = b
  BY PositionParts, Zenon
<1>3. ASSUME NEW c \in Positions, Precedes(a, b), Precedes(b, c)
      PROVE  Precedes(a, c)
  <2>1. c[1] \in Nat /\ c[2] \in Int /\ c[3] \in Nat
    BY PositionParts
  <2> QED
    <3>1. a[1] >= b[1] /\ b[1] >= c[1]
      BY <1>1, <1>3, <2>1 DEF Precedes
    <3>2. CASE a[1] > b[1] \/ b[1] > c[1]
      BY <1>1, <2>1, <3>1, <3>2 DEF Precedes
    <3>3. CASE a[1] = b[1] /\ b[1] = c[1]
      <4>1. Sooner(a[2], b[2]) \/ (a[2] = b[2] /\ a[3] < b[3])
        BY <1>1, <1>3, <3>3 DEF Precedes
      <4>2. Sooner(b[2], c[2]) \/ (b[2] = c[2] /\ b[3] < c[3])
        BY <1>1, <1>3, <2>1, <3>3 DEF Precedes
      <4>3. Sooner(a[2], b[2]) /\ Sooner(b[2], c[2]) => Sooner(a[2], c[2])
        BY <1>1, <2>1 DEF Sooner
      <4> QED
        BY <1>1, <2>1, <3>3, <4>1, <4>2, <4>3 DEF Precedes
    <3> QED
      BY <1>1, <2>1, <3>1, <3>2, <3>3
<1>4. ~Precedes(a, a) /\ ~(Precedes(a, b) /\ Precedes(b, a))
  BY <1>1 DEF Precedes, Sooner
<1>5. a = b \/ Precedes(a, b) \/ Precedes(b, a)
  <2>1. a[2] = b[2] \/ Sooner(a[2], b[2]) \/ Sooner(b[2], a[2])
    BY <1>1 DEF Sooner
  <2> QED
    BY <1>1, <1>2, <2>1 DEF Precedes
<1> QED
  BY <1>3, <1>4, <1>5

LEMMA CursorIs ==
  ASSUME NEW c \in Cursors, c # NoCursor
  PROVE  c \in Positions /\ c[2] # Never
BY DEF Cursors

\* The predicate continues the order, but for rows without a clock.
LEMMA CursorFacts ==
  ASSUME NEW c \in Cursors, NEW a \in Positions
  PROVE  /\ PastCursor(c, a) => c = NoCursor \/ Precedes(c, a)
         /\ c = NoCursor \/ (a[2] # Never /\ Precedes(c, a)) => PastCursor(c, a)
<1>1. CASE c = NoCursor
  BY <1>1 DEF PastCursor
<1>2. CASE c # NoCursor
  <2>1. c[1] \in Nat /\ c[2] \in Int /\ c[3] \in Nat /\ a[1] \in Nat /\ a[2] \in Int /\ a[3] \in Nat
    BY <1>2, CursorIs, PositionParts
  <2>2. c[2] # Never
    BY <1>2, CursorIs
  <2> QED
    BY <1>2, <2>1, <2>2 DEF PastCursor, Precedes, Sooner
<1> QED
  BY <1>1, <1>2

\* A finite set of positions has a last one: what comes after it is smallest.
LEMMA LastExists ==
  ASSUME NEW P, P \subseteq Positions, IsFiniteSet(P), P # {}
  PROVE  \E a \in P : \A b \in P \ {a} : Precedes(b, a)
<1> DEFINE After(a) == {b \in P : Precedes(a, b)}
           T == {After(a) : a \in P}
<1>1. T \subseteq SUBSET P /\ T # {}
  OBVIOUS
<1>2. IsWellFoundedOn(StrictSubsetOrdering(P), SUBSET P)
  BY FS_StrictSubsetOrderingWellFounded, FS_FiniteSubsetsOfFinite
<1>3. PICK U \in T : \A V \in T : ~(<<V, U>> \in StrictSubsetOrdering(P))
  <2> HIDE DEF T
  <2> QED
    BY <1>1, <1>2, WFMin
<1>4. PICK a \in P : U = After(a)
  BY <1>3
<1>5. ASSUME NEW b \in P, Precedes(a, b)
      PROVE  FALSE
  <2>1. After(b) \subseteq U /\ b \in U /\ b \notin After(b)
    <3>1. ~Precedes(b, b) /\ \A c \in P : Precedes(b, c) => Precedes(a, c)
      BY <1>5, OrderFacts
    <3> QED
      BY <1>4, <1>5, <3>1
  <2>2. After(b) \in T /\ <<After(b), U>> \in (SUBSET P) \X (SUBSET P)
    BY <1>1, <1>3
  <2> HIDE DEF After
  <2>3. <<After(b), U>> \in StrictSubsetOrdering(P)
    BY <2>1, <2>2 DEF StrictSubsetOrdering
  <2> QED
    BY <1>3, <2>2, <2>3
<1>6. \A b \in P \ {a} : Precedes(b, a)
  BY <1>5, OrderFacts
<1> QED
  BY <1>6

\* The position of an incident.
LEMMA PositionIs ==
  ASSUME Typed, NEW i \in Incidents
  PROVE  /\ Position(i) \in Positions /\ Position(i)[3] = i
         /\ Position(i)[1] = incident[i].level /\ Position(i)[2] = incident[i].since
         /\ \A j \in Incidents : Position(i) = Position(j) => i = j
<1>1. incident[i] \in Clocked
  BY DEF Typed
<1> QED
  BY <1>1 DEF Position, Positions, Clocked

-------------------------------------------------------------------------------
(* A page.                                                                  *)

Preds(S, i) == {j \in S : Precedes(Position(j), Position(i))}

\* Some incident of a set that is not empty comes before all others.
LEMMA FirstExists ==
  ASSUME Typed, NEW S, S \subseteq Incidents, S # {}
  PROVE  \E i \in S : Preds(S, i) = {}
<1> DEFINE T == {Preds(S, i) : i \in S}
<1>1. T \subseteq SUBSET S /\ T # {}
  BY DEF Preds
<1>2. IsFiniteSet(S)
  BY IncidentsAssumption, FS_Subset
<1>3. IsWellFoundedOn(StrictSubsetOrdering(S), SUBSET S)
  BY <1>2, FS_StrictSubsetOrderingWellFounded, FS_FiniteSubsetsOfFinite
<1>4. PICK U \in T : \A V \in T : ~(<<V, U>> \in StrictSubsetOrdering(S))
  <2> HIDE DEF T
  <2> QED
    BY <1>1, <1>3, WFMin
<1>5. PICK i \in S : U = Preds(S, i)
  BY <1>4
<1>6. ASSUME NEW j \in Preds(S, i)
      PROVE  FALSE
  <2>1. j \in S /\ Precedes(Position(j), Position(i))
    BY DEF Preds
  <2>2. ~Precedes(Position(j), Position(j))
        /\ \A k \in S : Precedes(Position(k), Position(j)) => Precedes(Position(k), Position(i))
    BY <2>1, OrderFacts, PositionIs
  <2>3. Preds(S, j) \subseteq U /\ j \in U /\ j \notin Preds(S, j)
    BY <1>5, <2>2 DEF Preds
  <2>4. Preds(S, j) \in T /\ <<Preds(S, j), U>> \in (SUBSET S) \X (SUBSET S)
    BY <1>1, <1>4, <2>1
  <2>5. <<Preds(S, j), U>> \in StrictSubsetOrdering(S)
    BY <2>3, <2>4 DEF StrictSubsetOrdering
  <2> QED
    BY <1>4, <2>4, <2>5
<1> QED
  BY <1>6

\* A page has no more rows than asked for, has some if there are any, and what is left
\* out comes after it.
LEMMA PageFacts ==
  ASSUME Typed, NEW S, S \subseteq Incidents
  PROVE  /\ OnPage(S) \subseteq S /\ IsFiniteSet(OnPage(S)) /\ Cardinality(OnPage(S)) <= PageSize
         /\ S # {} => OnPage(S) # {}
         /\ \A i \in S \ OnPage(S) :
              Cardinality(S) > PageSize /\ \A j \in OnPage(S) : Precedes(Position(j), Position(i))
<1>0. IsFiniteSet(S) /\ PageSize \in Nat \ {0} /\ Cardinality(S) \in Nat
  BY IncidentsAssumption, PageAssumption, FS_Subset, FS_CardinalityType
<1>1. OnPage(S) \subseteq S /\ \A i \in S : i \in OnPage(S) <=> Cardinality(Preds(S, i)) < PageSize
  BY DEF OnPage, Preds
<1>2. IsFiniteSet(OnPage(S))
  BY <1>0, <1>1, FS_Subset
<1>3. \A i \in S : /\ IsFiniteSet(Preds(S, i)) /\ Cardinality(Preds(S, i)) \in Nat /\ Preds(S, i) \subseteq S
                  /\ i \notin Preds(S, i)
  <2> SUFFICES ASSUME NEW i \in S
               PROVE  /\ IsFiniteSet(Preds(S, i)) /\ Cardinality(Preds(S, i)) \in Nat
                      /\ Preds(S, i) \subseteq S /\ i \notin Preds(S, i)
    OBVIOUS
  <2>1. Preds(S, i) \subseteq S /\ i \notin Preds(S, i)
    BY OrderFacts, PositionIs DEF Preds
  <2> QED
    BY <1>0, <2>1, FS_Subset, FS_CardinalityType
<1>4. S # {} => OnPage(S) # {}
  <2> SUFFICES ASSUME S # {} PROVE OnPage(S) # {}
    OBVIOUS
  <2>1. PICK i \in S : Preds(S, i) = {}
    BY FirstExists
  <2>2. Cardinality(Preds(S, i)) = 0
    BY <2>1, FS_EmptySet
  <2> QED
    BY <1>0, <1>1, <2>2
<1>5. ASSUME NEW i \in S \ OnPage(S)
      PROVE  Cardinality(S) > PageSize /\ \A j \in OnPage(S) : Precedes(Position(j), Position(i))
  <2>1. ~(Cardinality(Preds(S, i)) < PageSize)
    BY <1>1
  <2>2. Cardinality(Preds(S, i)) <= Cardinality(S) /\ Cardinality(Preds(S, i)) # Cardinality(S)
    BY <1>0, <1>3, FS_Subset
  <2>3. ASSUME NEW j \in OnPage(S), ~Precedes(Position(j), Position(i))
        PROVE  FALSE
    <3>1. Precedes(Position(i), Position(j))
      BY <1>1, <1>5, <2>3, OrderFacts, PositionIs
    <3>2. \A k \in S : Precedes(Position(k), Position(i)) => Precedes(Position(k), Position(j))
      BY <1>1, <3>1, OrderFacts, PositionIs
    <3>3. Preds(S, i) \subseteq Preds(S, j)
      BY <3>2 DEF Preds
    <3>4. Cardinality(Preds(S, i)) <= Cardinality(Preds(S, j))
      BY <1>1, <1>3, <3>3, FS_Subset
    <3>5. Cardinality(Preds(S, j)) < PageSize
      BY <1>1
    <3> QED
      BY <1>0, <1>1, <1>3, <2>1, <3>4, <3>5
  <2> QED
    BY <1>0, <1>3, <2>1, <2>2, <2>3
<1>6. Cardinality(OnPage(S)) <= PageSize
  <2>1. CASE OnPage(S) = {}
    BY <1>0, <2>1, FS_EmptySet
  <2>2. CASE OnPage(S) # {}
    <3> DEFINE f == [i \in OnPage(S) |-> Position(i)]
               P == {Position(i) : i \in OnPage(S)}
    <3>1. f \in Surjection(OnPage(S), P)
      BY DEF Surjection
    <3>2. IsFiniteSet(P) /\ P # {} /\ P \subseteq Positions
      BY <1>1, <1>2, <2>2, <3>1, FS_Surjection, PositionIs
    <3>3. PICK a \in P : \A b \in P \ {a} : Precedes(b, a)
      <4> HIDE DEF P
      <4> QED
        BY <3>2, LastExists
    <3>4. PICK l \in OnPage(S) : a = Position(l)
      BY <3>3
    <3>5. \A j \in OnPage(S) \ {l} : Precedes(Position(j), Position(l))
      BY <1>1, <3>3, <3>4, PositionIs
    <3>6. OnPage(S) \ {l} \subseteq Preds(S, l)
      BY <1>1, <3>5 DEF Preds
    <3>7. Cardinality(OnPage(S) \ {l}) = Cardinality(OnPage(S)) - 1
      BY <1>2, FS_RemoveElement
    <3>8. Cardinality(OnPage(S) \ {l}) <= Cardinality(Preds(S, l))
      BY <1>1, <1>3, <3>6, FS_Subset
    <3>9. Cardinality(Preds(S, l)) < PageSize /\ Cardinality(Preds(S, l)) \in Nat
      BY <1>1, <1>3
    <3>10. Cardinality(OnPage(S)) \in Nat
      BY <1>2, FS_CardinalityType
    <3> QED
      BY <1>0, <3>7, <3>8, <3>9, <3>10
  <2> QED
    BY <2>1, <2>2
<1> QED
  BY <1>1, <1>2, <1>4, <1>5, <1>6


-------------------------------------------------------------------------------
(* The writes.                                                              *)

\* What the columns of a changed incident are typed with.
LEMMA ClockTyped ==
  ASSUME Typed, NEW i \in Incidents, NEW next \in SeverityInputs, NEW at \in 0..MaxTime,
         NEW level \in 0..incident[i].level
  PROVE  LET clock == ApplySeverityChange([incident[i] EXCEPT !.level = level], next, at)
         IN  [severity |-> next, since |-> clock.since, cycle |-> clock.cycle,
              level |-> clock.level, acked |-> clock.acked, closed |-> FALSE] \in Clocked
<1> DEFINE seen == [incident[i] EXCEPT !.level = level]
           clock == ApplySeverityChange(seen, next, at)
<1>1. incident[i] \in Clocked /\ MaxLevel \in Nat /\ MaxTime \in Nat /\ next \in Severities
  BY BoundsAssumption DEF Typed
<1>2. /\ seen.severity = incident[i].severity /\ seen.since = incident[i].since
      /\ seen.cycle = incident[i].cycle /\ seen.level = level /\ seen.acked = incident[i].acked
  BY <1>1 DEF Clocked
<1>3. level \in 0..MaxLevel /\ 0 \in 0..MaxLevel
  BY <1>1 DEF Clocked
<1> HIDE DEF seen
<1>4. /\ clock.since \in (0..MaxTime) \union {Never} /\ clock.cycle \in Nat
      /\ clock.level \in 0..MaxLevel /\ clock.acked \in BOOLEAN
  <2>1. /\ clock.since \in {at, seen.since, Never} /\ clock.cycle \in {seen.cycle, seen.cycle + 1}
        /\ clock.level \in {0, seen.level}
    BY DEF ApplySeverityChange
  <2>2. clock.acked \in BOOLEAN
    BY <1>1, <1>2 DEF ApplySeverityChange, Clocked
  <2> QED
    BY <1>1, <1>2, <1>3, <2>1, <2>2 DEF Clocked
<1> QED
  BY <1>1, <1>4 DEF Clocked, seen

\* A write leaves the walk where it is, and notes what it moved.
LEMMA MovesTyped ==
  ASSUME Typed, Moves
  PROVE  /\ moves' \in 0..MaxMoves /\ walk' \in WalkState \union {NoWalk}
         /\ walk' # NoWalk <=> walk # NoWalk
         /\ walk # NoWalk =>
              /\ walk'.pc = walk.pc /\ walk'.cleared = walk.cleared /\ walk'.cursor = walk.cursor
              /\ walk'.rows = walk.rows /\ walk'.more = walk.more /\ walk'.shown = walk.shown
              /\ walk'.ahead = walk.ahead \union
                   {i \in Incidents : ~Due(i)' \/ Precedes(Position(i)', Position(i))}
              /\ walk'.behind = walk.behind \union {i \in Incidents : Precedes(Position(i), Position(i)')}
<1>1. moves' \in 0..MaxMoves
  BY BoundsAssumption DEF Moves, Typed
<1>2. CASE walk = NoWalk
  BY <1>1, <1>2 DEF Moves
<1>3. CASE walk # NoWalk
  <2> DEFINE up == {i \in Incidents : ~Due(i)' \/ Precedes(Position(i)', Position(i))}
             down == {i \in Incidents : Precedes(Position(i), Position(i)')}
  <2>1. walk' = [walk EXCEPT !.ahead = @ \union up, !.behind = @ \union down] /\ walk \in WalkState
    BY <1>3 DEF Moves, Typed
  <2>2. up \subseteq Incidents /\ down \subseteq Incidents
    OBVIOUS
  <2> HIDE DEF up, down
  <2>3. walk' \in WalkState /\ walk'.pc = walk.pc /\ walk'.cleared = walk.cleared /\ walk'.cursor = walk.cursor
        /\ walk'.rows = walk.rows /\ walk'.more = walk.more /\ walk'.shown = walk.shown
        /\ walk'.ahead = walk.ahead \union up /\ walk'.behind = walk.behind \union down
    BY <2>1, <2>2 DEF WalkState
  <2>4. walk' # NoWalk
    BY <2>3 DEF WalkState, NoWalk
  <2> QED
    BY <1>1, <1>3, <2>3, <2>4 DEF up, down
<1> QED
  BY <1>2, <1>3

\* The same of the position after a step.
LEMMA PositionIsNext ==
  ASSUME Typed', NEW i \in Incidents
  PROVE  Position(i)' \in Positions
<1>1. incident'[i] \in Clocked
  BY DEF Typed
<1> QED
  BY <1>1 DEF Position, Positions, Clocked

\* A write keeps what the walk owes, if events are only added and what stays on the
\* list does not rise in severity.
LEMMA WriteKeeps ==
  ASSUME IInv, Typed', Moves, fired \subseteq fired',
         \A i \in Incidents : Listed(i)' =>
            \A c \in Clearances : CanViewSeverity(c, incident[i].severity)
                                    => CanViewSeverity(c, incident'[i].severity)
  PROVE  IInv'
<1>0. Typed /\ (walk # NoWalk => /\ PageFits(walk) /\ Settled(walk)
                                 /\ \A i \in Incidents \ walk.ahead : Owed(walk, i))
  BY DEF IInv
<1>1. CASE walk = NoWalk
  <2>1. walk' = NoWalk
    BY <1>0, <1>1, MovesTyped
  <2> QED
    BY <2>1 DEF IInv
<1>2. CASE walk # NoWalk
  <2>1. /\ walk'.pc = walk.pc /\ walk'.cleared = walk.cleared /\ walk'.cursor = walk.cursor
        /\ walk'.rows = walk.rows /\ walk'.more = walk.more /\ walk'.shown = walk.shown
        /\ walk'.ahead = walk.ahead \union
             {i \in Incidents : ~Due(i)' \/ Precedes(Position(i)', Position(i))}
        /\ walk'.behind = walk.behind \union {i \in Incidents : Precedes(Position(i), Position(i)')}
    BY <1>0, <1>2, MovesTyped
  <2>2. /\ walk.cursor \in Cursors /\ walk.shown \subseteq Incidents
        /\ walk.cleared \in Clearances
        /\ \A r \in walk.rows : r.at \in Positions /\ r.at[3] \in Incidents
    <3>1. walk \in WalkState
      BY <1>0, <1>2 DEF Typed
    <3>2. walk.rows \subseteq [at : Positions, cycle : Nat] /\ walk.cursor \in Cursors
          /\ walk.shown \subseteq Incidents /\ walk.cleared \in Clearances
      BY <3>1 DEF WalkState
    <3> QED
      BY <3>2, PositionParts
  <2>3. ASSUME NEW i \in Incidents, i \notin walk'.behind, NEW p \in Positions, NotAfter(Position(i), p)
        PROVE  NotAfter(Position(i)', p)
    <3>1. Position(i) \in Positions /\ Position(i)' \in Positions /\ ~Precedes(Position(i), Position(i)')
      BY <1>0, <2>1, <2>3, PositionIs, PositionIsNext
    <3> QED
      BY <2>3, <3>1, OrderFacts DEF NotAfter
  <2>4. ASSUME NEW i \in Incidents, i \notin walk'.ahead, NEW p \in Positions, Precedes(p, Position(i))
        PROVE  Precedes(p, Position(i)')
    <3>1. Position(i) \in Positions /\ Position(i)' \in Positions /\ ~Precedes(Position(i)', Position(i))
      BY <1>0, <2>1, <2>4, PositionIs, PositionIsNext
    <3> QED
      BY <2>4, <3>1, OrderFacts
  <2>5. PageFits(walk)'
    BY <1>0, <1>2, <2>1 DEF PageFits
  <2>6. Settled(walk)'
    <3>1. /\ \A i \in walk.shown \ walk.behind : walk.cursor # NoCursor /\ NotAfter(Position(i), walk.cursor)
          /\ walk.pc = "join" =>
               \A r \in walk.rows : r.at[3] \notin walk.behind =>
                 r.at[3] \notin walk.shown /\ NotAfter(Position(r.at[3]), r.at)
      BY <1>0, <1>2 DEF Settled
    <3>2. \A i \in walk.shown \ walk'.behind : walk.cursor # NoCursor /\ NotAfter(Position(i)', walk.cursor)
      BY <2>1, <2>2, <2>3, <3>1, CursorIs
    <3>3. walk.pc = "join" => \A r \in walk.rows : r.at[3] \notin walk'.behind =>
            r.at[3] \notin walk.shown /\ NotAfter(Position(r.at[3])', r.at)
      BY <2>1, <2>2, <2>3, <3>1
    <3> QED
      BY <2>1, <3>2, <3>3 DEF Settled
  <2>7. ASSUME NEW i \in Incidents \ walk'.ahead
        PROVE  Owed(walk, i)'
    <3>1. Due(i)' /\ Listed(i)' /\ Owed(walk, i)
      BY <1>0, <1>2, <2>1 DEF Due
    <3>2. walk.pc = "page" => CanViewSeverity(walk.cleared, incident'[i].severity)
      BY <2>2, <3>1 DEF Owed
    <3>3. i \in walk.shown \/ PastCursor(walk.cursor, Position(i)')
      <4>1. Position(i) \in Positions /\ Position(i)' \in Positions /\ Position(i)'[2] # Never
        <5>1. Position(i)'[2] = incident'[i].since
          BY DEF Position
        <5> QED
          BY <1>0, <3>1, <5>1, PositionIs, PositionIsNext DEF Due
      <4>2. i \in walk.shown \/ walk.cursor = NoCursor
            \/ (walk.cursor \in Positions /\ Precedes(walk.cursor, Position(i)))
        BY <2>2, <3>1, <4>1, CursorFacts, CursorIs DEF Owed
      <4>3. walk.cursor \in Positions /\ Precedes(walk.cursor, Position(i)) => Precedes(walk.cursor, Position(i)')
        BY <2>4, <2>7
      <4> QED
        BY <2>2, <4>1, <4>2, <4>3, CursorFacts
    <3>4. walk.pc = "join" =>
            \/ i \in walk.shown \union {r.at[3] : r \in {s \in walk.rows : <<s.at[3], s.cycle, s.at[1]>> \in fired'}}
            \/ walk.more /\ \A r \in walk.rows : Precedes(r.at, Position(i)')
      BY <2>2, <2>4, <3>1 DEF Owed
    <3> QED
      BY <2>1, <3>1, <3>2, <3>3, <3>4 DEF Owed
  <2> QED
    BY <2>5, <2>6, <2>7 DEF IInv
<1> QED
  BY <1>1, <1>2

\* A write of one row: what it asks for to keep the invariant.
LEMMA RowKeeps ==
  ASSUME IInv, NEW i \in Incidents, NEW new \in Clocked, Write(i, new),
         new.level > 0 => SeverityRank(new.severity) <= SeverityRank(incident[i].severity)
  PROVE  IInv'
<1>0. Typed
  BY DEF IInv
<1>1. /\ incident' = [incident EXCEPT ![i] = new] /\ fired' = fired /\ open' = open
      /\ clearance' = clearance /\ Moves
  BY DEF Write
<1>2. incident' \in [Incidents -> Clocked] /\ incident'[i] = new
      /\ \A j \in Incidents \ {i} : incident'[j] = incident[j]
  BY <1>0, <1>1 DEF Typed
<1>3. Typed'
  BY <1>0, <1>1, <1>2, MovesTyped DEF Typed
<1>4. ASSUME NEW j \in Incidents, Listed(j)', NEW c \in Clearances, CanViewSeverity(c, incident[j].severity)
      PROVE  CanViewSeverity(c, incident'[j].severity)
  <2>1. CASE j # i
    BY <1>2, <1>4, <2>1
  <2>2. CASE j = i
    <3>1. new.level > 0
      BY <1>2, <1>4, <2>2 DEF Listed, ActivelyEscalated
    <3>2. SeverityRank(new.severity) \in Int /\ SeverityRank(incident[i].severity) \in Int /\ c \in Int
      <4>1. incident[i] \in Clocked /\ c \in 1..4
        BY <1>0, BoundsAssumption DEF Typed
      <4> QED
        BY <4>1 DEF SeverityRank, Clocked, Severities
    <3> QED
      BY <1>2, <1>4, <2>2, <3>1, <3>2 DEF CanViewSeverity
  <2> QED
    BY <2>1, <2>2
<1> QED
  BY <1>1, <1>3, <1>4, WriteKeeps

LEMMA AcknowledgeKeeps ==
  ASSUME IInv, NEW i \in Incidents, Acknowledge(i)
  PROVE  IInv'
<1>1. incident[i] \in Clocked
  BY DEF IInv, Typed
<1> DEFINE new == [incident[i] EXCEPT !.acked = TRUE]
<1>2. new \in Clocked /\ new.severity = incident[i].severity
  BY <1>1 DEF Clocked
<1>3. SeverityRank(incident[i].severity) \in Int
  BY <1>1 DEF SeverityRank, Clocked, Severities
<1>4. Write(i, new)
  BY DEF Acknowledge
<1> HIDE DEF new
<1> QED
  BY <1>2, <1>3, <1>4, RowKeeps

LEMMA CloseKeeps ==
  ASSUME IInv, NEW i \in Incidents, Close(i)
  PROVE  IInv'
<1>1. incident[i] \in Clocked
  BY DEF IInv, Typed
<1> DEFINE new == [incident[i] EXCEPT !.closed = TRUE]
<1>2. new \in Clocked /\ new.severity = incident[i].severity
  BY <1>1 DEF Clocked
<1>3. SeverityRank(incident[i].severity) \in Int
  BY <1>1 DEF SeverityRank, Clocked, Severities
<1>4. Write(i, new)
  BY DEF Close
<1> HIDE DEF new
<1> QED
  BY <1>2, <1>3, <1>4, RowKeeps

\* A change of severity that leaves a level standing is not a raise.
LEMMA ChangeSeverityKeeps ==
  ASSUME IInv, NEW i \in Incidents, ChangeSeverity(i)
  PROVE  IInv'
<1>0. Typed
  BY DEF IInv
<1> DEFINE Clock(next, at, level) ==
             ApplySeverityChange([incident[i] EXCEPT !.level = level], next, at)
           New(next, at, level) ==
             [severity |-> next, since |-> Clock(next, at, level).since,
              cycle |-> Clock(next, at, level).cycle, level |-> Clock(next, at, level).level,
              acked |-> Clock(next, at, level).acked, closed |-> FALSE]
<1>1. PICK next \in SeverityInputs \ {incident[i].severity}, at \in 0..MaxTime,
           level \in 0..incident[i].level : Write(i, New(next, at, level))
  BY DEF ChangeSeverity
<1>2. New(next, at, level) \in Clocked
  BY <1>0, ClockTyped
<1>3. New(next, at, level).level = Clock(next, at, level).level /\ New(next, at, level).severity = next
  OBVIOUS
<1>4. Clock(next, at, level).level > 0 => SeverityRank(next) <= SeverityRank(incident[i].severity)
  <2>1. incident[i] \in Clocked /\ next \in Severities
    BY <1>0, BoundsAssumption DEF Typed
  <2>2. [incident[i] EXCEPT !.level = level].severity = incident[i].severity
    BY <2>1 DEF Clocked
  <2>3. ASSUME Clock(next, at, level).level > 0
        PROVE  ClockRule(incident[i].severity, next) = "keep"
    <3>1. ClockRule(incident[i].severity, next) # "keep" => Clock(next, at, level).level = 0
      BY <2>2 DEF ApplySeverityChange
    <3> QED
      BY <2>3, <3>1
  <2>4. SeverityRank(next) \in Int /\ SeverityRank(incident[i].severity) \in Int
    BY <2>1 DEF SeverityRank, Clocked, Severities
  <2>5. ClockRule(incident[i].severity, next) = "keep" => SeverityRank(next) <= SeverityRank(incident[i].severity)
    BY <2>4 DEF ClockRule
  <2> QED
    BY <2>3, <2>5
<1> HIDE DEF New, Clock
<1> QED
  BY <1>1, <1>2, <1>3, <1>4, RowKeeps

LEMMA SetClearanceKeeps ==
  ASSUME IInv, SetClearance
  PROVE  IInv'
<1>0. Typed
  BY DEF IInv
<1>1. clearance' \in Clearances /\ incident' = incident /\ fired' = fired /\ open' = open /\ Moves
  BY DEF SetClearance
<1>2. Typed'
  BY <1>0, <1>1, MovesTyped DEF Typed
<1> QED
  BY <1>1, <1>2, WriteKeeps

LEMMA InsertEventKeeps ==
  ASSUME IInv, NEW i \in Incidents, InsertEvent(i)
  PROVE  IInv'
<1>0. Typed /\ UNCHANGED <<incident, fired, clearance, walk, moves>>
  BY DEF IInv, InsertEvent
<1>1. open' \in OpenState
  <2>1. incident[i] \in Clocked /\ MaxLevel \in Nat
    BY <1>0, BoundsAssumption DEF Typed
  <2>2. PICK l \in incident[i].level + 1 .. MaxLevel :
          open' = [on |-> i, cycle |-> incident[i].cycle, level |-> l]
    BY DEF InsertEvent
  <2>3. l \in 1..MaxLevel /\ incident[i].cycle \in Nat
    BY <2>1 DEF Clocked
  <2> QED
    BY <2>2, <2>3 DEF OpenState
<1>2. Typed'
  BY <1>0, <1>1 DEF Typed
<1>3. PageFits(walk)' = PageFits(walk) /\ Settled(walk)' = Settled(walk)
      /\ \A j \in Incidents : Owed(walk, j)' = Owed(walk, j)
  BY <1>0 DEF PageFits, Settled, Owed, Due, Listed, ActivelyEscalated, CurrentKey, Position
<1> QED
  BY <1>0, <1>2, <1>3 DEF IInv

LEMMA CommitEscalationKeeps ==
  ASSUME IInv, CommitEscalation
  PROVE  IInv'
<1>0. Typed /\ Moves /\ open \in OpenState
  BY DEF IInv, CommitEscalation, Typed
<1> DEFINE i == open.on
           level == IF incident[i].level < open.level THEN open.level ELSE incident[i].level
           new == [incident[i] EXCEPT !.level = level]
<1>1. i \in Incidents /\ open.cycle \in Nat /\ open.level \in 1..MaxLevel
  BY <1>0 DEF OpenState
<1>2. incident[i] \in Clocked
  BY <1>0, <1>1 DEF Typed
<1>3. level \in 0..MaxLevel
  BY <1>1, <1>2 DEF Clocked
<1>4. incident' = [incident EXCEPT ![i] = new] /\ open' = NoEscalation /\ clearance' = clearance
      /\ fired' = fired \union {<<i, open.cycle, open.level>>}
  <2>1. incident' = [incident EXCEPT ![i].level = level]
    BY DEF CommitEscalation
  <2> QED
    BY <2>1 DEF CommitEscalation
<1>5. new \in Clocked /\ new.severity = incident[i].severity
  <2> HIDE DEF level
  <2> QED
    BY <1>2, <1>3 DEF Clocked
<1>6. fired' \subseteq Keys /\ fired \subseteq fired'
  BY <1>0, <1>1, <1>4 DEF Keys, Typed
<1> HIDE DEF i, level, new
<1>7. incident' \in [Incidents -> Clocked] /\ \A j \in Incidents : incident'[j].severity = incident[j].severity
  BY <1>0, <1>1, <1>4, <1>5 DEF Typed
<1>8. Typed'
  BY <1>0, <1>4, <1>6, <1>7, MovesTyped DEF Typed
<1> QED
  BY <1>0, <1>6, <1>7, <1>8, WriteKeeps

LEMMA RollBackKeeps ==
  ASSUME IInv, RollBack
  PROVE  IInv'
<1>0. Typed /\ open' = NoEscalation /\ UNCHANGED <<incident, fired, clearance, walk, moves>>
  BY DEF IInv, RollBack
<1>1. Typed'
  BY <1>0 DEF Typed
<1>2. PageFits(walk)' = PageFits(walk) /\ Settled(walk)' = Settled(walk)
      /\ \A j \in Incidents : Owed(walk, j)' = Owed(walk, j)
  BY <1>0 DEF PageFits, Settled, Owed, Due, Listed, ActivelyEscalated, CurrentKey, Position
<1> QED
  BY <1>0, <1>1, <1>2 DEF IInv

-------------------------------------------------------------------------------
(* The reading.                                                             *)

\* A step of the reader, from what holds of the walk it leaves.
LEMMA WalkKeeps ==
  ASSUME Typed, NEW w \in WalkState \union {NoWalk}, Walks(w),
         w # NoWalk => /\ PageFits(w) /\ Settled(w)
                       /\ \A i \in Incidents \ w.ahead : Owed(w, i)
  PROVE  IInv'
<1>1. walk' = w /\ UNCHANGED <<incident, fired, open, clearance, moves>>
  BY DEF Walks
<1>2. Typed'
  BY <1>1 DEF Typed
<1>3. PageFits(walk)' = PageFits(w) /\ Settled(walk)' = Settled(w)
      /\ \A i \in Incidents : Owed(walk, i)' = Owed(w, i)
  BY <1>1 DEF PageFits, Settled, Owed, Due, Listed, ActivelyEscalated, CurrentKey, Position
<1> QED
  BY <1>1, <1>2, <1>3 DEF IInv

LEMMA BeginWalkKeeps ==
  ASSUME IInv, BeginWalk
  PROVE  IInv'
<1>0. Typed
  BY DEF IInv
<1> DEFINE w == [pc |-> "page", cleared |-> clearance, cursor |-> NoCursor, rows |-> {}, more |-> FALSE,
                 shown |-> {}, ahead |-> {i \in Incidents : ~Due(i)}, behind |-> {}]
<1>1. w \in WalkState
  <2>1. NoCursor \in Cursors
    BY DEF Cursors
  <2> QED
    BY <1>0, <2>1 DEF Typed, WalkState
<1>2. PageFits(w)
  BY PageAssumption, FS_EmptySet DEF PageFits
<1>3. Settled(w)
  BY DEF Settled
<1>4. \A i \in Incidents \ w.ahead : Owed(w, i)
  BY DEF Owed, PastCursor, Due, Listed
<1>5. Walks(w)
  BY DEF BeginWalk
<1> HIDE DEF w
<1> QED
  BY <1>0, <1>1, <1>2, <1>3, <1>4, <1>5, WalkKeeps

\* What is known of a walk under way.
LEMMA UnderWay ==
  ASSUME IInv, walk # NoWalk
  PROVE  /\ Typed /\ PageFits(walk) /\ Settled(walk) /\ \A i \in Incidents \ walk.ahead : Owed(walk, i)
         /\ walk \in WalkState /\ walk.cleared \in Clearances /\ walk.cursor \in Cursors
         /\ walk.rows \subseteq [at : Positions, cycle : Nat] /\ walk.shown \subseteq Incidents
         /\ \A r \in walk.rows : r.at \in Positions /\ r.at[3] \in Incidents
<1>1. Typed /\ PageFits(walk) /\ Settled(walk) /\ \A i \in Incidents \ walk.ahead : Owed(walk, i)
  BY DEF IInv
<1>2. walk \in WalkState
  BY <1>1 DEF Typed
<1>3. /\ walk.cleared \in Clearances /\ walk.cursor \in Cursors
      /\ walk.rows \subseteq [at : Positions, cycle : Nat] /\ walk.shown \subseteq Incidents
  BY <1>2 DEF WalkState
<1>4. \A r \in walk.rows : r.at \in Positions /\ r.at[3] \in Incidents
  BY <1>3, PositionParts
<1> QED
  BY <1>1, <1>2, <1>3, <1>4

LEMMA ContinueWalkKeeps ==
  ASSUME IInv, ContinueWalk
  PROVE  IInv'
<1> DEFINE w == [walk EXCEPT !.pc = "page", !.cleared = clearance]
<1>1. walk # NoWalk /\ walk.pc = "between" /\ Walks(w)
  BY DEF ContinueWalk, NoWalk
<1>2. /\ Typed /\ PageFits(walk) /\ Settled(walk) /\ \A i \in Incidents \ walk.ahead : Owed(walk, i)
      /\ walk \in WalkState /\ clearance \in Clearances
  BY <1>1, UnderWay DEF Typed
<1>3. /\ w \in WalkState /\ w.pc = "page" /\ w.cleared = clearance /\ w.cursor = walk.cursor
      /\ w.rows = walk.rows /\ w.more = walk.more /\ w.shown = walk.shown
      /\ w.ahead = walk.ahead /\ w.behind = walk.behind
  BY <1>2 DEF WalkState
<1> HIDE DEF w
<1>4. PageFits(w)
  BY <1>2, <1>3 DEF PageFits
<1>5. Settled(w)
  BY <1>2, <1>3 DEF Settled
<1>6. ASSUME NEW i \in Incidents \ w.ahead
      PROVE  Owed(w, i)
  <2>1. Owed(walk, i)
    BY <1>2, <1>3
  <2> QED
    BY <1>1, <1>3, <2>1 DEF Owed, Due, Listed
<1> QED
  BY <1>1, <1>2, <1>3, <1>4, <1>5, <1>6, WalkKeeps

LEMMA ReadPageKeeps ==
  ASSUME IInv, ReadPage
  PROVE  IInv'
<1> DEFINE rows == {RowOf(i) : i \in OnPage(Found)}
           more == Cardinality(Found) > PageSize
           w == [walk EXCEPT !.pc = "join", !.rows = rows, !.more = more]
<1>1. walk # NoWalk /\ walk.pc = "page" /\ Walks(w)
  BY DEF ReadPage, NoWalk
<1>2. /\ Typed /\ PageFits(walk) /\ Settled(walk) /\ \A i \in Incidents \ walk.ahead : Owed(walk, i)
      /\ walk \in WalkState /\ walk.cursor \in Cursors
  BY <1>1, UnderWay
<1>3. Found \subseteq Incidents /\ \A i \in Found : PastCursor(walk.cursor, Position(i))
  BY DEF Found
<1>4. /\ OnPage(Found) \subseteq Found /\ IsFiniteSet(OnPage(Found)) /\ Cardinality(OnPage(Found)) <= PageSize
      /\ Found # {} => OnPage(Found) # {}
      /\ \A i \in Found \ OnPage(Found) :
           Cardinality(Found) > PageSize /\ \A j \in OnPage(Found) : Precedes(Position(j), Position(i))
  <2> HIDE DEF rows, more
  <2> QED
    BY <1>2, <1>3, PageFacts
<1>5. \A i \in Incidents : /\ RowOf(i) \in [at : Positions, cycle : Nat] /\ RowOf(i).at = Position(i)
                           /\ RowOf(i).cycle = incident[i].cycle
                           /\ Position(i)[3] = i /\ Position(i)[1] = incident[i].level
  <2> SUFFICES ASSUME NEW i \in Incidents
               PROVE  /\ RowOf(i) \in [at : Positions, cycle : Nat] /\ RowOf(i).at = Position(i)
                      /\ RowOf(i).cycle = incident[i].cycle
                      /\ Position(i)[3] = i /\ Position(i)[1] = incident[i].level
    OBVIOUS
  <2>1. Position(i) \in Positions /\ Position(i)[3] = i /\ Position(i)[1] = incident[i].level
    BY <1>2, PositionIs
  <2>2. incident[i].cycle \in Nat
    BY <1>2 DEF Typed, Clocked
  <2> QED
    BY <2>1, <2>2 DEF RowOf
<1>6. IsFiniteSet(rows) /\ Cardinality(rows) <= PageSize /\ rows \subseteq [at : Positions, cycle : Nat]
  <2> DEFINE f == [i \in OnPage(Found) |-> RowOf(i)]
  <2>1. f \in Surjection(OnPage(Found), rows)
    BY DEF Surjection
  <2>2. IsFiniteSet(rows) /\ Cardinality(rows) <= Cardinality(OnPage(Found))
    <3> HIDE DEF f, rows
    <3> QED
      BY <1>4, <2>1, FS_Surjection
  <2>3. Cardinality(rows) \in Nat /\ Cardinality(OnPage(Found)) \in Nat /\ PageSize \in Nat
    BY <1>4, <2>2, PageAssumption, FS_CardinalityType
  <2>4. Cardinality(rows) <= PageSize
    <3> HIDE DEF rows
    <3> QED
      BY <1>4, <2>2, <2>3
  <2>5. rows \subseteq [at : Positions, cycle : Nat]
    BY <1>3, <1>4, <1>5
  <2> QED
    BY <2>2, <2>4, <2>5
<1>7. \A r \in rows : r.at[3] \in OnPage(Found) /\ r = RowOf(r.at[3]) /\ r.at = Position(r.at[3])
  BY <1>3, <1>4, <1>5
<1>8. more => rows # {}
  <2>1. Found = {} => Cardinality(Found) = 0
    BY FS_EmptySet
  <2> QED
    BY <1>4, <2>1, PageAssumption
<1>9. \A i \in OnPage(Found) : RowOf(i) \in rows
  OBVIOUS
<1>10. more \in BOOLEAN /\ \A i \in Found \ OnPage(Found) : more
  BY <1>4
<1> HIDE DEF rows, more
<1>11. /\ w \in WalkState /\ w.pc = "join" /\ w.rows = rows /\ w.more = more
       /\ w.cleared = walk.cleared /\ w.cursor = walk.cursor /\ w.shown = walk.shown
       /\ w.ahead = walk.ahead /\ w.behind = walk.behind
  BY <1>2, <1>6, <1>10 DEF WalkState
<1> HIDE DEF w
<1>12. PageFits(w)
  <2>1. \A r, s \in rows : r.at[3] = s.at[3] => r = s
    BY <1>7
  <2>2. \A r \in rows : PastCursor(walk.cursor, r.at)
    BY <1>3, <1>4, <1>7
  <2> QED
    BY <1>6, <1>8, <1>11, <2>1, <2>2 DEF PageFits
<1>13. Settled(w)
  <2>1. \A i \in walk.shown \ walk.behind : walk.cursor # NoCursor /\ NotAfter(Position(i), walk.cursor)
    BY <1>2 DEF Settled
  <2>2. ASSUME NEW r \in rows, r.at[3] \notin walk.behind
        PROVE  r.at[3] \notin walk.shown /\ NotAfter(Position(r.at[3]), r.at)
    <3>1. r.at = Position(r.at[3]) /\ r.at[3] \in Found /\ r.at[3] \in Incidents
      BY <1>3, <1>4, <1>7
    <3>2. PastCursor(walk.cursor, Position(r.at[3])) /\ Position(r.at[3]) \in Positions
      BY <1>2, <1>3, <3>1, PositionIs
    <3>3. walk.cursor # NoCursor =>
            walk.cursor \in Positions /\ ~NotAfter(Position(r.at[3]), walk.cursor)
      BY <1>2, <3>2, OrderFacts, CursorFacts, CursorIs DEF NotAfter
    <3> QED
      BY <2>1, <2>2, <3>1, <3>3 DEF NotAfter
  <2> QED
    BY <1>11, <2>1, <2>2 DEF Settled
<1>14. ASSUME NEW i \in Incidents \ w.ahead
       PROVE  Owed(w, i)
  <2>1. Owed(walk, i) /\ i \in Incidents
    BY <1>2, <1>11
  <2>2. Due(i) /\ Listed(i) /\ CanViewSeverity(walk.cleared, incident[i].severity)
        /\ (i \in walk.shown \/ PastCursor(walk.cursor, Position(i)))
    BY <1>1, <2>1 DEF Owed, Due
  <2>3. CASE i \in walk.shown
    BY <1>11, <2>2, <2>3 DEF Owed
  <2>4. CASE i \in Found /\ i \in OnPage(Found)
    <3>1. RowOf(i) \in rows /\ RowOf(i).at[3] = i /\ RowOf(i).at[1] = incident[i].level
          /\ RowOf(i).cycle = incident[i].cycle
      BY <1>5, <1>9, <2>1, <2>4
    <3>2. <<RowOf(i).at[3], RowOf(i).cycle, RowOf(i).at[1]>> \in fired
      BY <2>2, <3>1 DEF Listed, CurrentKey
    <3>3. i \in {r.at[3] : r \in {s \in rows : <<s.at[3], s.cycle, s.at[1]>> \in fired}}
      BY <3>1, <3>2
    <3> QED
      BY <1>11, <2>2, <3>3 DEF Owed
  <2>5. CASE i \in Found /\ i \notin OnPage(Found)
    <3>1. more /\ \A r \in rows : Precedes(r.at, Position(i))
      BY <1>4, <1>7, <1>10, <2>5
    <3> QED
      BY <1>11, <2>2, <3>1 DEF Owed
  <2> QED
    BY <2>1, <2>2, <2>3, <2>4, <2>5 DEF Found, Listed
<1> QED
  BY <1>1, <1>2, <1>11, <1>12, <1>13, <1>14, WalkKeeps

\* The last row of a page.
LEMMA LastRow ==
  ASSUME NEW rows, rows \subseteq [at : Positions, cycle : Nat], IsFiniteSet(rows), rows # {},
         \A r, s \in rows : r.at[3] = s.at[3] => r = s
  PROVE  LastOf(rows) \in rows /\ \A s \in rows : NotAfter(s.at, LastOf(rows).at)
<1> DEFINE P == {r.at : r \in rows}
           f == [r \in rows |-> r.at]
<1>1. f \in Surjection(rows, P)
  BY DEF Surjection
<1>2. IsFiniteSet(P) /\ P # {} /\ P \subseteq Positions
  BY <1>1, FS_Surjection
<1>3. PICK a \in P : \A b \in P \ {a} : Precedes(b, a)
  <2> HIDE DEF P
  <2> QED
    BY <1>2, LastExists
<1>4. PICK r \in rows : r.at = a
  BY <1>3
<1>5. \A s \in rows \ {r} : Precedes(s.at, r.at)
  BY <1>3, <1>4
<1>6. LastOf(rows) \in rows /\ \A s \in rows \ {LastOf(rows)} : Precedes(s.at, LastOf(rows).at)
  BY <1>5 DEF LastOf
<1> QED
  BY <1>6 DEF NotAfter

LEMMA AnswerKeeps ==
  ASSUME IInv, Answer
  PROVE  IInv'
<1>1. walk # NoWalk /\ walk.pc = "join"
  BY DEF Answer, NoWalk
<1>2. /\ Typed /\ PageFits(walk) /\ Settled(walk) /\ \A i \in Incidents \ walk.ahead : Owed(walk, i)
      /\ walk \in WalkState /\ walk.cursor \in Cursors
      /\ walk.rows \subseteq [at : Positions, cycle : Nat] /\ walk.shown \subseteq Incidents
      /\ \A r \in walk.rows : r.at \in Positions /\ r.at[3] \in Incidents
  BY <1>1, UnderWay
<1>3. CASE ~walk.more
  <2>1. Walks(NoWalk)
    BY <1>3 DEF Answer
  <2> QED
    BY <1>2, <2>1, WalkKeeps
<1>4. CASE walk.more
  <2> DEFINE last == LastOf(walk.rows).at
             seen == walk.shown \union Answered
             w == [walk EXCEPT !.pc = "between", !.cursor = last, !.rows = {}, !.shown = seen]
  <2>1. Walks(w)
    <3>1. w = [walk EXCEPT !.pc = "between", !.cursor = LastOf(walk.rows).at, !.rows = {},
                           !.shown = @ \union Answered]
      OBVIOUS
    <3> QED
      BY <1>4, <3>1 DEF Answer
  <2>2. LastOf(walk.rows) \in walk.rows /\ \A s \in walk.rows : NotAfter(s.at, last)
    <3>1. IsFiniteSet(walk.rows) /\ walk.rows # {}
          /\ \A r, s \in walk.rows : r.at[3] = s.at[3] => r = s
      BY <1>1, <1>2, <1>4 DEF PageFits
    <3> QED
      BY <1>2, <3>1, LastRow
  <2>3. last \in Positions /\ last # NoCursor /\ last \in Cursors
        /\ (walk.cursor = NoCursor \/ Precedes(walk.cursor, last))
    <3>1. last \in Positions /\ last # NoCursor /\ PastCursor(walk.cursor, last)
      BY <1>1, <1>2, <2>2, PositionParts DEF PageFits
    <3>2. last[2] # Never
      BY <1>4 DEF Answer, NoCursorFor
    <3> QED
      BY <1>2, <3>1, <3>2, CursorFacts DEF Cursors
  <2>4. Answered \subseteq Incidents
        /\ Answered = {r.at[3] : r \in {s \in walk.rows : <<s.at[3], s.cycle, s.at[1]>> \in fired}}
    BY <1>2 DEF Answered, Items
  <2>5. seen \subseteq Incidents
    BY <1>2, <2>4
  <2>6. \A i \in seen : i \in walk.shown \/ \E r \in walk.rows : r.at[3] = i
    BY <2>4
  <2>7. \A i \in Incidents : i \in walk.shown \union {r.at[3] : r \in {s \in walk.rows : <<s.at[3], s.cycle, s.at[1]>> \in fired}}
                               <=> i \in seen
    BY <2>4
  <2> HIDE DEF last, seen
  <2>8. /\ w \in WalkState /\ w.pc = "between" /\ w.rows = {} /\ w.shown = seen /\ w.cursor = last
        /\ w.ahead = walk.ahead /\ w.behind = walk.behind
    BY <1>2, <2>3, <2>5 DEF WalkState
  <2> HIDE DEF w
  <2>9. PageFits(w)
    BY <2>8, PageAssumption, FS_EmptySet DEF PageFits
  <2>10. Settled(w)
    <3>1. ASSUME NEW i \in seen \ walk.behind
          PROVE  NotAfter(Position(i), last)
      <4>0. i \in Incidents /\ Position(i) \in Positions
        BY <1>2, <2>5, PositionIs
      <4>1. CASE i \in walk.shown
        <5>1. walk.cursor # NoCursor /\ NotAfter(Position(i), walk.cursor)
          BY <1>2, <3>1, <4>1 DEF Settled
        <5>2. walk.cursor \in Positions /\ Precedes(walk.cursor, last)
          BY <1>2, <2>3, <5>1, CursorIs
        <5> QED
          BY <2>3, <4>0, <5>1, <5>2, OrderFacts DEF NotAfter
      <4>2. CASE i \notin walk.shown
        <5>1. PICK r \in walk.rows : r.at[3] = i
          BY <2>6, <3>1, <4>2
        <5>2. NotAfter(Position(i), r.at) /\ NotAfter(r.at, last) /\ r.at \in Positions
          BY <1>1, <1>2, <2>2, <3>1, <5>1 DEF Settled
        <5> QED
          BY <2>3, <4>0, <5>2, OrderFacts DEF NotAfter
      <4> QED
        BY <4>1, <4>2
    <3> QED
      BY <2>3, <2>8, <3>1 DEF Settled
  <2>11. ASSUME NEW i \in Incidents \ w.ahead
         PROVE  Owed(w, i)
    <3>1. Owed(walk, i)
      BY <1>2, <2>8
    <3>2. Due(i) /\ (i \in seen \/ \A r \in walk.rows : Precedes(r.at, Position(i)))
      BY <1>1, <2>7, <3>1 DEF Owed
    <3>3. i \in seen \/ PastCursor(last, Position(i))
      <4>1. i \in seen \/ Precedes(last, Position(i))
        BY <2>2, <3>2 DEF last
      <4>2. Position(i) \in Positions /\ Position(i)[2] # Never
        BY <1>2, <3>2, PositionIs DEF Due
      <4> QED
        BY <2>3, <4>1, <4>2, CursorFacts
    <3> QED
      BY <2>8, <3>2, <3>3 DEF Owed
  <2> QED
    BY <1>2, <2>1, <2>8, <2>9, <2>10, <2>11, WalkKeeps
<1> QED
  BY <1>3, <1>4

\* A page that fails leaves the walk as it was when it was asked for.
LEMMA AnswerFailsKeeps ==
  ASSUME IInv, AnswerFails
  PROVE  IInv'
<1> DEFINE w == [walk EXCEPT !.pc = "between", !.rows = {}, !.more = FALSE]
<1>1. walk # NoWalk /\ walk.pc = "join" /\ Walks(w)
  BY DEF AnswerFails, NoWalk
<1>2. /\ Typed /\ PageFits(walk) /\ Settled(walk) /\ \A i \in Incidents \ walk.ahead : Owed(walk, i)
      /\ walk \in WalkState
  BY <1>1, UnderWay
<1>3. /\ w \in WalkState /\ w.pc = "between" /\ w.rows = {} /\ w.shown = walk.shown
      /\ w.cursor = walk.cursor /\ w.ahead = walk.ahead /\ w.behind = walk.behind
  BY <1>2 DEF WalkState
<1> HIDE DEF w
<1>4. PageFits(w)
  BY <1>3, PageAssumption, FS_EmptySet DEF PageFits
<1>5. Settled(w)
  BY <1>2, <1>3 DEF Settled
<1>6. \A i \in Incidents \ w.ahead : Owed(w, i)
  BY <1>2, <1>3 DEF Owed
<1> QED
  BY <1>1, <1>2, <1>3, <1>4, <1>5, <1>6, WalkKeeps

-------------------------------------------------------------------------------
LEMMA InitIInv == Init => IInv
<1> SUFFICES ASSUME Init PROVE IInv
  OBVIOUS
<1>1. MaxLevel \in Nat /\ MaxTime \in Nat /\ MaxMoves \in Nat /\ Reported \subseteq Severities
  BY BoundsAssumption DEF Severities
<1>2. ASSUME NEW i \in Incidents
      PROVE  incident[i] \in Clocked
  <2>1. PICK s \in Reported, t \in 0..MaxTime, l \in 0..MaxLevel :
          incident[i] = [severity |-> s, since |-> t, cycle |-> 1, level |-> l, acked |-> FALSE, closed |-> FALSE]
    BY DEF Init
  <2> QED
    BY <1>1, <2>1 DEF Clocked
<1>3. incident \in [Incidents -> Clocked]
  <2>1. incident = [i \in Incidents |-> incident[i]]
    BY DEF Init
  <2> QED
    BY <1>2, <2>1
<1>4. fired \subseteq Keys
  BY DEF Init, Keys
<1> QED
  BY <1>1, <1>3, <1>4 DEF Init, IInv, Typed

\* The inductive invariant.
THEOREM Invariance == Spec => []IInv
<1>1. ASSUME IInv, [Next]_vars
      PROVE  IInv'
  <2>1. CASE \E i \in Incidents : Acknowledge(i) \/ Close(i) \/ ChangeSeverity(i) \/ InsertEvent(i)
    BY <1>1, <2>1, AcknowledgeKeeps, CloseKeeps, ChangeSeverityKeeps, InsertEventKeeps
  <2>2. CASE CommitEscalation \/ RollBack \/ SetClearance
    BY <1>1, <2>2, CommitEscalationKeeps, RollBackKeeps, SetClearanceKeeps
  <2>3. CASE BeginWalk \/ ContinueWalk \/ ReadPage \/ Answer \/ AnswerFails
    BY <1>1, <2>3, BeginWalkKeeps, ContinueWalkKeeps, ReadPageKeeps, AnswerKeeps, AnswerFailsKeeps
  <2>4. CASE UNCHANGED vars
    <3>1. UNCHANGED <<incident, fired, open, clearance, walk, moves>>
      BY <2>4 DEF vars
    <3>2. Typed' = Typed /\ PageFits(walk)' = PageFits(walk) /\ Settled(walk)' = Settled(walk)
          /\ \A i \in Incidents : Owed(walk, i)' = Owed(walk, i)
      BY <3>1 DEF Typed, PageFits, Settled, Owed, Due, Listed, ActivelyEscalated, CurrentKey, Position
    <3> QED
      BY <1>1, <3>1, <3>2 DEF IInv
  <2> QED
    BY <1>1, <2>1, <2>2, <2>3, <2>4 DEF Next
<1> QED
  BY <1>1, InitIInv, PTL DEF Spec

\* Types: among them, that no page has more rows than were asked for (listFeed's slice).
THEOREM TypeCorrect == Spec => []TypeOK
<1>1. IInv => TypeOK
  <2> SUFFICES ASSUME IInv PROVE TypeOK
    OBVIOUS
  <2>0. Typed
    BY DEF IInv
  <2>1. ASSUME walk # NoWalk
        PROVE  IsWalk(walk)
    <3>1. walk \in WalkState /\ Cardinality(walk.rows) <= PageSize
      BY <2>1, UnderWay DEF PageFits
    <3> QED
      BY <3>1 DEF IsWalk, WalkState
  <2> QED
    BY <2>0, <2>1 DEF TypeOK, Typed, OpenState
<1> QED
  BY <1>1, Invariance, PTL

\* The keyset walk of listFeed is complete for incidents with a clock: one that stays on
\* the reader's list and is not escalated past the cursor is shown before the last page
\* ends, whatever is acknowledged, regraded, closed or escalated meanwhile, whatever the
\* clearance, and whichever pages fail.  A row without a clock is owed nothing: a cursor
\* of its level does not reach it.
THEOREM NobodyIsMissed == Spec => NobodyMissed
<1>1. ASSUME IInv, Answer, walk' = NoWalk
      PROVE  Incidents \ walk.ahead \subseteq walk.shown \union Answered
  <2>1. walk # NoWalk /\ walk.pc = "join"
    BY <1>1 DEF Answer, NoWalk
  <2>2. ~walk.more
    <3>1. ASSUME walk.more PROVE FALSE
      <4>1. walk'.pc = "between"
        <5>1. walk \in WalkState
          BY <1>1, <2>1, UnderWay
        <5> QED
          BY <1>1, <3>1, <5>1 DEF Answer, Walks, WalkState
      <4> QED
        BY <1>1, <4>1 DEF NoWalk
    <3> QED
      BY <3>1
  <2>3. ASSUME NEW i \in Incidents \ walk.ahead
        PROVE  i \in walk.shown \union Answered
    <3>1. Owed(walk, i)
      BY <1>1, <2>1, UnderWay
    <3> QED
      BY <2>1, <2>2, <3>1 DEF Owed, Answered, Items
  <2> QED
    BY <2>3
<1>2. IInv /\ [Next]_vars => [Answer /\ walk' = NoWalk => Incidents \ walk.ahead \subseteq walk.shown \union Answered]_vars
  BY <1>1
<1> QED
  BY <1>2, Invariance, PTL DEF Spec, NobodyMissed

\* Nothing is shown twice in a walk of listFeed unless it fell behind meanwhile.
THEOREM ShownAtMostOnce == Spec => ShownOnce
<1>1. ASSUME IInv, Answer
      PROVE  walk.shown \intersect Answered \subseteq walk.behind
  <2>1. walk # NoWalk /\ walk.pc = "join"
    BY <1>1 DEF Answer, NoWalk
  <2>2. Settled(walk)
    BY <1>1, <2>1, UnderWay
  <2> QED
    BY <2>1, <2>2 DEF Settled, Answered, Items
<1>2. IInv /\ [Next]_vars => [Answer => walk.shown \intersect Answered \subseteq walk.behind]_vars
  BY <1>1
<1> QED
  BY <1>2, Invariance, PTL DEF Spec, ShownOnce

===============================================================================
