------------------------- MODULE IncidentLists_proofs -------------------------
(***************************************************************************)
(* Theorems of IncidentLists and Analytics, for any incidents, lists,      *)
(* filters, queries and page size.                                         *)
(*                                                                         *)
(* The argument counts the rows before a row in the order of the list.  A  *)
(* row that shares its key with none has its place by that number alone,   *)
(* whatever order the database chooses (PlaceIsCount), and so is on the    *)
(* page that reaches so far (PageHasRow).  A row that is due and not shown *)
(* yet has at least as many rows before it as the walk has skipped, unless *)
(* a row left; one that was shown has fewer, unless a row came (PlaceFits). *)
(*                                                                         *)
(* The sums of the reports are folds, and hence recursive functions.  That *)
(* such a function counts the rows of its groups follows from the counting *)
(* function itself being a solution of the recursion, and from no smallest *)
(* set of groups on which two solutions differ (SumOfGroups).              *)
(***************************************************************************)
EXTENDS Analytics, FiniteSetTheorems, TLAPS

Typed ==
  /\ DOMAIN table \subseteq Incidents /\ \A i \in DOMAIN table : table[i] \in Columns
  /\ clearance \in Clearances
  /\ walk \in Walks \union {NoWalk}
  /\ moves \in 0..MaxMoves

\* What the list of the walk holds, and those of it that come before i.
Rows == Listed(table, walk.read, walk.actor)

Before(i) == {j \in Rows : Precedes(walk.read, j, i)}

\* How many rows the pages so far have had room for.
Passed == Skip(IF walk.pc \in {"count", "find"} THEN walk.page ELSE walk.page + 1)

PlaceFits(i) ==
  /\ ~walk.left /\ walk.shown[i] = 0 => Passed <= Cardinality(Before(i))
  /\ ~walk.came /\ walk.shown[i] > 0 => Cardinality(Before(i)) < Passed
  /\ walk.shown[i] > 1 => walk.came
  /\ walk.pc = "done" /\ walk.shown[i] = 0 => walk.left \/ walk.torn

WalkFits ==
  walk # NoWalk =>
    /\ walk.due \subseteq Rows
    /\ Cardinality(walk.items) <= PageSize
    /\ walk.pc = "find" /\ ~walk.torn => walk.total = Cardinality(Rows)
    /\ \A i \in walk.due \ walk.tied : PlaceFits(i)

IInv == Typed /\ WalkFits

-------------------------------------------------------------------------------
(* Pages in numbers.                                                        *)

LEMMA SkipFacts ==
  ASSUME NEW page \in Nat \ {0}
  PROVE  /\ Skip(page) \in Nat /\ Skip(page + 1) \in Nat /\ Skip(1) = 0
         /\ Skip(page + 1) = Skip(page) + PageSize
<1>1. PageSize \in Nat \ {0}
  BY ListsAssumption
<1>2. Skip(page) = (page - 1) * PageSize /\ Skip(page + 1) = page * PageSize /\ Skip(1) = 0 * PageSize
  BY DEF Skip
<1>3. PICK k \in Nat : page = k + 1
  <2>1. page - 1 \in Nat /\ page = (page - 1) + 1
    OBVIOUS
  <2> QED
    BY <2>1
<1>4. Skip(page) = k * PageSize /\ Skip(page + 1) = (k + 1) * PageSize
  BY <1>2, <1>3
<1>5. k * PageSize \in Nat /\ (k + 1) * PageSize = k * PageSize + PageSize /\ 0 * PageSize = 0
  BY <1>1
<1> QED
  BY <1>1, <1>2, <1>4, <1>5

\* The last page by buildOffsetPage reaches to the end of the list.
LEMMA LastPageReaches ==
  ASSUME NEW page \in Nat \ {0}, NEW total \in Nat, ~(page < TotalPages(total))
  PROVE  total <= Skip(page + 1)
<1> DEFINE pages == (total + PageSize - 1) \div PageSize
<1>1. PageSize \in Nat \ {0}
  BY ListsAssumption
<1>2. pages \in Nat /\ total + PageSize - 1 < PageSize * (pages + 1)
  BY <1>1
<1>3. pages <= page
  <2> HIDE DEF pages
  <2>1. TotalPages(total) = IF pages = 0 THEN 1 ELSE pages
    BY DEF TotalPages, pages
  <2> QED
    BY <1>2, <2>1
<1> HIDE DEF pages
<1>4. PageSize * (pages + 1) = PageSize * pages + PageSize /\ PageSize * pages \in Nat
  BY <1>1, <1>2
<1>5. total <= PageSize * pages
  BY <1>1, <1>2, <1>4
<1>6. PageSize * pages <= PageSize * page /\ PageSize * page \in Nat
  BY <1>1, <1>2, <1>3
<1>7. Skip(page + 1) = PageSize * page
  BY <1>1 DEF Skip
<1> QED
  BY <1>4, <1>5, <1>6, <1>7

-------------------------------------------------------------------------------
(* Lists and their order.                                                   *)

LEMMA ReadParts ==
  ASSUME NEW r \in Reads
  PROVE  /\ r.list \in Lists /\ r.sort \in {"createdAt", "severity", "updatedAt"}
         /\ r.order \in {"asc", "desc"}
  BY ListsAssumption

LEMMA ColumnParts ==
  ASSUME NEW row \in Columns
  PROVE  /\ row.level \in Nat /\ row.updatedAt \in Nat /\ row.severity \in Severities
         /\ SeverityRank(row.severity) \in 1..4
<1>1. /\ SeverityRank("LOW") = 1 /\ SeverityRank("MEDIUM") = 2
      /\ SeverityRank("HIGH") = 3 /\ SeverityRank("CRITICAL") = 4
  BY DEF SeverityRank
<1>2. row.severity \in Severities /\ row.updatedAt \in Nat /\ row.level \in 0..MaxLevel
  BY DEF Columns
<1>3. SeverityRank(row.severity) \in 1..4
  BY <1>1, <1>2 DEF Severities
<1>4. row.level \in Nat
  BY <1>2, ListsAssumption
<1> QED
  BY <1>2, <1>3, <1>4

\* A list holds a row for its own columns, whatever the others are.
LEMMA ListedByRow ==
  ASSUME NEW r \in Reads, NEW c, NEW t, NEW u, NEW i \in DOMAIN t, i \in DOMAIN u, t[i] = u[i]
  PROVE  i \in Listed(t, r, c) <=> i \in Listed(u, r, c)
<1>1. i \in VisibilityScope(t, c) <=> i \in VisibilityScope(u, c)
  BY DEF VisibilityScope
<1>2. r.list \in Lists
  BY ReadParts
<1>3. CASE r.list = "incidents"
  BY <1>1, <1>3 DEF Listed, BuildWhere
<1>4. CASE r.list = "mine"
  BY <1>1, <1>4 DEF Listed, MineWhere
<1>5. CASE r.list = "investigations"
  BY <1>1, <1>5 DEF Listed, MyInvestigationsWhere
<1>6. CASE r.list = "triageQueue"
  BY <1>1, <1>6 DEF Listed, TriageQueueWhere
<1>7. CASE r.list = "closuresPending"
  BY <1>1, <1>7 DEF Listed, ClosuresPendingWhere
<1> QED
  BY <1>2, <1>3, <1>4, <1>5, <1>6, <1>7 DEF Lists

LEMMA ListedInTable ==
  ASSUME NEW r \in Reads, NEW c, NEW t
  PROVE  Listed(t, r, c) \subseteq DOMAIN t
<1>1. VisibilityScope(t, c) \subseteq DOMAIN t
  BY DEF VisibilityScope
<1>2. r.list \in Lists
  BY ReadParts
<1>3. CASE r.list = "incidents"
  BY <1>1, <1>3 DEF Listed, BuildWhere
<1>4. CASE r.list = "mine"
  BY <1>1, <1>4 DEF Listed, MineWhere
<1>5. CASE r.list = "investigations"
  BY <1>1, <1>5 DEF Listed, MyInvestigationsWhere
<1>6. CASE r.list = "triageQueue"
  BY <1>1, <1>6 DEF Listed, TriageQueueWhere
<1>7. CASE r.list = "closuresPending"
  BY <1>1, <1>7 DEF Listed, ClosuresPendingWhere
<1> QED
  BY <1>2, <1>3, <1>4, <1>5, <1>6, <1>7 DEF Lists

\* No row comes before itself.
LEMMA Irreflexive ==
  ASSUME Typed, NEW r \in Reads, NEW i \in DOMAIN table
  PROVE  ~Precedes(r, i, i)
<1>1. table[i] \in Columns /\ CreatedAt[i] \in Nat
  BY ListsAssumption DEF Typed
<1>2. /\ table[i].level \in Nat /\ table[i].updatedAt \in Nat
      /\ SeverityRank(table[i].severity) \in 1..4
  BY <1>1, ColumnParts
<1>3. SortKey(r.sort, i) \in Int
  BY <1>1, <1>2, ReadParts DEF SortKey
<1>4. r.list \in Lists
  BY ReadParts
<1>5. CASE r.list = "incidents"
  BY <1>3, <1>5 DEF Precedes
<1>6. ~(CreatedAt[i] > CreatedAt[i])
  BY <1>1
<1>7. CASE r.list = "mine"
  BY <1>6, <1>7 DEF Precedes
<1>8. CASE r.list = "investigations"
  BY <1>6, <1>8 DEF Precedes
<1>9. CASE r.list = "triageQueue"
  BY <1>1, <1>2, <1>9 DEF Precedes
<1>10. CASE r.list = "closuresPending"
  BY <1>2, <1>10 DEF Precedes
<1> QED
  BY <1>4, <1>5, <1>7, <1>8, <1>9, <1>10 DEF Lists

\* An order lists each row once.
LEMMA OrderFacts ==
  ASSUME NEW r, NEW rows, IsFiniteSet(rows), NEW order \in Orders(r, rows)
  PROVE  /\ order \in [1..Cardinality(rows) -> rows] /\ Cardinality(rows) \in Nat
         /\ \A p, q \in 1..Cardinality(rows) : p < q => ~Precedes(r, order[q], order[p])
         /\ \A p, q \in 1..Cardinality(rows) : order[p] = order[q] => p = q
         /\ \A i \in rows : \E p \in 1..Cardinality(rows) : order[p] = i
<1> DEFINE n == Cardinality(rows)
<1>1. n \in Nat
  BY FS_CardinalityType
<1>2. /\ order \in [1..n -> rows]
      /\ \A p, q \in 1..n : p < q => order[p] # order[q] /\ ~Precedes(r, order[q], order[p])
  BY DEF Orders
<1> HIDE DEF n
<1>3. \A p, q \in 1..n : order[p] = order[q] => p = q
  <2> SUFFICES ASSUME NEW p \in 1..n, NEW q \in 1..n, p # q PROVE order[p] # order[q]
    OBVIOUS
  <2>1. p < q \/ q < p
    BY <1>1
  <2> QED
    BY <1>2, <2>1
<1>4. order \in Injection(1..n, rows)
  BY <1>2, <1>3 DEF Injection, IsInjective
<1>5. IsFiniteSet(1..n) /\ Cardinality(1..n) = n
  BY <1>1, FS_Interval
<1>6. order \in Surjection(1..n, rows)
  BY <1>4, <1>5, FS_Injection DEF n
<1>7. \A i \in rows : \E p \in 1..n : order[p] = i
  BY <1>6 DEF Surjection
<1> QED
  BY <1>1, <1>2, <1>3, <1>7 DEF n

\* A row that ties with none has its place by how many come before it.
LEMMA PlaceIsCount ==
  ASSUME NEW r, NEW rows, IsFiniteSet(rows), NEW order \in Orders(r, rows),
         NEW p \in 1..Cardinality(rows), order[p] \notin Tied(r, rows),
         ~Precedes(r, order[p], order[p])
  PROVE  Cardinality({j \in rows : Precedes(r, j, order[p])}) = p - 1
<1> DEFINE n == Cardinality(rows)
           i == order[p]
           before == {j \in rows : Precedes(r, j, i)}
           f == [q \in 1..(p - 1) |-> order[q]]
<1>1. n \in Nat /\ p \in 1..n
  BY OrderFacts
<1>2. /\ order \in [1..n -> rows]
      /\ \A q, s \in 1..n : q < s => ~Precedes(r, order[s], order[q])
      /\ \A q, s \in 1..n : order[q] = order[s] => q = s
      /\ \A j \in rows : \E q \in 1..n : order[q] = j
  BY OrderFacts
<1>3. i \in rows
  BY <1>1, <1>2
<1> HIDE DEF n
<1>4. ASSUME NEW q \in 1..(p - 1)
      PROVE  q \in 1..n /\ order[q] \in before
  <2>1. q \in 1..n /\ q < p
    BY <1>1
  <2>2. order[q] # i /\ order[q] \in rows /\ ~Precedes(r, i, order[q])
    BY <1>1, <1>2, <2>1
  <2>3. Precedes(r, order[q], i)
    BY <1>3, <2>2 DEF Tied
  <2> QED
    BY <2>1, <2>2, <2>3
<1>5. ASSUME NEW j \in before
      PROVE  \E q \in 1..(p - 1) : order[q] = j
  <2>1. PICK q \in 1..n : order[q] = j
    BY <1>2, <1>5
  <2>2. Precedes(r, order[q], order[p])
    BY <1>5, <2>1
  <2>3. ~(p < q) /\ p # q
    BY <1>1, <1>2, <2>1, <2>2
  <2>4. q \in 1..(p - 1)
    BY <1>1, <2>1, <2>3
  <2> QED
    BY <2>1, <2>4
<1>6. /\ f \in [1..(p - 1) -> before]
      /\ \A q, s \in 1..(p - 1) : f[q] = f[s] => q = s
      /\ \A j \in before : \E q \in 1..(p - 1) : f[q] = j
  BY <1>2, <1>4, <1>5
<1> HIDE DEF f, before
<1>7. f \in Bijection(1..(p - 1), before)
  BY <1>6 DEF Bijection, Injection, IsInjective, Surjection
<1>8. ExistsBijection(1..(p - 1), before) /\ p - 1 \in Nat
  BY <1>1, <1>7 DEF ExistsBijection
<1>9. Cardinality(before) = p - 1
  BY <1>8, FS_CountingElements
<1> QED
  BY <1>9 DEF before

\* A page has as many rows as asked for, and a row that ties with none if as many rows
\* are before it as the page skips, and not as many as it reaches.
LEMMA PageHasRow ==
  ASSUME NEW r, NEW rows, IsFiniteSet(rows), NEW page \in Nat \ {0},
         NEW items \in PagesOf(r, rows, page)
  PROVE  /\ items \subseteq rows /\ Cardinality(items) <= PageSize
         /\ \A i \in rows : i \notin Tied(r, rows) /\ ~Precedes(r, i, i) =>
              LET before == Cardinality({j \in rows : Precedes(r, j, i)})
              IN  before \in Nat
                    /\ (i \in items <=> Skip(page) <= before /\ before < Skip(page + 1))
<1> DEFINE n == Cardinality(rows)
<1>1. PICK order \in Orders(r, rows) :
        items = {order[p] : p \in {q \in DOMAIN order : q > Skip(page) /\ q <= Skip(page) + PageSize}}
  BY DEF PagesOf
<1>2. /\ order \in [1..n -> rows] /\ n \in Nat
      /\ \A q, s \in 1..n : order[q] = order[s] => q = s
      /\ \A j \in rows : \E q \in 1..n : order[q] = j
  BY OrderFacts
<1>3. /\ Skip(page) \in Nat /\ Skip(page + 1) = Skip(page) + PageSize /\ PageSize \in Nat
  BY SkipFacts, ListsAssumption
<1> DEFINE places == {q \in 1..n : q > Skip(page) /\ q <= Skip(page) + PageSize}
           f == [q \in places |-> order[q]]
<1>4. items = {order[p] : p \in places}
  BY <1>1, <1>2
<1>5. items \subseteq rows
  BY <1>2, <1>4
<1>6. Cardinality(items) <= PageSize
  <2> DEFINE span == (Skip(page) + 1)..(Skip(page) + PageSize)
  <2>1. IsFiniteSet(span) /\ Cardinality(span) = PageSize
    <3>1. /\ Skip(page) + 1 \in Int /\ Skip(page) + PageSize \in Int
          /\ ~(Skip(page) + 1 > Skip(page) + PageSize)
          /\ (Skip(page) + PageSize) - (Skip(page) + 1) + 1 = PageSize
      BY <1>3, ListsAssumption
    <3>2. /\ IsFiniteSet(span)
          /\ Cardinality(span) = (Skip(page) + PageSize) - (Skip(page) + 1) + 1
      BY <3>1, FS_Interval
    <3> QED
      BY <3>1, <3>2
  <2>2. places \subseteq span
    BY <1>2, <1>3
  <2>3. IsFiniteSet(places) /\ Cardinality(places) <= PageSize
    BY <2>1, <2>2, FS_Subset
  <2>4. f \in [places -> items] /\ \A j \in items : \E q \in places : f[q] = j
    BY <1>4
  <2> HIDE DEF f, places
  <2>5. f \in Surjection(places, items)
    BY <2>4 DEF Surjection
  <2>6. IsFiniteSet(items) /\ Cardinality(items) <= Cardinality(places)
    BY <2>3, <2>5, FS_Surjection
  <2>7. Cardinality(items) \in Nat /\ Cardinality(places) \in Nat
    BY <2>3, <2>6, FS_CardinalityType
  <2> QED
    BY <1>3, <2>3, <2>6, <2>7
<1>7. ASSUME NEW i \in rows, i \notin Tied(r, rows), ~Precedes(r, i, i)
      PROVE  LET before == Cardinality({j \in rows : Precedes(r, j, i)})
             IN  before \in Nat
                   /\ (i \in items <=> Skip(page) <= before /\ before < Skip(page + 1))
  <2> DEFINE before == Cardinality({j \in rows : Precedes(r, j, i)})
  <2>1. PICK p \in 1..n : order[p] = i
    BY <1>2
  <2>2. before = p - 1
    BY <1>7, <2>1, PlaceIsCount
  <2>3. i \in items <=> p \in places
    BY <1>2, <1>4, <2>1
  <2> HIDE DEF before
  <2>4. before \in Nat /\ (p \in places <=> Skip(page) <= before /\ before < Skip(page + 1))
    BY <1>2, <1>3, <2>2
  <2> QED
    BY <2>3, <2>4 DEF before
<1> QED
  BY <1>5, <1>6, <1>7

-------------------------------------------------------------------------------
(* The columns a write leaves.                                              *)

\* Columns before Changed has set the escalation cycle and updatedAt.
Loose == [severity : Severities, stage : Stages, assignee : {NoUser, Me, Other},
          clockSet : BOOLEAN, cycle : Nat, acked : BOOLEAN, rca : BOOLEAN,
          level : 0..MaxLevel, updatedAt : Nat, escalated : BOOLEAN]

LEMMA LooseRows ==
  ASSUME NEW row \in Columns
  PROVE  /\ row \in Loose /\ Triaged(row) \in Loose /\ Unassigned(row, row) \in Loose
         /\ Acknowledged(row) \in Loose /\ Proposed(row) \in Loose
         /\ Approved(row) \in Loose /\ Rejected(row) \in Loose
         /\ \A who \in {Me, Other} : Assigned(row, row, who) \in Loose
<1>1. row \in Loose
  BY DEF Columns, Loose
<1>2. Triaged(row) \in Loose
  BY <1>1 DEF Triaged, Loose, Stages
<1>3. Unassigned(row, row) \in Loose
  BY <1>1 DEF Unassigned, Loose, Stages
<1>4. Acknowledged(row) \in Loose
  BY <1>1 DEF Acknowledged, Loose
<1>5. Proposed(row) \in Loose
  BY <1>1 DEF Proposed, Loose, Stages
<1>6. Approved(row) \in Loose
  BY <1>1 DEF Approved, Loose, Stages
<1>7. Rejected(row) \in Loose
  BY <1>1 DEF Rejected, Loose, Stages
<1>8. ASSUME NEW who \in {Me, Other} PROVE Assigned(row, row, who) \in Loose
  BY <1>1, <1>8 DEF Assigned, Loose, Stages
<1> QED
  BY <1>1, <1>2, <1>3, <1>4, <1>5, <1>6, <1>7, <1>8

LEMMA RegradedRow ==
  ASSUME NEW row \in Columns, NEW s \in Severities, NEW dropped
  PROVE  LET clock == ApplySeverityChange([severity |-> row.severity, since |-> 0, level |-> row.level,
                                           cycle |-> 0, acked |-> row.acked], s, 0)
         IN  [SeverityChanged(row, row, s, dropped) EXCEPT !.level = clock.level] \in Loose
<1> DEFINE seen == [severity |-> row.severity, since |-> 0, level |-> row.level,
                    cycle |-> 0, acked |-> row.acked]
           clock == ApplySeverityChange(seen, s, 0)
           rule  == ClockRule(row.severity, s)
           set   == rule = "restart" \/ (rule = "keep" /\ row.clockSet)
           cycle == IF rule = "restart" THEN row.cycle + 1 ELSE row.cycle
           ack   == rule # "restart" /\ row.acked
           who   == IF dropped # NoUser THEN NoUser ELSE row.assignee
           stage == IF dropped # NoUser /\ row.stage = "INVESTIGATION" THEN "TRIAGE" ELSE row.stage
<1>1. row \in Loose
  BY LooseRows
<1>2. set \in BOOLEAN /\ ack \in BOOLEAN
  OBVIOUS
<1>3. cycle \in Nat
  BY <1>1 DEF Loose
<1>4. who \in {NoUser, Me, Other} /\ stage \in Stages
  BY <1>1 DEF Loose, Stages
<1>5. SeverityChanged(row, row, s, dropped) =
        [row EXCEPT !.severity = s, !.clockSet = set, !.cycle = cycle,
                    !.acked = ack, !.assignee = who, !.stage = stage]
  BY Zenon DEF SeverityChanged
<1>6. clock.level \in 0..MaxLevel
  <2>1. seen.level = row.level /\ row.level \in 0..MaxLevel /\ 0 \in 0..MaxLevel
    BY <1>1, ListsAssumption DEF Loose
  <2> HIDE DEF seen
  <2>2. clock.level = row.level \/ clock.level = 0
    BY <2>1 DEF ApplySeverityChange
  <2> QED
    BY <2>1, <2>2
<1> HIDE DEF set, cycle, ack, who, stage, rule, clock
<1>7. SeverityChanged(row, row, s, dropped) \in Loose
  BY ZenonT(60), <1>1, <1>2, <1>3, <1>4, <1>5 DEF Loose
<1>8. [SeverityChanged(row, row, s, dropped) EXCEPT !.level = clock.level] \in Loose
  BY <1>6, <1>7 DEF Loose
<1> QED
  BY <1>8 DEF clock, seen

LEMMA ReportedRow ==
  ASSUME NEW i \in Incidents, NEW s \in SeverityInputs
  PROVE  LET new == NewRow(s)
         IN  [severity |-> s, stage |-> new.stage, assignee |-> new.assignee,
              clockSet |-> new.clockSet, cycle |-> 0, acked |-> new.acked, rca |-> new.rca,
              level |-> 0, updatedAt |-> CreatedAt[i], escalated |-> FALSE] \in Columns
<1> DEFINE new == NewRow(s)
<1>1. new.stage = "REPORTED" /\ new.assignee = NoUser /\ new.acked = FALSE /\ new.rca = FALSE
  BY DEF NewRow
<1>2. new.clockSet \in BOOLEAN
  BY DEF NewRow, InHighBand
<1>3. s \in Severities /\ CreatedAt[i] \in Nat /\ 0 \in 0..MaxLevel
  BY ListsAssumption
<1> HIDE DEF new
<1>4. [severity |-> s, stage |-> new.stage, assignee |-> new.assignee,
       clockSet |-> new.clockSet, cycle |-> 0, acked |-> new.acked, rca |-> new.rca,
       level |-> 0, updatedAt |-> CreatedAt[i], escalated |-> FALSE] \in Columns
  BY <1>1, <1>2, <1>3 DEF Columns, Stages
<1> QED
  BY <1>4 DEF new

\* Incidents have a latest creation time: nothing is after it when fewest are.
LEMMA LatestIsTime ==
  ASSUME Incidents # {}
  PROVE  Latest \in Nat
<1> DEFINE later(i) == {j \in Incidents : CreatedAt[i] < CreatedAt[j]}
           T == {later(i) : i \in Incidents}
<1>1. T \subseteq SUBSET Incidents /\ T # {}
  OBVIOUS
<1>2. IsWellFoundedOn(StrictSubsetOrdering(Incidents), SUBSET Incidents)
  BY FS_StrictSubsetOrderingWellFounded, FS_FiniteSubsetsOfFinite, ListsAssumption
<1>3. PICK U \in T : \A V \in T : ~(<<V, U>> \in StrictSubsetOrdering(Incidents))
  <2> HIDE DEF T
  <2> QED
    BY <1>1, <1>2, WFMin
<1>4. PICK i \in Incidents : U = later(i)
  BY <1>3
<1>5. ASSUME NEW j \in Incidents, CreatedAt[i] < CreatedAt[j]
      PROVE  FALSE
  <2>1. later(j) \subseteq U /\ j \in U /\ j \notin later(j)
    <3>1. /\ \A k \in Incidents : CreatedAt[k] \in Nat
          /\ \A k \in Incidents : CreatedAt[j] < CreatedAt[k] => CreatedAt[i] < CreatedAt[k]
      BY <1>5, ListsAssumption
    <3> QED
      BY <1>4, <1>5, <3>1
  <2>2. later(j) \in T /\ <<later(j), U>> \in (SUBSET Incidents) \X (SUBSET Incidents)
    BY <1>1, <1>3
  <2> HIDE DEF later
  <2>3. <<later(j), U>> \in StrictSubsetOrdering(Incidents)
    BY <2>1, <2>2 DEF StrictSubsetOrdering
  <2> QED
    BY <1>3, <2>2, <2>3
<1>6. \A j \in Incidents : CreatedAt[j] \in Nat
  BY ListsAssumption
<1>7. \E t \in {CreatedAt[j] : j \in Incidents} : \A j \in Incidents : CreatedAt[j] <= t
  <2>1. \A j \in Incidents : CreatedAt[j] <= CreatedAt[i]
    BY <1>5, <1>6
  <2> QED
    BY <2>1
<1>8. Latest \in {CreatedAt[j] : j \in Incidents}
  BY <1>7 DEF Latest
<1> QED
  BY <1>6, <1>8

LEMMA ChangedRow ==
  ASSUME Typed, NEW i \in Incidents, NEW row \in Loose
  PROVE  [row EXCEPT !.cycle = 0, !.updatedAt = Latest + moves + 1] \in Columns
<1>1. Latest + moves + 1 \in Nat
  BY LatestIsTime, ListsAssumption DEF Typed
<1> HIDE DEF Latest
<1> QED
  BY <1>1 DEF Loose, Columns

-------------------------------------------------------------------------------
(* The initial states.                                                      *)

LEMMA InvariantInit == Init => IInv
<1> SUFFICES ASSUME Init PROVE IInv
  OBVIOUS
<1>1. PICK there \in SUBSET Incidents : table \in [there -> FirstRows]
  BY DEF Init
<1>2. DOMAIN table \subseteq Incidents /\ \A i \in DOMAIN table : table[i] \in Columns
  BY <1>1, ListsAssumption
<1>3. clearance \in Clearances /\ walk = NoWalk /\ moves \in 0..MaxMoves
  BY ListsAssumption DEF Init
<1> QED
  BY <1>2, <1>3 DEF IInv, Typed, WalkFits

-------------------------------------------------------------------------------
(* What the walk is at.                                                     *)

\* A walk that is not over has the fields of one, and its list is finite.
LEMMA UnderWay ==
  ASSUME IInv, walk # NoWalk
  PROVE  /\ walk \in Walks /\ walk.read \in Reads /\ walk.page \in Nat \ {0}
         /\ walk.shown \in [Incidents -> 0..2]
         /\ Rows \subseteq DOMAIN table /\ Rows \subseteq Incidents /\ IsFiniteSet(Rows)
         /\ Cardinality(Rows) \in Nat /\ Passed \in Nat
         /\ \A i \in Rows : IsFiniteSet(Before(i)) /\ Cardinality(Before(i)) \in Nat
<1>1. walk \in Walks
  BY DEF IInv, Typed
<1>2. walk.read \in Reads /\ walk.page \in Nat \ {0} /\ walk.shown \in [Incidents -> 0..2]
  BY <1>1 DEF Walks
<1>3. Rows \subseteq DOMAIN table
  BY <1>2, ListedInTable DEF Rows
<1>4. Rows \subseteq Incidents
  BY <1>3 DEF IInv, Typed
<1>5. IsFiniteSet(Rows) /\ Cardinality(Rows) \in Nat
  BY <1>4, FS_Subset, FS_CardinalityType, ListsAssumption
<1>6. \A i \in Rows : IsFiniteSet(Before(i)) /\ Cardinality(Before(i)) \in Nat
  <2> SUFFICES ASSUME NEW i \in Rows PROVE IsFiniteSet(Before(i)) /\ Cardinality(Before(i)) \in Nat
    OBVIOUS
  <2>1. Before(i) \subseteq Rows
    BY DEF Before
  <2> QED
    BY <1>5, <2>1, FS_Subset, FS_CardinalityType
<1>7. Passed \in Nat
  BY <1>2, SkipFacts DEF Passed
<1> QED
  BY <1>1, <1>2, <1>3, <1>4, <1>5, <1>6, <1>7

\* A row keeps its place in a step that shows nothing, as long as the rows before it
\* only leave or only come as the walk notes.
LEMMA PlaceStays ==
  ASSUME IInv, walk # NoWalk, NEW j \in Rows, PlaceFits(j), IsFiniteSet(Before(j)'),
         walk'.shown = walk.shown, Passed' = Passed,
         walk'.pc = "done" => walk.pc = "done",
         walk.left => walk'.left, walk.came => walk'.came, walk.torn => walk'.torn,
         ~walk'.left => Before(j) \subseteq Before(j)',
         ~walk'.came => Before(j)' \subseteq Before(j)
  PROVE  PlaceFits(j)'
<1>1. /\ Passed \in Nat /\ IsFiniteSet(Before(j)) /\ Cardinality(Before(j)) \in Nat
      /\ Cardinality(Before(j)') \in Nat
  BY UnderWay, FS_CardinalityType
<1>2. ~walk'.left => Cardinality(Before(j)) <= Cardinality(Before(j)')
  BY FS_Subset
<1>3. ~walk'.came => Cardinality(Before(j)') <= Cardinality(Before(j))
  BY <1>1, FS_Subset
<1>4. ~walk'.left /\ walk'.shown[j] = 0 => Passed' <= Cardinality(Before(j)')
  BY <1>1, <1>2 DEF PlaceFits
<1>5. ~walk'.came /\ walk'.shown[j] > 0 => Cardinality(Before(j)') < Passed'
  BY <1>1, <1>3 DEF PlaceFits
<1>6. /\ walk'.shown[j] > 1 => walk'.came
      /\ walk'.pc = "done" /\ walk'.shown[j] = 0 => walk'.left \/ walk'.torn
  BY DEF PlaceFits
<1>7. Cardinality(Before(j))' = Cardinality(Before(j)')
  OBVIOUS
<1> QED
  BY <1>4, <1>5, <1>6, <1>7 DEF PlaceFits

-------------------------------------------------------------------------------
(* The writes.                                                              *)

\* A write changes how two rows compare only if it changes the key of one of them.
LEMMA PrecedesKept ==
  ASSUME NEW r \in Reads, NEW i \in Incidents, NEW row \in Columns,
         table' = [j \in DOMAIN table \union {i} |-> IF j = i THEN row ELSE table[j]],
         NEW a \in DOMAIN table, NEW b \in DOMAIN table,
         i \in {a, b} => SameKey(r, i, row)
  PROVE  Precedes(r, a, b)' <=> Precedes(r, a, b)
<1>1. /\ \A j \in DOMAIN table : j # i => table'[j] = table[j]
      /\ table'[i] = row
  OBVIOUS
<1>2. r.list \in Lists /\ r.sort \in {"createdAt", "severity", "updatedAt"}
  BY ReadParts
<1>3. CASE r.list = "incidents"
  <2>1. \A x \in {a, b} : SortKey(r.sort, x)' = SortKey(r.sort, x)
    <3> SUFFICES ASSUME NEW x \in {a, b} PROVE SortKey(r.sort, x)' = SortKey(r.sort, x)
      OBVIOUS
    <3>1. x \in DOMAIN table /\ (x = i => SameKey(r, i, row))
      OBVIOUS
    <3>2. CASE r.sort = "createdAt"
      BY <3>2 DEF SortKey
    <3>3. CASE r.sort = "severity"
      <4>1. table'[x].severity = table[x].severity
        BY <1>1, <1>3, <3>1, <3>3 DEF SameKey
      <4> QED
        BY <3>3, <4>1 DEF SortKey
    <3>4. CASE r.sort = "updatedAt"
      <4>1. x # i
        BY <1>3, <3>1, <3>4 DEF SameKey
      <4>2. table'[x] = table[x]
        BY <1>1, <3>1, <4>1
      <4> QED
        BY <3>4, <4>2 DEF SortKey
    <3> QED
      BY <1>2, <3>2, <3>3, <3>4
  <2>2. SortKey(r.sort, a)' = SortKey(r.sort, a) /\ SortKey(r.sort, b)' = SortKey(r.sort, b)
    BY <2>1
  <2> QED
    BY <1>3, <2>2 DEF Precedes
<1>4. CASE r.list = "mine"
  BY <1>4 DEF Precedes
<1>5. CASE r.list = "investigations"
  BY <1>5 DEF Precedes
<1>6. CASE r.list = "triageQueue"
  <2>1. \A x \in {a, b} : table'[x].level = table[x].level
    BY <1>1, <1>6 DEF SameKey
  <2> QED
    BY <1>6, <2>1 DEF Precedes
<1>7. CASE r.list = "closuresPending"
  <2>1. i \notin {a, b}
    BY <1>7 DEF SameKey
  <2>2. table'[a] = table[a] /\ table'[b] = table[b]
    BY <1>1, <2>1
  <2> QED
    BY <1>7, <2>2 DEF Precedes
<1> QED
  BY <1>2, <1>3, <1>4, <1>5, <1>6, <1>7 DEF Lists

\* A write moves at most one row, and the walk notes that it left or came.
LEMMA WriteStep ==
  ASSUME IInv, NEW i \in Incidents, NEW row \in Columns, Write(i, row)
  PROVE  IInv'
<1>1. /\ moves < MaxMoves /\ moves' = moves + 1 /\ clearance' = clearance
      /\ table' = [j \in DOMAIN table \union {i} |-> IF j = i THEN row ELSE table[j]]
  BY DEF Write
<1>2. /\ DOMAIN table' \subseteq Incidents /\ \A j \in DOMAIN table' : table'[j] \in Columns
      /\ DOMAIN table \subseteq Incidents /\ DOMAIN table' = DOMAIN table \union {i}
      /\ \A j \in DOMAIN table : j # i => table'[j] = table[j]
  BY <1>1 DEF IInv, Typed
<1>3. moves' \in 0..MaxMoves /\ clearance' \in Clearances
  BY <1>1, ListsAssumption DEF IInv, Typed
<1>4. CASE walk = NoWalk
  <2>1. walk' = NoWalk
    BY <1>4 DEF Write
  <2> QED
    BY <1>2, <1>3, <2>1 DEF IInv, Typed, WalkFits
<1>5. CASE walk # NoWalk
  <2>1. /\ walk \in Walks /\ Rows \subseteq DOMAIN table /\ Passed \in Nat
        /\ \A j \in Rows : IsFiniteSet(Before(j))
    BY <1>5, UnderWay
  <2>2. PICK r \in Reads : r = walk.read
    BY <2>1 DEF Walks
  <2>3. PICK c \in Clearances : c = walk.actor
    BY <2>1 DEF Walks
  <2> DEFINE after == Listed(table', r, c)
             was   == i \in Rows
             is    == i \in after
             kept  == was /\ is /\ SameKey(r, i, row)
             due   == IF kept THEN walk.due ELSE walk.due \ {i}
             left  == walk.left \/ (was /\ ~kept)
             came  == walk.came \/ (is /\ ~kept)
             torn  == walk.torn \/ walk.pc = "find"
  <2>4. Rows = Listed(table, r, c)
    BY <2>2, <2>3 DEF Rows
  <2>5. walk' = [walk EXCEPT !.due = due, !.left = left, !.came = came, !.torn = torn]
    BY <1>5, <2>2, <2>3, <2>4 DEF Write
  <2>6. due \subseteq walk.due /\ (i \in due => kept)
    OBVIOUS
  <2>7. left \in BOOLEAN /\ came \in BOOLEAN /\ torn \in BOOLEAN
    BY <2>1 DEF Walks
  <2>8. \A j \in DOMAIN table : j # i => (j \in after <=> j \in Rows)
    BY <1>2, <2>4, ListedByRow
  <2>9. after \subseteq DOMAIN table' /\ after \subseteq Incidents /\ IsFiniteSet(after)
    <3>1. after \subseteq DOMAIN table'
      BY ListedInTable
    <3> QED
      BY <1>2, <3>1, FS_Subset, ListsAssumption
  <2>10. /\ (walk.left => left) /\ (walk.came => came) /\ (walk.torn => torn)
         /\ (~left => (was => kept)) /\ (~came => (is => kept)) /\ (walk.pc = "find" => torn)
         /\ (kept => was /\ is /\ SameKey(r, i, row))
    OBVIOUS
  <2> HIDE DEF after, was, is, kept, due, left, came, torn
  <2>11. /\ walk'.pc = walk.pc /\ walk'.read = r /\ walk'.page = walk.page /\ walk'.actor = c
         /\ walk'.total = walk.total /\ walk'.items = walk.items /\ walk'.tied = walk.tied
         /\ walk'.shown = walk.shown /\ walk'.due = due
         /\ walk'.left = left /\ walk'.came = came /\ walk'.torn = torn
    BY <2>1, <2>2, <2>3, <2>5 DEF Walks
  <2>12. walk' \in Walks
    BY <2>1, <2>5, <2>6, <2>7 DEF Walks
  <2>13. Rows' = after /\ Passed' = Passed
    BY <2>11 DEF Rows, Passed, Skip, after
  <2>14. /\ walk.due \subseteq Rows /\ Cardinality(walk.items) <= PageSize
         /\ \A j \in walk.due \ walk.tied : PlaceFits(j)
    BY <1>5 DEF IInv, WalkFits
  <2>15. due \subseteq after
    <3> SUFFICES ASSUME NEW j \in due PROVE j \in after
      OBVIOUS
    <3>1. j \in Rows /\ j \in DOMAIN table
      BY <2>1, <2>6, <2>14
    <3>2. CASE j = i
      BY <2>6, <2>10, <3>2 DEF is
    <3>3. CASE j # i
      BY <2>8, <3>1, <3>3
    <3> QED
      BY <3>2, <3>3
  <2>16. ASSUME NEW j \in due \ walk.tied
         PROVE  PlaceFits(j)'
    <3>1. j \in Rows /\ j \in DOMAIN table /\ PlaceFits(j) /\ j \in after
      BY <2>1, <2>6, <2>14, <2>15
    <3>2. j = i => SameKey(r, i, row)
      BY <2>6, <2>10
    <3>3. Before(j) = {a \in Rows : Precedes(r, a, j)}
      BY <2>2 DEF Before
    <3>4. Before(j)' = {a \in after : Precedes(r, a, j)'}
      BY <2>11, <2>13 DEF Before, Precedes, SortKey
    <3>5. ~left => Before(j) \subseteq Before(j)'
      <4> SUFFICES ASSUME ~left, NEW a \in Before(j) PROVE a \in Before(j)'
        OBVIOUS
      <4>1. a \in Rows /\ a \in DOMAIN table /\ Precedes(r, a, j)
        BY <2>1, <3>3
      <4>2. a = i => kept
        BY <2>10, <4>1 DEF was
      <4>3. a \in after
        BY <2>8, <2>10, <4>1, <4>2 DEF is
      <4>4. i \in {a, j} => SameKey(r, i, row)
        BY <2>10, <3>2, <4>2
      <4>5. Precedes(r, a, j)'
        BY <1>1, <3>1, <4>1, <4>4, PrecedesKept
      <4> QED
        BY <3>4, <4>3, <4>5
    <3>6. ~came => Before(j)' \subseteq Before(j)
      <4> SUFFICES ASSUME ~came, NEW a \in Before(j)' PROVE a \in Before(j)
        OBVIOUS
      <4>1. a \in after /\ Precedes(r, a, j)'
        BY <3>4
      <4>2. a = i => kept
        BY <2>10, <4>1 DEF is
      <4>3. a \in DOMAIN table /\ a \in Rows
        BY <1>2, <2>1, <2>8, <2>9, <2>10, <4>1, <4>2 DEF was
      <4>4. i \in {a, j} => SameKey(r, i, row)
        BY <2>10, <3>2, <4>2
      <4>5. Precedes(r, a, j)
        BY <1>1, <3>1, <4>1, <4>3, <4>4, PrecedesKept
      <4> QED
        BY <3>3, <4>3, <4>5
    <3>7. Before(j)' \subseteq after
      BY <3>4
    <3>8. IsFiniteSet(Before(j)')
      BY <2>9, <3>7, FS_Subset
    <3> QED
      BY <1>5, <2>10, <2>11, <2>13, <3>1, <3>5, <3>6, <3>8, PlaceStays
  <2>17. walk'.pc = "find" => walk'.torn
    BY <2>10, <2>11
  <2>18. WalkFits'
    BY <2>11, <2>13, <2>14, <2>15, <2>16, <2>17 DEF WalkFits
  <2>19. Typed'
    BY <1>2, <1>3, <2>12 DEF Typed
  <2> QED
    BY <2>18, <2>19 DEF IInv
<1> QED
  BY <1>4, <1>5

LEMMA ChangedStep ==
  ASSUME IInv, NEW i \in Incidents, NEW row \in Loose, Changed(i, row)
  PROVE  IInv'
<1>1. [row EXCEPT !.cycle = 0, !.updatedAt = Latest + moves + 1] \in Columns
  BY ChangedRow DEF IInv
<1> QED
  BY <1>1, WriteStep DEF Changed

LEMMA ReportStep ==
  ASSUME IInv, NEW i \in Incidents, Report(i)
  PROVE  IInv'
<1>1. PICK s \in SeverityInputs :
        LET new == NewRow(s)
        IN Write(i, [severity |-> s, stage |-> new.stage, assignee |-> new.assignee,
                     clockSet |-> new.clockSet, cycle |-> 0, acked |-> new.acked, rca |-> new.rca,
                     level |-> 0, updatedAt |-> CreatedAt[i], escalated |-> FALSE])
  BY DEF Report
<1> DEFINE new == NewRow(s)
           row == [severity |-> s, stage |-> new.stage, assignee |-> new.assignee,
                   clockSet |-> new.clockSet, cycle |-> 0, acked |-> new.acked, rca |-> new.rca,
                   level |-> 0, updatedAt |-> CreatedAt[i], escalated |-> FALSE]
<1>2. row \in Columns
  BY ReportedRow
<1>3. Write(i, row)
  BY <1>1
<1> HIDE DEF row
<1> QED
  BY <1>2, <1>3, WriteStep

LEMMA ChangeSeverityStep ==
  ASSUME IInv, NEW i \in DOMAIN table, NEW s \in SeverityInputs, ChangeSeverity(i, s)
  PROVE  IInv'
<1> DEFINE clock == ApplySeverityChange([severity |-> table[i].severity, since |-> 0,
                                         level |-> table[i].level, cycle |-> 0,
                                         acked |-> table[i].acked], s, 0)
<1>1. i \in Incidents /\ table[i] \in Columns /\ s \in Severities
  BY ListsAssumption DEF IInv, Typed
<1>2. PICK dropped \in DroppedBy(table[i], s) :
        Changed(i, [SeverityChanged(table[i], table[i], s, dropped) EXCEPT !.level = clock.level])
  BY DEF ChangeSeverity
<1>3. [SeverityChanged(table[i], table[i], s, dropped) EXCEPT !.level = clock.level] \in Loose
  BY <1>1, RegradedRow
<1> QED
  BY <1>1, <1>2, <1>3, ChangedStep

LEMMA AssignStep ==
  ASSUME IInv, NEW i \in DOMAIN table, NEW who \in {Me, Other}, Assign(i, who)
  PROVE  IInv'
<1>1. i \in Incidents /\ table[i] \in Columns
  BY DEF IInv, Typed
<1>2. Assigned(table[i], table[i], who) \in Loose
  BY <1>1, LooseRows
<1> QED
  BY <1>1, <1>2, ChangedStep DEF Assign

LEMMA EditStep ==
  ASSUME IInv, NEW i \in DOMAIN table, Edit(i)
  PROVE  IInv'
<1>1. i \in Incidents /\ table[i] \in Columns
  BY DEF IInv, Typed
<1>2. PICK row \in {Triaged(table[i]), Unassigned(table[i], table[i]), Acknowledged(table[i]),
                    Proposed(table[i]), Approved(table[i]), Rejected(table[i])} : Changed(i, row)
  BY DEF Edit
<1>3. row \in Loose
  BY <1>1, LooseRows
<1> QED
  BY <1>1, <1>2, <1>3, ChangedStep

LEMMA EscalateStep ==
  ASSUME IInv, NEW i \in DOMAIN table, Escalate(i)
  PROVE  IInv'
<1>1. i \in Incidents /\ table[i] \in Loose
  BY LooseRows DEF IInv, Typed
<1>2. table[i].level + 1 \in 0..MaxLevel
  <2>1. table[i].level \in 0..MaxLevel /\ table[i].level < MaxLevel
    BY <1>1 DEF Escalate, Loose
  <2> QED
    BY <2>1, ListsAssumption
<1>3. [table[i] EXCEPT !.level = @ + 1, !.escalated = TRUE] \in Loose
  BY <1>1, <1>2 DEF Loose
<1> QED
  BY <1>1, <1>3, ChangedStep DEF Escalate

LEMMA SetClearanceStep ==
  ASSUME IInv, NEW c \in Clearances, SetClearance(c)
  PROVE  IInv'
<1>1. clearance' = c /\ moves' = moves + 1 /\ moves < MaxMoves /\ UNCHANGED <<table, walk>>
  BY DEF SetClearance
<1>2. moves' \in 0..MaxMoves
  BY <1>1, ListsAssumption DEF IInv, Typed
<1>3. Typed'
  BY <1>1, <1>2 DEF IInv, Typed
<1>4. Rows' = Rows /\ Passed' = Passed
  BY <1>1 DEF Rows, Passed
<1>5. \A j : PlaceFits(j)' <=> PlaceFits(j)
  <2> SUFFICES ASSUME NEW j PROVE PlaceFits(j)' <=> PlaceFits(j)
    OBVIOUS
  <2>1. Before(j)' = Before(j)
    BY <1>1 DEF Before, Precedes, SortKey, Rows
  <2> QED
    BY <1>1, <1>4, <2>1 DEF PlaceFits
<1>6. WalkFits'
  BY <1>1, <1>4, <1>5 DEF IInv, WalkFits
<1> QED
  BY <1>3, <1>6 DEF IInv

-------------------------------------------------------------------------------
(* The reading.                                                             *)

LEMMA OpenListStep ==
  ASSUME IInv, NEW r \in Reads, OpenList(r)
  PROVE  IInv'
<1> DEFINE listed == Listed(table, r, clearance)
           w == [pc |-> "count", read |-> r, page |-> 1, actor |-> clearance,
                 total |-> 0, items |-> {}, due |-> listed, tied |-> {},
                 shown |-> [i \in Incidents |-> 0],
                 left |-> FALSE, came |-> FALSE, torn |-> FALSE]
<1>1. walk' = w /\ UNCHANGED <<table, clearance, moves>>
  BY DEF OpenList
<1>2. listed \subseteq Incidents /\ clearance \in Clearances
  <2>1. listed \subseteq DOMAIN table
    BY ListedInTable
  <2> QED
    BY <2>1 DEF IInv, Typed
<1> HIDE DEF listed
<1>3. w \in Walks
  BY <1>2 DEF Walks
<1>4. /\ w.pc = "count" /\ w.read = r /\ w.page = 1 /\ w.actor = clearance /\ w.items = {}
      /\ w.due = listed /\ w.tied = {} /\ w.shown = [i \in Incidents |-> 0]
  OBVIOUS
<1> HIDE DEF w
<1>5. Typed'
  BY <1>1, <1>3 DEF IInv, Typed
<1>6. Rows' = listed
  BY <1>1, <1>4 DEF Rows, listed
<1>7. Passed' = 0
  BY <1>1, <1>4, SkipFacts DEF Passed, Skip
<1>8. Cardinality(walk'.items) <= PageSize
  BY <1>1, <1>4, FS_EmptySet, ListsAssumption
<1>9. ASSUME NEW i \in listed
      PROVE  PlaceFits(i)'
  <2>1. walk'.shown[i] = 0 /\ walk'.pc = "count"
    BY <1>1, <1>2, <1>4
  <2>2. Before(i)' \subseteq listed
    BY <1>6 DEF Before
  <2>3. Cardinality(Before(i)') \in Nat
    BY <1>2, <2>2, FS_Subset, FS_CardinalityType, ListsAssumption
  <2>4. Cardinality(Before(i))' = Cardinality(Before(i)')
    OBVIOUS
  <2> QED
    BY <1>7, <2>1, <2>3, <2>4 DEF PlaceFits
<1>10. WalkFits'
  BY <1>1, <1>4, <1>6, <1>8, <1>9 DEF WalkFits
<1> QED
  BY <1>5, <1>10 DEF IInv

\* Rows compare by the table alone.
LEMMA SameOrder ==
  ASSUME UNCHANGED table, walk'.read = walk.read
  PROVE  \A a, b : Precedes(walk.read, a, b)' <=> Precedes(walk.read, a, b)
<1> SUFFICES ASSUME NEW a, NEW b
             PROVE  Precedes(walk.read, a, b)' <=> Precedes(walk.read, a, b)
  OBVIOUS
<1> QED
  BY DEF Precedes, SortKey

LEMMA CountStep ==
  ASSUME IInv, Count
  PROVE  IInv'
<1>1. /\ walk.pc = "count" /\ UNCHANGED <<table, clearance, moves>> /\ walk # NoWalk
      /\ walk' = [walk EXCEPT !.pc = "find", !.total = Cardinality(Rows)]
  BY DEF Count, Rows, NoWalk
<1>2. walk \in Walks /\ Cardinality(Rows) \in Nat /\ \A j \in Rows : IsFiniteSet(Before(j))
  BY <1>1, UnderWay
<1>3. walk' \in Walks
  BY <1>1, <1>2 DEF Walks
<1>4. /\ walk'.pc = "find" /\ walk'.read = walk.read /\ walk'.page = walk.page
      /\ walk'.actor = walk.actor /\ walk'.total = Cardinality(Rows)
      /\ walk'.items = walk.items /\ walk'.due = walk.due /\ walk'.tied = walk.tied
      /\ walk'.shown = walk.shown /\ walk'.left = walk.left /\ walk'.came = walk.came
      /\ walk'.torn = walk.torn
  BY <1>1, <1>2 DEF Walks
<1>5. Typed'
  BY <1>1, <1>3 DEF IInv, Typed
<1>6. Rows' = Rows /\ Passed' = Passed /\ \A j : Before(j)' = Before(j)
  <2>1. Rows' = Rows /\ Passed' = Passed
    BY <1>1, <1>4 DEF Rows, Passed, Skip
  <2>2. ASSUME NEW j PROVE Before(j)' = Before(j)
    BY <1>1, <1>4, <2>1, SameOrder DEF Before
  <2> QED
    BY <2>1, <2>2
<1>7. /\ walk.due \subseteq Rows /\ Cardinality(walk.items) <= PageSize
      /\ \A j \in walk.due \ walk.tied : PlaceFits(j)
  BY <1>1 DEF IInv, WalkFits
<1>8. \A j \in walk'.due \ walk'.tied : PlaceFits(j)'
  BY <1>1, <1>2, <1>4, <1>6, <1>7, PlaceStays
<1>9. WalkFits'
  BY <1>4, <1>6, <1>7, <1>8 DEF WalkFits
<1> QED
  BY <1>5, <1>9 DEF IInv

LEMMA CloseListStep ==
  ASSUME IInv, CloseList
  PROVE  IInv'
  BY DEF IInv, Typed, WalkFits, CloseList

LEMMA NextPageStep ==
  ASSUME IInv, NextPage
  PROVE  IInv'
<1> DEFINE after == Listed(table, walk.read, clearance)
           left  == walk.left \/ ~(Rows \subseteq after)
           came  == walk.came \/ ~(after \subseteq Rows)
<1>1. /\ walk.pc = "next" /\ UNCHANGED <<table, clearance, moves>> /\ walk # NoWalk
      /\ walk' = [walk EXCEPT !.pc = "count", !.page = @ + 1, !.items = {}, !.actor = clearance,
                              !.due = @ \intersect after, !.left = left, !.came = came]
  BY DEF NextPage, Actor, Rows, NoWalk
<1>2. walk \in Walks /\ walk.read \in Reads /\ walk.page \in Nat \ {0} /\ clearance \in Clearances
  BY <1>1, UnderWay DEF IInv, Typed
<1>3. after \subseteq DOMAIN table /\ after \subseteq Incidents /\ IsFiniteSet(after)
  <2>1. after \subseteq DOMAIN table
    BY <1>2, ListedInTable
  <2> QED
    BY <2>1, FS_Subset, ListsAssumption DEF IInv, Typed
<1>4. /\ left \in BOOLEAN /\ came \in BOOLEAN /\ (walk.left => left) /\ (walk.came => came)
      /\ (~left => Rows \subseteq after) /\ (~came => after \subseteq Rows)
  BY <1>2 DEF Walks
<1> HIDE DEF left, came
<1>5. /\ walk'.pc = "count" /\ walk'.read = walk.read /\ walk'.page = walk.page + 1
      /\ walk'.actor = clearance /\ walk'.items = {} /\ walk'.due = walk.due \intersect after
      /\ walk'.tied = walk.tied /\ walk'.shown = walk.shown /\ walk'.left = left
      /\ walk'.came = came /\ walk'.torn = walk.torn
  BY <1>1, <1>2 DEF Walks
<1> HIDE DEF after
<1>6. walk' \in Walks
  <2>1. walk.page + 1 \in Nat \ {0} /\ walk.due \intersect after \subseteq Incidents
    BY <1>2, <1>3
  <2> QED
    BY ZenonT(60), <1>1, <1>2, <1>4, <2>1 DEF Walks
<1>7. Typed'
  BY <1>1, <1>6 DEF IInv, Typed
<1>8. Rows' = after /\ Passed' = Passed
  BY <1>1, <1>5 DEF Rows, Passed, Skip, after
<1>9. Cardinality(walk'.items) <= PageSize
  BY <1>5, FS_EmptySet, ListsAssumption
<1>10. walk.due \subseteq Rows /\ \A j \in walk.due \ walk.tied : PlaceFits(j)
  BY <1>1 DEF IInv, WalkFits
<1>11. ASSUME NEW j \in walk'.due \ walk'.tied
       PROVE  PlaceFits(j)'
  <2>1. j \in Rows /\ PlaceFits(j)
    BY <1>5, <1>10
  <2>2. Before(j)' = {a \in after : Precedes(walk.read, a, j)}
    BY <1>1, <1>5, <1>8, SameOrder DEF Before
  <2>3. (~left => Before(j) \subseteq Before(j)') /\ (~came => Before(j)' \subseteq Before(j))
    BY <1>4, <2>2 DEF Before
  <2>4. IsFiniteSet(Before(j)')
    BY <1>3, <2>2, FS_Subset
  <2> QED
    BY <1>1, <1>4, <1>5, <1>8, <2>1, <2>3, <2>4, PlaceStays
<1>12. WalkFits'
  BY <1>5, <1>8, <1>9, <1>11 DEF WalkFits
<1> QED
  BY <1>7, <1>12 DEF IInv

\* What showing a page does to a row that shares its key with none.
LEMMA PlaceShown ==
  ASSUME NEW passed \in Nat, NEW reach \in Nat, passed < reach, NEW before \in Nat,
         NEW shown \in 0..2, NEW left \in BOOLEAN, NEW came \in BOOLEAN, NEW on \in BOOLEAN,
         on <=> passed <= before /\ before < reach,
         ~left /\ shown = 0 => passed <= before,
         ~came /\ shown > 0 => before < passed,
         shown > 1 => came
  PROVE  LET now == IF on /\ shown < 2 THEN shown + 1 ELSE shown
         IN  /\ now \in 0..2
             /\ ~left /\ now = 0 => reach <= before
             /\ ~came /\ now > 0 => before < reach
             /\ now > 1 => came
<1> DEFINE now == IF on /\ shown < 2 THEN shown + 1 ELSE shown
<1>1. CASE on /\ shown < 2
  <2>1. now = shown + 1 /\ passed <= before /\ before < reach
    BY <1>1
  <2>2. shown + 1 > 1 => came
    BY <2>1
  <2> HIDE DEF now
  <2> QED
    BY <1>1, <2>1, <2>2 DEF now
<1>2. CASE ~(on /\ shown < 2)
  <2>1. now = shown
    BY <1>2
  <2>2. ~left /\ shown = 0 => reach <= before
    BY <1>2
  <2> HIDE DEF now
  <2> QED
    BY <2>1, <2>2 DEF now
<1> QED
  BY <1>1, <1>2

LEMMA FindManyStep ==
  ASSUME IInv, FindMany
  PROVE  IInv'
<1>1. walk.pc = "find" /\ walk # NoWalk /\ UNCHANGED <<table, clearance, moves>>
  BY DEF FindMany, NoWalk
<1>2. /\ walk \in Walks /\ walk.read \in Reads /\ walk.page \in Nat \ {0}
      /\ walk.shown \in [Incidents -> 0..2] /\ Rows \subseteq DOMAIN table /\ Rows \subseteq Incidents
      /\ IsFiniteSet(Rows) /\ Cardinality(Rows) \in Nat
      /\ \A j \in Rows : IsFiniteSet(Before(j)) /\ Cardinality(Before(j)) \in Nat
  BY Zenon, <1>1, UnderWay
<1> DEFINE pc == IF walk.page < TotalPages(walk.total) THEN "next" ELSE "done"
           tied == walk.tied \union Tied(walk.read, Rows)
           shown(items) == [j \in Incidents |->
                              IF j \in items /\ walk.shown[j] < 2 THEN walk.shown[j] + 1
                                                                  ELSE walk.shown[j]]
<1>3. PICK items \in PagesOf(walk.read, Rows, walk.page) :
        walk' = [walk EXCEPT !.pc = pc, !.items = items, !.tied = tied, !.shown = shown(items)]
  BY DEF FindMany, Rows
<1>4. /\ items \subseteq Rows /\ Cardinality(items) <= PageSize
      /\ \A j \in Rows : j \notin Tied(walk.read, Rows) /\ ~Precedes(walk.read, j, j) =>
           (j \in items <=> Skip(walk.page) <= Cardinality(Before(j))
                              /\ Cardinality(Before(j)) < Skip(walk.page + 1))
  <2>1. items \subseteq Rows /\ Cardinality(items) <= PageSize
    BY <1>2, PageHasRow
  <2>2. ASSUME NEW j \in Rows, j \notin Tied(walk.read, Rows), ~Precedes(walk.read, j, j)
        PROVE  j \in items <=> Skip(walk.page) <= Cardinality(Before(j))
                                 /\ Cardinality(Before(j)) < Skip(walk.page + 1)
    <3>1. Before(j) = {k \in Rows : Precedes(walk.read, k, j)}
      BY DEF Before
    <3> QED
      BY <1>2, <2>2, <3>1, PageHasRow
  <2> QED
    BY <2>1, <2>2
<1>5. \A j \in Rows : ~Precedes(walk.read, j, j)
  BY <1>2, Irreflexive DEF IInv
<1>6. /\ walk.due \subseteq Rows /\ \A j \in walk.due \ walk.tied : PlaceFits(j)
      /\ ~walk.torn => walk.total = Cardinality(Rows)
  BY <1>1 DEF IInv, WalkFits
<1>7. pc \in {"next", "done"} /\ tied \subseteq Incidents
  BY <1>2 DEF Walks, Tied
<1>8. shown(items) \in [Incidents -> 0..2]
  BY <1>2
<1>9. /\ \A j \in Incidents :
           shown(items)[j] = IF j \in items /\ walk.shown[j] < 2 THEN walk.shown[j] + 1
                                                                 ELSE walk.shown[j]
      /\ walk.tied \subseteq tied /\ Tied(walk.read, Rows) \subseteq tied
      /\ pc = "done" => ~(walk.page < TotalPages(walk.total))
  OBVIOUS
<1> DEFINE seen == shown(items)
<1> HIDE DEF pc, tied, shown
<1>10. /\ walk'.pc = pc /\ walk'.read = walk.read /\ walk'.page = walk.page
       /\ walk'.actor = walk.actor /\ walk'.total = walk.total /\ walk'.items = items
       /\ walk'.due = walk.due /\ walk'.tied = tied /\ walk'.shown = seen
       /\ walk'.left = walk.left /\ walk'.came = walk.came /\ walk'.torn = walk.torn
  BY <1>2, <1>3 DEF Walks
<1>11. walk' \in Walks
  BY <1>2, <1>3, <1>4, <1>7, <1>8 DEF Walks
<1>12. Typed'
  BY <1>1, <1>11 DEF IInv, Typed
<1>13. /\ Rows' = Rows /\ Passed = Skip(walk.page) /\ Passed' = Skip(walk.page + 1)
       /\ Skip(walk.page) \in Nat /\ Skip(walk.page + 1) \in Nat
       /\ Skip(walk.page) < Skip(walk.page + 1)
  <2>1. Rows' = Rows
    BY <1>1, <1>10 DEF Rows
  <2>2. Passed = Skip(walk.page)
    BY <1>1 DEF Passed
  <2>3. Passed' = Skip(walk.page + 1)
    BY <1>7, <1>10 DEF Passed, Skip
  <2> QED
    BY SMTT(60), <1>2, <2>1, <2>2, <2>3, SkipFacts, ListsAssumption
<1>14. ASSUME NEW j \in walk.due \ tied
       PROVE  PlaceFits(j)'
  <2> DEFINE n == Cardinality(Before(j))
             on == j \in items
             old == walk.shown[j]
  <2>1. /\ j \in Rows /\ j \in Incidents /\ j \in walk.due \ walk.tied
        /\ j \notin Tied(walk.read, Rows) /\ ~Precedes(walk.read, j, j)
    BY <1>2, <1>5, <1>6, <1>9
  <2>2. PlaceFits(j) /\ n \in Nat /\ old \in 0..2
    BY <1>2, <1>6, <2>1
  <2>3. on <=> Skip(walk.page) <= n /\ n < Skip(walk.page + 1)
    BY <1>4, <2>1
  <2>4. /\ ~walk.left /\ old = 0 => Skip(walk.page) <= n
        /\ ~walk.came /\ old > 0 => n < Skip(walk.page)
        /\ old > 1 => walk.came
    BY <1>13, <2>2 DEF PlaceFits
  <2>5. walk.left \in BOOLEAN /\ walk.came \in BOOLEAN /\ on \in BOOLEAN
    BY <1>2 DEF Walks
  <2>6. seen[j] = IF on /\ old < 2 THEN old + 1 ELSE old
    BY <1>9, <2>1
  <2>7. Before(j)' = Before(j)
    BY <1>1, <1>10, <1>13, SameOrder DEF Before
  <2> HIDE DEF n, on, old, seen
  <2>8. /\ ~walk.left /\ seen[j] = 0 => Skip(walk.page + 1) <= n
        /\ ~walk.came /\ seen[j] > 0 => n < Skip(walk.page + 1)
        /\ seen[j] > 1 => walk.came
    BY <1>13, <2>2, <2>3, <2>4, <2>5, <2>6, PlaceShown
  <2>9. pc = "done" /\ seen[j] = 0 => walk.left \/ walk.torn
    <3> SUFFICES ASSUME pc = "done", seen[j] = 0, ~walk.left, ~walk.torn PROVE FALSE
      OBVIOUS
    <3>1. walk.total = Cardinality(Rows) /\ walk.total \in Nat
      BY <1>2, <1>6
    <3>2. walk.total <= Skip(walk.page + 1)
      BY <1>2, <1>9, <3>1, LastPageReaches
    <3>3. n < Cardinality(Rows)
      <4>1. Before(j) \subseteq Rows /\ Before(j) # Rows
        BY <2>1 DEF Before
      <4>2. n <= Cardinality(Rows) /\ n # Cardinality(Rows)
        BY <1>2, <4>1, FS_Subset DEF n
      <4> QED
        BY <1>2, <2>2, <4>2
    <3>4. Skip(walk.page + 1) <= n
      BY <2>8
    <3> QED
      BY <1>2, <1>13, <2>2, <3>1, <3>2, <3>3, <3>4
  <2>10. Cardinality(Before(j))' = n
    BY <2>7 DEF n
  <2> QED
    BY <1>10, <1>13, <2>8, <2>9, <2>10 DEF PlaceFits
<1>15. WalkFits'
  <2>1. walk'.pc # "find"
    BY <1>7, <1>10
  <2> QED
    BY <1>4, <1>6, <1>10, <1>13, <1>14, <2>1 DEF WalkFits
<1> QED
  BY <1>12, <1>15 DEF IInv

-------------------------------------------------------------------------------
(* Sums over groups.  The fold behind a sum is a recursive function: it is  *)
(* the one that counts the rows of the groups summed (SumOfGroups).         *)

SumStep(count, keys, f) ==
  [some \in SUBSET keys |->
     IF some = {} THEN 0
     ELSE count[CHOOSE k \in some : TRUE] + f[some \ {CHOOSE k \in some : TRUE}]]

SumOver(count, keys) == (CHOOSE f : f = SumStep(count, keys, f))[keys]

\* The rows whose key is one of some.
Having(rows, key, some) == {i \in rows : key[i] \in some}

\* A set of groups counts one group and the others.
LEMMA HavingParts ==
  ASSUME NEW rows, IsFiniteSet(rows), NEW key, NEW some, NEW k \in some
  PROVE  /\ Cardinality(Having(rows, key, some)) \in Nat
         /\ Cardinality(Having(rows, key, some)) =
              Cardinality({i \in rows : key[i] = k}) + Cardinality(Having(rows, key, some \ {k}))
<1> DEFINE all  == Having(rows, key, some)
           one  == {i \in rows : key[i] = k}
           rest == Having(rows, key, some \ {k})
<1>1. all = one \union rest /\ one \intersect rest = {} /\ all \subseteq rows
  <2>1. \A i : i \in all <=> i \in one \/ i \in rest
    BY DEF Having
  <2>2. \A i : ~(i \in one /\ i \in rest)
    BY DEF Having
  <2>3. all \subseteq rows
    BY DEF Having
  <2> HIDE DEF all, one, rest
  <2> QED
    BY <2>1, <2>2, <2>3
<1>2. one \subseteq rows /\ rest \subseteq rows
  BY DEF Having
<1> HIDE DEF all, one, rest
<1>3. IsFiniteSet(one) /\ IsFiniteSet(rest) /\ IsFiniteSet(all)
  BY <1>1, <1>2, FS_Subset
<1>4. /\ Cardinality(one) \in Nat /\ Cardinality(rest) \in Nat /\ Cardinality(all) \in Nat
      /\ Cardinality({}) = 0
  BY <1>3, FS_CardinalityType, FS_EmptySet
<1>5. Cardinality(one \union rest) =
        Cardinality(one) + Cardinality(rest) - Cardinality(one \intersect rest)
  BY <1>3, FS_Union
<1>6. Cardinality(all) = Cardinality(one) + Cardinality(rest)
  <2>1. Cardinality(one \union rest) = Cardinality(all) /\ Cardinality(one \intersect rest) = 0
    BY <1>1, <1>4
  <2> QED
    BY <1>4, <1>5, <2>1
<1> QED
  BY <1>4, <1>6 DEF all, one, rest

\* The sizes of groups add up to the number of rows they have, in whatever order the
\* fold takes them.
LEMMA SumOfGroups ==
  ASSUME NEW rows, IsFiniteSet(rows), NEW keys, IsFiniteSet(keys), NEW key, NEW count,
         \A k \in keys : count[k] = Cardinality({i \in rows : key[i] = k})
  PROVE  SumOver(count, keys) = Cardinality(Having(rows, key, keys))
<1> DEFINE pick(some) == CHOOSE k \in some : TRUE
           sizes == [some \in SUBSET keys |-> Cardinality(Having(rows, key, some))]
           sum   == CHOOSE f : f = SumStep(count, keys, f)
<1>1. Cardinality(Having(rows, key, {})) = 0
  <2>1. Having(rows, key, {}) = {}
    BY DEF Having
  <2> QED
    BY <2>1, FS_EmptySet
<1>2. ASSUME NEW some \in SUBSET keys, some # {}
      PROVE  /\ pick(some) \in some /\ some \ {pick(some)} \in SUBSET keys
             /\ sizes[some] = count[pick(some)] + sizes[some \ {pick(some)}]
  <2>1. pick(some) \in some
    BY <1>2
  <2> HIDE DEF pick
  <2>2. some \ {pick(some)} \in SUBSET keys /\ pick(some) \in keys
    BY <2>1
  <2>3. Cardinality(Having(rows, key, some)) =
          Cardinality({i \in rows : key[i] = pick(some)})
            + Cardinality(Having(rows, key, some \ {pick(some)}))
    BY <2>1, HavingParts
  <2> QED
    BY <2>1, <2>2, <2>3
<1>3. sizes = SumStep(count, keys, sizes)
  <2>1. \A some \in SUBSET keys :
          sizes[some] = IF some = {} THEN 0
                        ELSE count[pick(some)] + sizes[some \ {pick(some)}]
    BY <1>1, <1>2
  <2>2. sizes = [some \in SUBSET keys |-> sizes[some]]
    OBVIOUS
  <2> HIDE DEF sizes
  <2> QED
    BY <2>1, <2>2 DEF SumStep
<1> HIDE DEF sizes
<1>4. sum = SumStep(count, keys, sum)
  BY <1>3
<1> HIDE DEF sum
<1>5. \A some \in SUBSET keys :
        sum[some] = IF some = {} THEN 0 ELSE count[pick(some)] + sum[some \ {pick(some)}]
  <2>1. sum = [some \in SUBSET keys |->
                 IF some = {} THEN 0 ELSE count[pick(some)] + sum[some \ {pick(some)}]]
    BY <1>4 DEF SumStep
  <2> DEFINE step(some) == IF some = {} THEN 0 ELSE count[pick(some)] + sum[some \ {pick(some)}]
  <2>2. sum = [some \in SUBSET keys |-> step(some)]
    BY <2>1
  <2> HIDE DEF step
  <2>3. \A some \in SUBSET keys : sum[some] = step(some)
    BY <2>2
  <2> QED
    BY <2>3 DEF step
<1> HIDE DEF pick
<1>6. \A some \in SUBSET keys : sum[some] = sizes[some]
  <2> DEFINE wrong == {some \in SUBSET keys : sum[some] # sizes[some]}
  <2> SUFFICES ASSUME wrong # {} PROVE FALSE
    OBVIOUS
  <2>1. IsWellFoundedOn(StrictSubsetOrdering(keys), SUBSET keys)
    BY FS_StrictSubsetOrderingWellFounded, FS_FiniteSubsetsOfFinite
  <2>2. wrong \subseteq SUBSET keys
    OBVIOUS
  <2>3. PICK least \in wrong : \A some \in wrong : ~(<<some, least>> \in StrictSubsetOrdering(keys))
    <3> HIDE DEF wrong
    <3> QED
      BY <2>1, <2>2, WFMin
  <2>4. CASE least = {}
    BY <1>1, <1>5, <2>4 DEF sizes
  <2>5. CASE least # {}
    <3> DEFINE less == least \ {pick(least)}
    <3>1. pick(least) \in least /\ less \in SUBSET keys /\ least \in SUBSET keys /\ less # least
      BY <1>2, <2>5
    <3>2. <<less, least>> \in StrictSubsetOrdering(keys)
      BY <3>1 DEF StrictSubsetOrdering
    <3>3. sum[less] = sizes[less]
      BY <2>3, <3>1, <3>2
    <3>4. sum[least] = count[pick(least)] + sum[less]
      BY <1>5, <2>5, <3>1
    <3>5. sizes[least] = count[pick(least)] + sizes[less]
      BY <1>2, <2>5, <3>1
    <3> QED
      BY <3>3, <3>4, <3>5
  <2> QED
    BY <2>4, <2>5
<1>7. sum[keys] = Cardinality(Having(rows, key, keys))
  BY <1>6 DEF sizes
<1> QED
  BY <1>7 DEF SumOver, sum

-------------------------------------------------------------------------------
(* The reports.                                                             *)

\* The matrix, summed by rows or by columns, counts every incident once.
LEMMA MatrixTotals ==
  ASSUME NEW rows, IsFiniteSet(rows), NEW sev, IsFiniteSet(sev), NEW key, NEW groups,
         \A i \in rows : key[i] \in IncidentTypes \X sev,
         groups = [k \in {key[i] : i \in rows} |-> Cardinality({i \in rows : key[i] = k})]
  PROVE  LET matrix == ToMatrixResponse(sev, groups)
         IN  /\ matrix.grandTotal = Cardinality(rows)
             /\ SumOver(matrix.columnTotals, sev) = Cardinality(rows)
<1> DEFINE cells   == ZeroFilled(groups, IncidentTypes \X sev)
           byType  == [type \in IncidentTypes |-> SumOver(cells, {type} \X sev)]
           bySev   == [s \in sev |-> SumOver(cells, IncidentTypes \X {s})]
           typeKey == [i \in rows |-> key[i][1]]
           sevKey  == [i \in rows |-> key[i][2]]
           matrix  == ToMatrixResponse(sev, groups)
<1>1. IsFiniteSet(IncidentTypes)
  BY QueriesAssumption
<1>2. ASSUME NEW k \in IncidentTypes \X sev
      PROVE  cells[k] = Cardinality({i \in rows : key[i] = k})
  <2>1. CASE k \in {key[i] : i \in rows}
    BY <2>1 DEF ZeroFilled
  <2>2. CASE k \notin {key[i] : i \in rows}
    <3>1. {i \in rows : key[i] = k} = {}
      BY <2>2
    <3>2. cells[k] = 0
      BY <2>2 DEF ZeroFilled
    <3> QED
      BY <3>1, <3>2, FS_EmptySet
  <2> QED
    BY <2>1, <2>2
<1>3. matrix.grandTotal = SumOver(byType, IncidentTypes) /\ matrix.columnTotals = bySev
  <2> DEFINE total == SumOver(byType, IncidentTypes)
  <2>1. matrix = [cells |-> cells, rowTotals |-> byType, columnTotals |-> bySev, grandTotal |-> total]
    BY Zenon DEF ToMatrixResponse, Total, MapThenSumSet, MapThenFoldSet, SumOver, SumStep
  <2> HIDE DEF matrix, cells, byType, bySev, total
  <2>2. matrix.grandTotal = total /\ matrix.columnTotals = bySev
    BY <2>1
  <2> QED
    BY <2>2 DEF total
<1> HIDE DEF cells, matrix
<1>5. ASSUME NEW type \in IncidentTypes
      PROVE  byType[type] = Cardinality({i \in rows : typeKey[i] = type})
  <2>1. IsFiniteSet({type} \X sev)
    BY FS_Singleton, FS_Product
  <2> DEFINE part == {type} \X sev
  <2>5. IsFiniteSet(part)
    BY <2>1
  <2>2. \A k \in part : cells[k] = Cardinality({i \in rows : key[i] = k})
    BY <1>2
  <2> HIDE DEF part
  <2>4. SumOver(cells, part) = Cardinality(Having(rows, key, part))
    BY ZenonT(60), <2>2, <2>5, SumOfGroups
  <2>3. Having(rows, key, {type} \X sev) = {i \in rows : typeKey[i] = type}
    <3> SUFFICES ASSUME NEW i \in rows PROVE key[i] \in {type} \X sev <=> key[i][1] = type
      BY DEF Having
    <3> QED
      OBVIOUS
  <2> QED
    BY <2>3, <2>4 DEF part
<1>6. ASSUME NEW s \in sev
      PROVE  bySev[s] = Cardinality({i \in rows : sevKey[i] = s})
  <2>1. IsFiniteSet(IncidentTypes \X {s})
    BY <1>1, FS_Singleton, FS_Product
  <2> DEFINE part == IncidentTypes \X {s}
  <2>5. IsFiniteSet(part)
    BY <2>1
  <2>2. \A k \in part : cells[k] = Cardinality({i \in rows : key[i] = k})
    BY <1>2
  <2> HIDE DEF part
  <2>4. SumOver(cells, part) = Cardinality(Having(rows, key, part))
    BY ZenonT(60), <2>2, <2>5, SumOfGroups
  <2>3. Having(rows, key, IncidentTypes \X {s}) = {i \in rows : sevKey[i] = s}
    <3> SUFFICES ASSUME NEW i \in rows PROVE key[i] \in IncidentTypes \X {s} <=> key[i][2] = s
      BY DEF Having
    <3> QED
      OBVIOUS
  <2> QED
    BY <2>3, <2>4 DEF part
<1>7. Having(rows, typeKey, IncidentTypes) = rows /\ Having(rows, sevKey, sev) = rows
  BY DEF Having
<1> HIDE DEF byType, bySev, typeKey, sevKey
<1>8. SumOver(byType, IncidentTypes) = Cardinality(rows)
  <2>1. \A type \in IncidentTypes : byType[type] = Cardinality({i \in rows : typeKey[i] = type})
    BY <1>5
  <2>2. SumOver(byType, IncidentTypes) = Cardinality(Having(rows, typeKey, IncidentTypes))
    BY <1>1, <2>1, SumOfGroups
  <2> QED
    BY <1>7, <2>2
<1>9. SumOver(bySev, sev) = Cardinality(rows)
  <2>1. \A s \in sev : bySev[s] = Cardinality({i \in rows : sevKey[i] = s})
    BY <1>6
  <2>2. SumOver(bySev, sev) = Cardinality(Having(rows, sevKey, sev))
    BY <2>1, SumOfGroups
  <2> QED
    BY <1>7, <2>2
<1> QED
  BY <1>3, <1>8, <1>9 DEF matrix

\* A GROUP BY loses no row.
LEMMA GroupsCountAll ==
  ASSUME NEW rows, IsFiniteSet(rows), NEW key, NEW groups,
         groups = [k \in {key[i] : i \in rows} |-> Cardinality({i \in rows : key[i] = k})]
  PROVE  SumOver(groups, DOMAIN groups) = Cardinality(rows)
<1> DEFINE keys == {key[i] : i \in rows}
           f    == [i \in rows |-> key[i]]
<1>1. DOMAIN groups = keys /\ \A k \in keys : groups[k] = Cardinality({i \in rows : key[i] = k})
  OBVIOUS
<1>2. f \in [rows -> keys] /\ \A k \in keys : \E i \in rows : f[i] = k
  OBVIOUS
<1>3. Having(rows, key, keys) = rows
  BY DEF Having
<1> HIDE DEF keys, f
<1>4. f \in Surjection(rows, keys)
  BY <1>2 DEF Surjection
<1>5. IsFiniteSet(keys)
  BY <1>4, FS_Surjection
<1>6. SumOver(groups, keys) = Cardinality(Having(rows, key, keys))
  BY <1>1, <1>5, SumOfGroups
<1> QED
  BY <1>1, <1>3, <1>6

\* The Prisma path and the SQL path select the same incidents.
LEMMA PathsAgree ==
  ASSUME Typed, NEW c \in Clearances, NEW q \in Queries
  PROVE  LET rows == RawWhere(c, ToFilters(q))
         IN  /\ rows = AnalyticsPeriodWhere(c, ToFilters(q))
             /\ IsFiniteSet(rows) /\ rows \subseteq DOMAIN table
             /\ VisibilityScope(table, c) \subseteq DOMAIN table /\ IsFiniteSet(VisibilityScope(table, c))
             /\ IsFiniteSet(VisibleSeverities(c))
             /\ \A i \in rows : <<TypeOf[i], table[i].severity>> \in IncidentTypes \X VisibleSeverities(c)
<1> DEFINE f    == ToFilters(q)
           rows == RawWhere(c, f)
<1>1. \A i \in DOMAIN table : /\ i \in Incidents /\ table[i].severity \in Severities
                              /\ CreatedAt[i] \in Nat /\ TypeOf[i] \in IncidentTypes
  BY ListsAssumption, QueriesAssumption, ColumnParts DEF Typed
<1>2. f.from \in Nat /\ f.to \in Nat
  BY QueriesAssumption DEF ToFilters, ExclusiveEndOfDay, DAY
<1> HIDE DEF f
<1>3. \A i : i \in rows <=> i \in AnalyticsPeriodWhere(c, f)
  BY <1>1, <1>2 DEF RawWhere, AnalyticsPeriodWhere, VisibilityScope, VisibleSeverities
<1>4. rows = AnalyticsPeriodWhere(c, f)
  BY <1>3 DEF RawWhere, AnalyticsPeriodWhere
<1>5. rows \subseteq DOMAIN table /\ VisibilityScope(table, c) \subseteq DOMAIN table
  BY DEF RawWhere, VisibilityScope
<1>6. \A i \in rows : <<TypeOf[i], table[i].severity>> \in IncidentTypes \X VisibleSeverities(c)
  BY <1>1 DEF RawWhere
<1>7. IsFiniteSet(rows) /\ IsFiniteSet(VisibilityScope(table, c))
  <2>1. IsFiniteSet(DOMAIN table)
    BY FS_Subset, ListsAssumption DEF Typed
  <2> HIDE DEF rows
  <2> QED
    BY <1>5, <2>1, FS_Subset
<1>8. IsFiniteSet(VisibleSeverities(c))
  <2>1. Severities = {"LOW"} \union {"MEDIUM"} \union {"HIGH"} \union {"CRITICAL"}
    BY DEF Severities
  <2>2. IsFiniteSet(Severities)
    BY <2>1, FS_Singleton, FS_Union
  <2>3. VisibleSeverities(c) \subseteq Severities
    BY DEF VisibleSeverities
  <2> QED
    BY <2>2, <2>3, FS_Subset
<1> QED
  BY <1>4, <1>5, <1>6, <1>7, <1>8 DEF f

LEMMA MatrixAgrees ==
  ASSUME Typed, NEW c \in Clearances, NEW q \in Queries
  PROVE  LET n == Cardinality(RawWhere(c, ToFilters(q)))
             columns == Matrix(c, q).columnTotals
         IN  /\ Matrix(c, q).grandTotal = n
             /\ Total(LAMBDA s : columns[s], VisibleSeverities(c)) = n
             /\ CountIncidentsInPeriod(c, ToFilters(q)) = n
<1> DEFINE rows   == RawWhere(c, ToFilters(q))
           key    == [i \in rows |-> <<TypeOf[i], table[i].severity>>]
           groups == GroupIncidentsByTypeAndSeverity(c, ToFilters(q))
           sev    == VisibleSeverities(c)
           matrix == ToMatrixResponse(sev, groups)
           columns == matrix.columnTotals
<1>1. /\ rows = AnalyticsPeriodWhere(c, ToFilters(q)) /\ IsFiniteSet(rows) /\ IsFiniteSet(sev)
      /\ \A i \in rows : <<TypeOf[i], table[i].severity>> \in IncidentTypes \X sev
  BY PathsAgree
<1>2. groups = [k \in {<<TypeOf[i], table[i].severity>> : i \in rows} |->
                  Cardinality({i \in rows : <<TypeOf[i], table[i].severity>> = k})]
  BY Zenon, <1>1 DEF GroupIncidentsByTypeAndSeverity, Groups
<1>3. Matrix(c, q) = matrix
  BY DEF Matrix
<1>4. CountIncidentsInPeriod(c, ToFilters(q)) = Cardinality(rows)
  BY <1>1 DEF CountIncidentsInPeriod
<1>5. groups = [k \in {key[i] : i \in rows} |-> Cardinality({i \in rows : key[i] = k})]
  <2> HIDE DEF rows, groups
  <2>1. {key[i] : i \in rows} = {<<TypeOf[i], table[i].severity>> : i \in rows}
    OBVIOUS
  <2>2. \A k : {i \in rows : key[i] = k} = {i \in rows : <<TypeOf[i], table[i].severity>> = k}
    OBVIOUS
  <2> QED
    BY Zenon, <1>2, <2>1, <2>2
<1>6. \A i \in rows : key[i] \in IncidentTypes \X sev
  BY <1>1
<1> HIDE DEF rows, key, groups, sev
<1>7. matrix.grandTotal = Cardinality(rows) /\ SumOver(matrix.columnTotals, sev) = Cardinality(rows)
  BY <1>1, <1>5, <1>6, MatrixTotals
<1> HIDE DEF matrix, columns
<1>8. Total(LAMBDA s : columns[s], sev) = SumOver(columns, sev)
  BY Zenon DEF Total, MapThenSumSet, MapThenFoldSet, SumOver, SumStep
<1>9. Total(LAMBDA s : columns[s], sev) = Cardinality(rows)
  BY <1>7, <1>8 DEF columns
<1> QED
  BY <1>3, <1>4, <1>7, <1>9 DEF rows, sev, columns

LEMMA TrendAgrees ==
  ASSUME Typed, NEW c \in Clearances, NEW q \in Queries
  PROVE  LET points == Trend(c, ToFilters(q), q.bucket)
         IN  Total(LAMBDA k : points[k], DOMAIN points) = Cardinality(RawWhere(c, ToFilters(q)))
<1> DEFINE rows   == RawWhere(c, ToFilters(q))
           key    == [i \in rows |-> <<CreatedAt[i] \div q.bucket, table[i].severity>>]
           points == Trend(c, ToFilters(q), q.bucket)
<1>1. IsFiniteSet(rows)
  BY PathsAgree
<1>2. points = [k \in {<<CreatedAt[i] \div q.bucket, table[i].severity>> : i \in rows} |->
                  Cardinality({i \in rows : <<CreatedAt[i] \div q.bucket, table[i].severity>> = k})]
  BY Zenon DEF Trend, Groups
<1>3. points = [k \in {key[i] : i \in rows} |-> Cardinality({i \in rows : key[i] = k})]
  <2> HIDE DEF rows, points
  <2>1. {key[i] : i \in rows} = {<<CreatedAt[i] \div q.bucket, table[i].severity>> : i \in rows}
    OBVIOUS
  <2>2. \A k : {i \in rows : key[i] = k} =
                 {i \in rows : <<CreatedAt[i] \div q.bucket, table[i].severity>> = k}
    OBVIOUS
  <2> QED
    BY Zenon, <1>2, <2>1, <2>2
<1> HIDE DEF rows, key, points
<1>4. SumOver(points, DOMAIN points) = Cardinality(rows)
  BY <1>1, <1>3, GroupsCountAll
<1>5. Total(LAMBDA k : points[k], DOMAIN points) = SumOver(points, DOMAIN points)
  BY Zenon DEF Total, MapThenSumSet, MapThenFoldSet, SumOver, SumStep
<1>6. Total(LAMBDA k : points[k], DOMAIN points) = Cardinality(rows)
  BY <1>4, <1>5
<1> QED
  BY <1>6 DEF rows, points

LEMMA PerformanceAgrees ==
  ASSUME Typed, NEW c \in Clearances, NEW q \in Queries
  PROVE  LET performance == EscalationPerformance(c, ToFilters(q))
         IN  Total(LAMBDA s : performance[s].escalated, DOMAIN performance) =
               Cardinality({i \in RawWhere(c, ToFilters(q)) : table[i].escalated})
<1> DEFINE rows == {i \in RawWhere(c, ToFilters(q)) : table[i].escalated}
           key  == [i \in rows |-> table[i].severity]
           performance == EscalationPerformance(c, ToFilters(q))
           groups == [s \in {table[i].severity : i \in rows} |->
                        Cardinality({i \in rows : table[i].severity = s})]
           counts == [s \in DOMAIN performance |-> performance[s].escalated]
<1>1. IsFiniteSet(rows)
  <2>1. rows \subseteq RawWhere(c, ToFilters(q)) /\ IsFiniteSet(RawWhere(c, ToFilters(q)))
    BY PathsAgree
  <2> HIDE DEF rows
  <2> QED
    BY <2>1, FS_Subset
<1>2. performance = [s \in {table[i].severity : i \in rows} |->
                       [escalated    |-> Cardinality({i \in rows : table[i].severity = s}),
                        acknowledged |-> Cardinality({i \in rows : table[i].severity = s /\ table[i].acked})]]
  BY Zenon DEF EscalationPerformance
<1> HIDE DEF rows, performance
<1>3. /\ DOMAIN performance = {table[i].severity : i \in rows}
      /\ \A s \in DOMAIN performance :
           performance[s].escalated = Cardinality({i \in rows : table[i].severity = s})
  BY <1>2
<1>4. counts = groups
  BY <1>3
<1>5. counts = [s \in {key[i] : i \in rows} |-> Cardinality({i \in rows : key[i] = s})]
  <2>1. {key[i] : i \in rows} = {table[i].severity : i \in rows}
    OBVIOUS
  <2>2. \A s : {i \in rows : key[i] = s} = {i \in rows : table[i].severity = s}
    OBVIOUS
  <2> QED
    BY Zenon, <1>4, <2>1, <2>2
<1> HIDE DEF groups
<1>6. DOMAIN counts = DOMAIN performance /\ \A s \in DOMAIN performance : counts[s] = performance[s].escalated
  OBVIOUS
<1> HIDE DEF counts, key
<1>7. SumOver(counts, DOMAIN performance) = Cardinality(rows)
  BY <1>1, <1>5, <1>6, GroupsCountAll
<1> DEFINE sum == SumOver(counts, DOMAIN performance)
           bare == (CHOOSE f : f = [some \in SUBSET (DOMAIN performance) |->
                      IF some = {} THEN 0
                      ELSE performance[CHOOSE k \in some : TRUE].escalated
                             + f[some \ {CHOOSE k \in some : TRUE}]])[DOMAIN performance]
<1>8. Total(LAMBDA s : performance[s].escalated, DOMAIN performance) = bare
  BY Zenon DEF Total, MapThenSumSet, MapThenFoldSet
<1>9. bare = SumOver(counts, DOMAIN performance)
  <2>1. \A f : [some \in SUBSET (DOMAIN performance) |->
                  IF some = {} THEN 0
                  ELSE performance[CHOOSE k \in some : TRUE].escalated
                         + f[some \ {CHOOSE k \in some : TRUE}]]
               = SumStep(counts, DOMAIN performance, f)
    BY <1>6 DEF SumStep
  <2> QED
    BY Zenon, <2>1 DEF SumOver
<1> HIDE DEF bare
<1>10. Total(LAMBDA s : performance[s].escalated, DOMAIN performance) = Cardinality(rows)
  BY <1>7, <1>8, <1>9
<1> QED
  BY <1>10 DEF rows, performance

LEMMA SummaryAgrees ==
  ASSUME Typed, NEW c \in Clearances
  PROVE  LET summary == Summary(c)
         IN  Total(LAMBDA stage : summary[stage], Stages) = Cardinality(VisibilityScope(table, c))
<1> DEFINE rows    == VisibilityScope(table, c)
           key     == [i \in rows |-> table[i].stage]
           summary == Summary(c)
           groups  == CountByStage(c)
<1>1. rows \subseteq DOMAIN table
  BY DEF VisibilityScope
<1>2. IsFiniteSet(rows)
  <2>1. IsFiniteSet(DOMAIN table)
    BY FS_Subset, ListsAssumption DEF Typed
  <2> HIDE DEF rows
  <2> QED
    BY <1>1, <2>1, FS_Subset
<1>3. groups = [k \in {table[i].stage : i \in rows} |-> Cardinality({i \in rows : table[i].stage = k})]
  BY Zenon DEF CountByStage, Groups
<1>4. summary = [k \in Stages |-> IF k \in DOMAIN groups THEN groups[k] ELSE 0]
  BY DEF Summary, ZeroFilled
<1> HIDE DEF rows, groups, summary
<1>5. ASSUME NEW k \in Stages
      PROVE  summary[k] = Cardinality({i \in rows : key[i] = k})
  <2>1. {i \in rows : key[i] = k} = {i \in rows : table[i].stage = k}
    OBVIOUS
  <2>2. CASE k \in {table[i].stage : i \in rows}
    BY <1>3, <1>4, <2>1, <2>2
  <2>3. CASE k \notin {table[i].stage : i \in rows}
    <3>1. {i \in rows : table[i].stage = k} = {} /\ k \notin DOMAIN groups
      BY <1>3, <2>3
    <3> QED
      BY <1>4, <2>1, <3>1, FS_EmptySet
  <2> QED
    BY <2>2, <2>3
<1>6. IsFiniteSet(Stages)
  <2>1. Stages = {"REPORTED"} \union {"TRIAGE"} \union {"INVESTIGATION"}
                   \union {"PENDING_CLOSURE"} \union {"CLOSED"}
    BY DEF Stages
  <2> QED
    BY <2>1, FS_Singleton, FS_Union
<1>7. Having(rows, key, Stages) = rows
  <2>1. \A i \in rows : table[i].stage \in Stages
    BY <1>1 DEF Typed, Columns
  <2> QED
    BY <2>1 DEF Having
<1> HIDE DEF key
<1>8. SumOver(summary, Stages) = Cardinality(rows)
  BY <1>2, <1>5, <1>6, <1>7, SumOfGroups
<1>9. Total(LAMBDA stage : summary[stage], Stages) = SumOver(summary, Stages)
  BY Zenon DEF Total, MapThenSumSet, MapThenFoldSet, SumOver, SumStep
<1>10. Total(LAMBDA stage : summary[stage], Stages) = Cardinality(rows)
  BY <1>8, <1>9
<1> QED
  BY <1>10 DEF rows, summary

\* A period up to a date has all of that day.
LEMMA DayIsWhole ==
  ASSUME Typed, NEW c \in Clearances, NEW q \in Queries, q.dateOnly, q.type = {}, q.stage = {}
  PROVE  /\ RawWhere(c, ToFilters(q)) = UpToDay(q) \intersect VisibilityScope(table, c)
         /\ VisibilityScope(table, c) \subseteq Incidents
<1> DEFINE f == ToFilters(q)
<1>1. \A i \in DOMAIN table : /\ i \in Incidents /\ table[i].severity \in Severities
                              /\ CreatedAt[i] \in Nat
  BY ListsAssumption, ColumnParts DEF Typed
<1>2. /\ q.from \in Nat /\ q.to \in Nat /\ q.to % 2 = 0
      /\ f.from = q.from /\ f.to = q.to + 2 /\ f.type = {} /\ f.stage = {}
  BY QueriesAssumption DEF ToFilters, ExclusiveEndOfDay, DAY
<1> HIDE DEF f
<1>3. ASSUME NEW t \in Nat
      PROVE  t < q.to + 2 <=> t \div 2 <= q.to \div 2
  BY <1>2
<1>4. \A i : i \in RawWhere(c, f) <=> i \in UpToDay(q) /\ i \in VisibilityScope(table, c)
  <2> SUFFICES ASSUME NEW i \in DOMAIN table
               PROVE  i \in RawWhere(c, f) <=> i \in UpToDay(q) /\ i \in VisibilityScope(table, c)
    BY DEF RawWhere, VisibilityScope
  <2>1. i \in RawWhere(c, f) <=>
          /\ CanViewSeverity(c, table[i].severity) /\ CreatedAt[i] >= q.from /\ CreatedAt[i] < q.to + 2
    BY <1>1, <1>2 DEF RawWhere, VisibleSeverities, IsIn
  <2>2. i \in UpToDay(q) <=> q.from <= CreatedAt[i] /\ CreatedAt[i] \div 2 <= q.to \div 2
    BY <1>1 DEF UpToDay, DAY
  <2>3. CreatedAt[i] >= q.from <=> q.from <= CreatedAt[i]
    BY <1>1, <1>2
  <2>4. CreatedAt[i] < q.to + 2 <=> CreatedAt[i] \div 2 <= q.to \div 2
    BY <1>1, <1>3
  <2> QED
    BY <2>1, <2>2, <2>3, <2>4 DEF VisibilityScope
<1>5. RawWhere(c, f) = UpToDay(q) \intersect VisibilityScope(table, c)
  BY <1>4 DEF RawWhere
<1> QED
  BY <1>1, <1>5 DEF f, VisibilityScope

LEMMA ReportsAgreeOfTyped == Typed => ReportsAgree
<1> SUFFICES ASSUME Typed, NEW c \in Clearances, NEW q \in Queries
             PROVE  LET f           == ToFilters(q)
                        matrix      == Matrix(c, q)
                        overview    == Overview(c, f)
                        points      == Trend(c, f, q.bucket)
                        performance == EscalationPerformance(c, f)
                    IN /\ overview.total = matrix.grandTotal
                       /\ overview.total = Total(LAMBDA s : matrix.columnTotals[s], VisibleSeverities(c))
                       /\ overview.total = CountIncidentsInPeriod(c, f)
                       /\ overview.total = Total(LAMBDA k : points[k], DOMAIN points)
                       /\ overview.escalated =
                            Total(LAMBDA s : performance[s].escalated, DOMAIN performance)
                       /\ q.dateOnly /\ q.type = {} /\ q.stage = {} =>
                            /\ overview.total = Cardinality(UpToDay(q) \intersect VisibilityScope(table, c))
                            /\ UpToDay(q) = Incidents =>
                                 overview.total = Total(LAMBDA stage : Summary(c)[stage], Stages)
  BY Zenon DEF ReportsAgree
<1> DEFINE f        == ToFilters(q)
           n        == Cardinality(RawWhere(c, f))
           overview == Overview(c, f)
<1>1. overview.total = n /\ overview.escalated = Cardinality({i \in RawWhere(c, f) : table[i].escalated})
  BY DEF Overview
<1>2. /\ Matrix(c, q).grandTotal = n
      /\ Total(LAMBDA s : Matrix(c, q).columnTotals[s], VisibleSeverities(c)) = n
      /\ CountIncidentsInPeriod(c, f) = n
  BY Zenon, MatrixAgrees
<1>3. Total(LAMBDA k : Trend(c, f, q.bucket)[k], DOMAIN Trend(c, f, q.bucket)) = n
  BY Zenon, TrendAgrees
<1>4. Total(LAMBDA s : EscalationPerformance(c, f)[s].escalated, DOMAIN EscalationPerformance(c, f)) =
        Cardinality({i \in RawWhere(c, f) : table[i].escalated})
  BY Zenon, PerformanceAgrees
<1>5. ASSUME q.dateOnly, q.type = {}, q.stage = {}
      PROVE  n = Cardinality(UpToDay(q) \intersect VisibilityScope(table, c))
  BY Zenon, <1>5, DayIsWhole
<1>6. ASSUME q.dateOnly, q.type = {}, q.stage = {}, UpToDay(q) = Incidents
      PROVE  n = Total(LAMBDA stage : Summary(c)[stage], Stages)
  <2>1. UpToDay(q) \intersect VisibilityScope(table, c) = VisibilityScope(table, c)
    BY <1>6, DayIsWhole
  <2>2. n = Cardinality(VisibilityScope(table, c))
    BY <1>5, <1>6, <2>1
  <2>3. Total(LAMBDA stage : Summary(c)[stage], Stages) = Cardinality(VisibilityScope(table, c))
    BY Zenon, SummaryAgrees
  <2> QED
    BY <2>2, <2>3
<1> HIDE DEF overview, n
<1> QED
  BY Zenon, <1>1, <1>2, <1>3, <1>4, <1>5, <1>6 DEF f, overview

-------------------------------------------------------------------------------
(* The theorems.                                                            *)

LEMMA InvariantStep == IInv /\ [Next]_vars => IInv'
<1> SUFFICES ASSUME IInv, [Next]_vars PROVE IInv'
  OBVIOUS
<1>1. ASSUME NEW read \in Reads, OpenList(read) PROVE IInv'
  BY <1>1, OpenListStep
<1>2. CASE Count
  BY <1>2, CountStep
<1>3. CASE FindMany
  BY <1>3, FindManyStep
<1>4. CASE NextPage
  BY <1>4, NextPageStep
<1>5. CASE CloseList
  BY <1>5, CloseListStep
<1>6. ASSUME NEW i \in Incidents, Report(i) PROVE IInv'
  BY <1>6, ReportStep
<1>7. ASSUME NEW i \in DOMAIN table, NEW s \in SeverityInputs, ChangeSeverity(i, s) PROVE IInv'
  BY <1>7, ChangeSeverityStep
<1>8. ASSUME NEW i \in DOMAIN table, NEW who \in {Me, Other}, Assign(i, who) PROVE IInv'
  BY <1>8, AssignStep
<1>9. ASSUME NEW i \in DOMAIN table, Edit(i) PROVE IInv'
  BY <1>9, EditStep
<1>10. ASSUME NEW i \in DOMAIN table, Escalate(i) PROVE IInv'
  BY <1>10, EscalateStep
<1>11. ASSUME NEW c \in Clearances, SetClearance(c) PROVE IInv'
  BY <1>11, SetClearanceStep
<1>12. CASE UNCHANGED vars
  <2>1. UNCHANGED table /\ UNCHANGED clearance /\ UNCHANGED walk /\ UNCHANGED moves
    BY <1>12 DEF vars
  <2>2. Typed'
    BY <2>1 DEF IInv, Typed
  <2>3. Rows' = Rows /\ Passed' = Passed
    BY <2>1 DEF Rows, Passed
  <2>4. \A j : PlaceFits(j)' <=> PlaceFits(j)
    <3> SUFFICES ASSUME NEW j PROVE PlaceFits(j)' <=> PlaceFits(j)
      OBVIOUS
    <3>1. Before(j)' = Before(j)
      BY <2>1, <2>3, SameOrder DEF Before
    <3> QED
      BY <2>1, <2>3, <3>1 DEF PlaceFits
  <2>5. WalkFits'
    BY <2>1, <2>3, <2>4 DEF IInv, WalkFits
  <2> QED
    BY <2>2, <2>5 DEF IInv
<1> QED
  BY <1>1, <1>2, <1>3, <1>4, <1>5, <1>6, <1>7, <1>8, <1>9, <1>10, <1>11, <1>12 DEF Next

\* The inductive invariant: the walk's list is what it is said to hold, and each due row
\* that shares its key with none has its place where the pages so far leave it.
THEOREM Invariance == Spec => []IInv
<1> QED
  BY InvariantInit, InvariantStep, PTL DEF Spec

\* The variables keep their types, and no page has more rows than pageSize asks for.
THEOREM TypeCorrect == Spec => []TypeOK
<1>1. IInv => TypeOK
  BY DEF IInv, Typed, WalkFits, TypeOK
<1> QED
  BY <1>1, Invariance, PTL

\* Offset pages, for any incidents, list, sort and page size: a client that reads to the
\* last page misses a row that keeps its place and its key to itself only if another row
\* left the list or a write fell between a count and its page, and sees it twice only if
\* another came.
THEOREM PagesAccountForRows == Spec => []WalkAccountsForRows
<1>1. IInv => WalkAccountsForRows
  BY DEF IInv, WalkFits, PlaceFits, WalkAccountsForRows
<1> QED
  BY <1>1, Invariance, PTL

\* All reports of a period and filter tell of the same incidents, for any incidents,
\* types, clearances and queries: what the matrix, the trend and the performance report
\* sum from their groups is what the overview counts, through either path to the table.
THEOREM ReportsAlwaysAgree == Spec => []ReportsAgree
<1>1. IInv => ReportsAgree
  BY ReportsAgreeOfTyped DEF IInv
<1> QED
  BY <1>1, Invariance, PTL

===============================================================================
