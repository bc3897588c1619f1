------------------------------- MODULE Analytics -------------------------------
(***************************************************************************)
(* What GET /analytics/... and GET /incidents/summary report of the table  *)
(* of IncidentLists.  Each is one statement, so that nothing interleaves   *)
(* inside it; but the matrix goes through Prisma and the others through    *)
(* SQL of their own, and each builds clearance, period and filter again.   *)
(*                                                                         *)
(* Two units of time are a day: an even time is a midnight (UTC).  The     *)
(* medians of the acknowledgement times are PostgreSQL's and left out.     *)
(***************************************************************************)
EXTENDS IncidentLists, FiniteSetsExt

CONSTANTS TypeOf,        \* TypeOf[i]: an incident's type, which never changes
          IncidentTypes, \* IncidentTypeValues
          Queries        \* the queries asked: period, filters, bucket

DAY == 2

\* `to' is a date alone, or a time: periodRefinement has it no earlier than `from'.
ASSUME QueriesAssumption ==
  /\ IsFiniteSet(IncidentTypes) /\ TypeOf \in [Incidents -> IncidentTypes]
  /\ Queries \subseteq [from : Nat, to : Nat, dateOnly : BOOLEAN, type : SUBSET IncidentTypes,
                        stage : SUBSET Stages, bucket : Nat \ {0}]
  /\ \A q \in Queries : q.from <= q.to /\ (q.dateOnly => q.to % DAY = 0)

Total(count(_), keys) == MapThenSumSet(count, keys)

-------------------------------------------------------------------------------
(* Bounds and filters.                                                      *)

ExclusiveEndOfDay(q) == IF q.dateOnly THEN q.to + DAY ELSE q.to

\* What every repository function is given: the end is exclusive from here on.
ToFilters(q) ==
  [from |-> q.from, to |-> ExclusiveEndOfDay(q), type |-> q.type, stage |-> q.stage]

IsIn(x, filter) == filter = {} \/ x \in filter

\* Mutant: `lte' for `lt' on the Prisma path.
AnalyticsPeriodWhereInclusive(c, f) ==
  {i \in VisibilityScope(table, c) :
     /\ f.from <= CreatedAt[i] /\ CreatedAt[i] <= f.to
     /\ IsIn(TypeOf[i], f.type) /\ IsIn(table[i].stage, f.stage)}

\* analyticsPeriodWhere, of the Prisma path.
AnalyticsPeriodWhere(c, f) ==
  {i \in VisibilityScope(table, c) :
     /\ f.from <= CreatedAt[i] /\ CreatedAt[i] < f.to
     /\ IsIn(TypeOf[i], f.type) /\ IsIn(table[i].stage, f.stage)}

VisibleSeverities(c) == {s \in Severities : CanViewSeverity(c, s)}

\* The WHERE clause of the raw SQL: severityArraySql, the period, typeClauseSql,
\* stageClauseSql.
RawWhere(c, f) ==
  {i \in DOMAIN table :
     /\ table[i].severity \in VisibleSeverities(c)
     /\ CreatedAt[i] >= f.from /\ CreatedAt[i] < f.to
     /\ IsIn(TypeOf[i], f.type) /\ IsIn(table[i].stage, f.stage)}

-------------------------------------------------------------------------------
(* The reports.  A GROUP BY has no row for an empty group; a report that    *)
(* shows every combination fills in the zeros.                              *)

\* GROUP BY key: the size of each group there is.
Groups(rows, key(_)) ==
  [k \in {key(i) : i \in rows} |-> Cardinality({i \in rows : key(i) = k})]

ZeroFilled(groups, keys) == [k \in keys |-> IF k \in DOMAIN groups THEN groups[k] ELSE 0]

CountByStage(c) == Groups(VisibilityScope(table, c), LAMBDA i : table[i].stage)

\* GET /incidents/summary
Summary(c) == ZeroFilled(CountByStage(c), Stages)

GroupIncidentsByTypeAndSeverity(c, f) ==
  Groups(AnalyticsPeriodWhere(c, f), LAMBDA i : <<TypeOf[i], table[i].severity>>)

CountIncidentsInPeriod(c, f) == Cardinality(AnalyticsPeriodWhere(c, f))

\* The matrix sums its own cells: by type, by severity, and the types' sums again.
ToMatrixResponse(severities, groups) ==
  LET cells == ZeroFilled(groups, IncidentTypes \X severities)
      rowTotals == [type \in IncidentTypes |->
                      Total(LAMBDA key : cells[key], {type} \X severities)]
  IN [cells        |-> cells,
      rowTotals    |-> rowTotals,
      columnTotals |-> [s \in severities |-> Total(LAMBDA key : cells[key], IncidentTypes \X {s})],
      grandTotal   |-> Total(LAMBDA type : rowTotals[type], IncidentTypes)]

\* GET /analytics/by-type-severity
Matrix(c, q) ==
  ToMatrixResponse(VisibleSeverities(c), GroupIncidentsByTypeAndSeverity(c, ToFilters(q)))

\* GET /analytics/overview
Overview(c, f) ==
  LET rows == RawWhere(c, f)
  IN [total     |-> Cardinality(rows),
      open      |-> Cardinality({i \in rows : table[i].stage # "CLOSED"}),
      escalated |-> Cardinality({i \in rows : table[i].escalated})]

\* GET /analytics/trend: the groups by date_trunc of createdAt and severity.
Trend(c, f, bucket) ==
  Groups(RawWhere(c, f), LAMBDA i : <<CreatedAt[i] \div bucket, table[i].severity>>)

\* GET /analytics/escalation-performance, the severities that have one.
EscalationPerformance(c, f) ==
  LET rows == {i \in RawWhere(c, f) : table[i].escalated}
  IN [s \in {table[i].severity : i \in rows} |->
        [escalated    |-> Cardinality({i \in rows : table[i].severity = s}),
         acknowledged |-> Cardinality({i \in rows : table[i].severity = s /\ table[i].acked})]]

-------------------------------------------------------------------------------
(* Properties, read between walks: they are about the table alone.          *)

\* What a period from an instant up to a date should hold.
UpToDay(q) ==
  {i \in Incidents :
     q.from <= CreatedAt[i] /\ CreatedAt[i] \div DAY <= q.to \div DAY}

\* Every report of the same period and filter tells of the same incidents: the
\* matrix, summed either way, its independent count, the overview and the trend
\* have one total, and the overview's escalated ones are those of the performance
\* report (incident.repository.ts:182 and analytics.repository.ts:42 build their
\* bounds apart).  A period that ends with a date has all of that day (core/time.ts:42),
\* and what the summary counts is the period of all days.
ReportsAgree ==
  walk = NoWalk =>
    \A c \in Clearances, q \in Queries :
      LET f           == ToFilters(q)
          matrix      == Matrix(c, q)
          overview    == Overview(c, f)
          points      == Trend(c, f, q.bucket)
          performance == EscalationPerformance(c, f)
      IN /\ overview.total = matrix.grandTotal
         /\ overview.total = Total(LAMBDA s : matrix.columnTotals[s], VisibleSeverities(c))
         /\ overview.total = CountIncidentsInPeriod(c, f)
         /\ overview.total = Total(LAMBDA k : points[k], DOMAIN points)
         /\ overview.escalated = Total(LAMBDA s : performance[s].escalated, DOMAIN performance)
         /\ q.dateOnly /\ q.type = {} /\ q.stage = {} =>
              /\ overview.total = Cardinality(UpToDay(q) \intersect VisibilityScope(table, c))
              /\ UpToDay(q) = Incidents =>
                   overview.total = Total(LAMBDA stage : Summary(c)[stage], Stages)
===============================================================================
