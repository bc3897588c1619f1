----------------------------- MODULE IncidentLists -----------------------------
(***************************************************************************)
(* The offset lists of incidents (GET /incidents, /incidents/mine,         *)
(* /investigations/mine, /incidents/triage-queue, /closures/pending): a    *)
(* client asks for page after page of one of them while incidents are      *)
(* reported, regraded, moved along their stages and escalated, and while   *)
(* the client's clearance changes.                                         *)
(*                                                                         *)
(* A request authenticates, which reads the clearance, and then runs       *)
(* $transaction([count, findMany]): at READ COMMITTED each of the two sees *)
(* what is committed when it starts.  The endpoints behind the writes are  *)
(* in IncidentLifecycle and EscalationJob; here each is what it does to    *)
(* the columns that lists filter and sort by.                              *)
(***************************************************************************)
EXTENDS IncidentOperations, FiniteSets

CONSTANTS Incidents,      \* incident ids
          CreatedAt,      \* CreatedAt[i]: when i is reported
          Own,            \* the incidents the client reports
          FirstRows,      \* the columns incidents may have at first
          Me, Other,      \* the client, and whoever else incidents are assigned to
          SeverityInputs, \* the severities incidents are given
          Clearances,     \* the clearances the client is given
          Reads,          \* the lists the client may ask for, with filter and sort
          PageSize,       \* the pageSize of its requests
          MaxLevel,       \* the tiers of every high severity are 1..MaxLevel
          MaxMoves        \* bound: how many writes happen besides the reading

Lists == {"incidents", "mine", "investigations", "triageQueue", "closuresPending"}

\* The row of IncidentOperations (whose escalation cycle no list looks at), with
\* currentEscalationLevel, updatedAt and whether the row has an EscalationEvent.
Columns == [severity : Severities, stage : Stages, assignee : {NoUser, Me, Other},
            clockSet : BOOLEAN, cycle : {0}, acked : BOOLEAN, rca : BOOLEAN,
            level : 0..MaxLevel, updatedAt : Nat, escalated : BOOLEAN]

ASSUME ListsAssumption ==
  /\ IsFiniteSet(Incidents) /\ CreatedAt \in [Incidents -> Nat] /\ Own \subseteq Incidents
  /\ Cardinality({NoUser, Me, Other}) = 3 /\ FirstRows \subseteq Columns
  /\ SeverityInputs \subseteq Severities /\ Clearances \subseteq 1..4
  /\ Reads \subseteq [list : Lists, severity : SUBSET Severities,
                      sort : {"createdAt", "severity", "updatedAt"}, order : {"asc", "desc"}]
  /\ PageSize \in Nat \ {0} /\ {MaxLevel, MaxMoves} \subseteq Nat

VARIABLES table,      \* table[i]: the columns of an incident, for those reported by now
          clearance,  \* the client's User.clearanceLevel
          walk,       \* the client's walk over the pages of one list
          moves       \* writes so far

vars == <<table, clearance, walk, moves>>

NoWalk == [pc |-> "none"]

-------------------------------------------------------------------------------
(* What each list holds, and its order (incident.repository.ts).            *)

\* visibleSeverities and visibilityScope.
VisibilityScope(t, c) == {i \in DOMAIN t : CanViewSeverity(c, t[i].severity)}

\* effectiveSeverities: nothing requested is everything allowed.
EffectiveSeverities(c, requested) ==
  {s \in Severities : CanViewSeverity(c, s) /\ (requested = {} \/ s \in requested)}

\* buildWhere, with one filter standing for all of them.
BuildWhere(t, c, requested) ==
  {i \in VisibilityScope(t, c) : t[i].severity \in EffectiveSeverities(c, requested)}

TriageQueueWhere(t, c) ==
  {i \in VisibilityScope(t, c) :
     \/ t[i].stage \in {"REPORTED", "TRIAGE"}
     \/ t[i].clockSet /\ ~t[i].acked /\ t[i].stage # "CLOSED"}

MineWhere(t, c) == VisibilityScope(t, c) \intersect Own

MyInvestigationsWhere(t, c) == {i \in VisibilityScope(t, c) : t[i].assignee = Me}

ClosuresPendingWhere(t, c) == {i \in VisibilityScope(t, c) : t[i].stage = "PENDING_CLOSURE"}

Listed(t, read, c) ==
  CASE read.list = "incidents"       -> BuildWhere(t, c, read.severity)
    [] read.list = "mine"            -> MineWhere(t, c)
    [] read.list = "investigations"  -> MyInvestigationsWhere(t, c)
    [] read.list = "triageQueue"     -> TriageQueueWhere(t, c)
    [] read.list = "closuresPending" -> ClosuresPendingWhere(t, c)

\* The column GET /incidents sorts by.
SortKey(sort, i) ==
  CASE sort = "createdAt" -> CreatedAt[i]
    [] sort = "severity"  -> SeverityRank(table[i].severity)
    [] sort = "updatedAt" -> table[i].updatedAt

\* ORDER BY.  No list has a tie-break: rows with the same key come in any order,
\* and not in the same one on every page.
Precedes(read, i, j) ==
  CASE read.list = "incidents" ->
         IF read.order = "asc" THEN SortKey(read.sort, i) < SortKey(read.sort, j)
                               ELSE SortKey(read.sort, i) > SortKey(read.sort, j)
    [] read.list \in {"mine", "investigations"} -> CreatedAt[i] > CreatedAt[j]
    [] read.list = "triageQueue" ->
         \/ table[i].level > table[j].level
         \/ table[i].level = table[j].level /\ CreatedAt[i] < CreatedAt[j]
    [] read.list = "closuresPending" -> table[i].updatedAt < table[j].updatedAt

Orders(read, rows) ==
  {order \in [1..Cardinality(rows) -> rows] :
     \A p, q \in DOMAIN order :
       p < q => order[p] # order[q] /\ ~Precedes(read, order[q], order[p])}

\* Mutant: pages counted from 0.
SkipWholePages(page) == page * PageSize

\* skip
Skip(page) == (page - 1) * PageSize

\* Mutant: one row more than the page, as the keyset lists fetch.
PagesOfPlusOne(read, rows, page) ==
  {{order[p] : p \in {q \in DOMAIN order : q > Skip(page) /\ q <= Skip(page) + PageSize + 1}} :
     order \in Orders(read, rows)}

\* The rows of a page, for each order the database may return the list in.
PagesOf(read, rows, page) ==
  {{order[p] : p \in {q \in DOMAIN order : q > Skip(page) /\ q <= Skip(page) + PageSize}} :
     order \in Orders(read, rows)}

\* buildOffsetPage
TotalPages(totalItems) ==
  LET pages == (totalItems + PageSize - 1) \div PageSize
  IN IF pages = 0 THEN 1 ELSE pages

-------------------------------------------------------------------------------
(* The walk.  What is noted besides the client's own state: the rows that   *)
(* were `due' when it began, and have been listed at the same key since;    *)
(* those ever tied with another; how often each was shown; whether a row    *)
(* has left, or come, meanwhile (a row whose key changed has done both);    *)
(* and whether a write fell between a count and its page.                   *)

\* The key of a row does not tell it from others: two rows may compare equal.
Tied(read, rows) ==
  {i \in rows : \E j \in rows \ {i} : ~Precedes(read, i, j) /\ ~Precedes(read, j, i)}

OpenList(read) ==
  /\ walk = NoWalk
  /\ walk' = [pc |-> "count", read |-> read, page |-> 1, actor |-> clearance,
              total |-> 0, items |-> {},
              due |-> Listed(table, read, clearance), tied |-> {},
              shown |-> [i \in Incidents |-> 0],
              left |-> FALSE, came |-> FALSE, torn |-> FALSE]
  /\ UNCHANGED <<table, clearance, moves>>

Count ==
  /\ walk.pc = "count"
  /\ walk' = [walk EXCEPT !.pc = "find", !.total = Cardinality(Listed(table, walk.read, walk.actor))]
  /\ UNCHANGED <<table, clearance, moves>>

FindMany ==
  LET rows == Listed(table, walk.read, walk.actor)
  IN /\ walk.pc = "find"
     /\ \E items \in PagesOf(walk.read, rows, walk.page) :
          walk' = [walk EXCEPT !.pc = IF walk.page < TotalPages(walk.total) THEN "next" ELSE "done",
                               !.items = items,
                               !.tied = @ \union Tied(walk.read, rows),
                               !.shown = [i \in Incidents |->
                                            IF i \in items /\ @[i] < 2 THEN @[i] + 1 ELSE @[i]]]
     /\ UNCHANGED <<table, clearance, moves>>

\* authenticate reads the user again on every request.
Actor == clearance

\* The next page is a request of its own.
NextPage ==
  /\ walk.pc = "next"
  /\ LET before == Listed(table, walk.read, walk.actor)
         after  == Listed(table, walk.read, Actor)
     IN walk' = [walk EXCEPT !.pc = "count", !.page = @ + 1, !.items = {},
                             !.actor = Actor,
                             !.due = @ \intersect after,
                             !.left = @ \/ ~(before \subseteq after),
                             !.came = @ \/ ~(after \subseteq before)]
  /\ UNCHANGED <<table, clearance, moves>>

\* The client has what it wanted, or gives up.
CloseList ==
  /\ walk.pc \in {"next", "done"}
  /\ walk' = NoWalk
  /\ UNCHANGED <<table, clearance, moves>>

-------------------------------------------------------------------------------
(* The writes.                                                              *)

\* The part of the key the list's order uses.
SameKey(read, i, row) ==
  CASE read.list = "incidents"       -> \/ read.sort = "createdAt"
                                        \/ read.sort = "severity" /\ table[i].severity = row.severity
    [] read.list \in {"mine", "investigations"} -> TRUE
    [] read.list = "triageQueue"     -> table[i].level = row.level
    [] read.list = "closuresPending" -> FALSE

\* A write gives incident i the columns `row'; what that does to the walk.
Write(i, row) ==
  /\ moves < MaxMoves
  /\ moves' = moves + 1
  /\ table' = [j \in DOMAIN table \union {i} |-> IF j = i THEN row ELSE table[j]]
  /\ IF walk = NoWalk THEN UNCHANGED walk
     ELSE LET was  == i \in Listed(table, walk.read, walk.actor)
              is   == i \in Listed(table', walk.read, walk.actor)
              kept == was /\ is /\ SameKey(walk.read, i, row)
          IN walk' = [walk EXCEPT !.due = IF kept THEN @ ELSE @ \ {i},
                                  !.left = @ \/ (was /\ ~kept),
                                  !.came = @ \/ (is /\ ~kept),
                                  !.torn = @ \/ walk.pc = "find"]
  /\ UNCHANGED clearance

Latest == CHOOSE t \in {CreatedAt[i] : i \in Incidents} : \A i \in Incidents : CreatedAt[i] <= t

\* @updatedAt: every write of the row sets it.
Changed(i, row) == Write(i, [row EXCEPT !.cycle = 0, !.updatedAt = Latest + moves + 1])

Report(i) ==
  /\ i \notin DOMAIN table
  /\ \E s \in SeverityInputs :
       LET new == NewRow(s)
       IN Write(i, [severity |-> s, stage |-> new.stage, assignee |-> new.assignee,
                    clockSet |-> new.clockSet, cycle |-> 0, acked |-> new.acked, rca |-> new.rca,
                    level |-> 0, updatedAt |-> CreatedAt[i], escalated |-> FALSE])

\* Whom a raise unassigns: the client by its clearance, another by one not known here.
DroppedBy(row, s) ==
  IF row.assignee = Other THEN {NoUser, Other}
  ELSE IF row.assignee = Me /\ MustUnassignOnRaise(clearance, s) THEN {Me} ELSE {NoUser}

ChangeSeverity(i, s) ==
  LET row == table[i]
      clock == ApplySeverityChange([severity |-> row.severity, since |-> 0, level |-> row.level,
                                    cycle |-> 0, acked |-> row.acked], s, 0)
  IN /\ MayChangeSeverity(row, s)
     /\ \E dropped \in DroppedBy(row, s) :
          Changed(i, [SeverityChanged(row, row, s, dropped) EXCEPT !.level = clock.level])

Assign(i, who) ==
  /\ MayAssign(table[i])
  /\ who = Me => CanAssignInvestigator(clearance, table[i].severity)
  /\ Changed(i, Assigned(table[i], table[i], who))

\* The endpoints that move an incident without regrading it.
Edit(i) ==
  LET row == table[i]
  IN \/ MayTriage(row) /\ Changed(i, Triaged(row))
     \/ MayUnassign(row) /\ Changed(i, Unassigned(row, row))
     \/ MayAcknowledge(row) /\ Changed(i, Acknowledged(row))
     \/ MayPropose(row, TRUE, Other) /\ Changed(i, Proposed(row))
     \/ MayApprove(row) /\ Changed(i, Approved(row))
     \/ MayReject(row) /\ Changed(i, Rejected(row))

\* The escalation job raises the level of a row it selects.
Escalate(i) ==
  /\ table[i].clockSet /\ ~table[i].acked /\ table[i].stage # "CLOSED"
  /\ table[i].level < MaxLevel
  /\ Changed(i, [table[i] EXCEPT !.level = @ + 1, !.escalated = TRUE])

SetClearance(c) ==
  /\ moves < MaxMoves /\ c # clearance
  /\ moves' = moves + 1
  /\ clearance' = c
  /\ UNCHANGED <<table, walk>>

-------------------------------------------------------------------------------
Init ==
  /\ table \in UNION {[there -> FirstRows] : there \in SUBSET Incidents}
  /\ clearance \in Clearances
  /\ walk = NoWalk
  /\ moves = 0

Next ==
  \/ \E read \in Reads : OpenList(read)
  \/ Count \/ FindMany \/ NextPage \/ CloseList
  \/ \E i \in Incidents : Report(i)
  \/ \E i \in DOMAIN table :
       \/ \E s \in SeverityInputs : ChangeSeverity(i, s)
       \/ \E who \in {Me, Other} : Assign(i, who)
       \/ Edit(i) \/ Escalate(i)
  \/ \E c \in Clearances : SetClearance(c)

Spec == Init /\ [][Next]_vars

-------------------------------------------------------------------------------
(* Properties.                                                              *)

Walks == [pc : {"count", "find", "next", "done"}, read : Reads, page : Nat \ {0},
          actor : Clearances, total : Nat, items : SUBSET Incidents,
          due : SUBSET Incidents, tied : SUBSET Incidents, shown : [Incidents -> 0..2],
          left : BOOLEAN, came : BOOLEAN, torn : BOOLEAN]

\* The variables have their types; a page has at most PageSize rows.
TypeOK ==
  /\ DOMAIN table \subseteq Incidents /\ \A i \in DOMAIN table : table[i] \in Columns
  /\ clearance \in Clearances
  /\ walk = NoWalk \/ (walk \in Walks /\ Cardinality(walk.items) <= PageSize)
  /\ moves \in 0..MaxMoves

\* Offset pages (pagination.ts:11) go wrong only in these ways.  A row that keeps its
\* place is missed by a client that reads to the last page only if another left the
\* list, or a write fell between a count and its page, which may be the last by a
\* total that is no longer true; it is shown twice only if another came.  Rows that
\* share their sort key with another have neither promise.
WalkAccountsForRows ==
  walk # NoWalk =>
    \A i \in walk.due \ walk.tied :
      /\ walk.pc = "done" /\ walk.shown[i] = 0 => walk.left \/ walk.torn
      /\ walk.shown[i] > 1 => walk.came
===============================================================================
