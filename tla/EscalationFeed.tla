---------------------------- MODULE EscalationFeed ----------------------------
(***************************************************************************)
(* GET /escalations, page after page, while incidents are escalated,       *)
(* acknowledged, regraded and closed and the reader's own clearance        *)
(* changes.  Each page is a request of its own: it authenticates, which    *)
(* reads the clearance, runs one query for the incidents after the cursor  *)
(* and a second one for their events, and skips a row that has none.       *)
(*                                                                         *)
(* The escalation job is here by what one of its transactions does: an     *)
(* event, then the counter, then the commit.  Time only orders the band    *)
(* entries; every level may be due at any moment.                          *)
(*                                                                         *)
(* The counter may be raised on an incident that left the band after its   *)
(* event was written.  Such a row has a level and no highSeveritySince: it *)
(* sorts last in its level, no cursor of its level reaches it, and a page  *)
(* that would have to end on it cannot be answered.                        *)
(***************************************************************************)
EXTENDS IncidentPolicy, FiniteSets

CONSTANTS Incidents,      \* incident ids, in the order of the feed's id tie-break
          PageSize,       \* the pageSize of the client's requests
          MaxLevel,       \* the tiers of every high severity are 1..MaxLevel
          Reported,       \* the high severities the incidents have at first
          SeverityInputs, \* the severities incidents are given
          Clearances,     \* the clearances the reader is given
          MaxTime,        \* bound: band entries happen by then
          MaxMoves        \* bound: how many writes happen besides the reading

ASSUME IncidentsAssumption == Incidents \subseteq Nat /\ IsFiniteSet(Incidents)

ASSUME PageAssumption == PageSize \in Nat \ {0}

ASSUME BoundsAssumption ==
  /\ Reported \subseteq {"HIGH", "CRITICAL"}
  /\ SeverityInputs \subseteq Severities
  /\ Clearances \subseteq 1..4
  /\ {MaxLevel, MaxTime, MaxMoves} \subseteq Nat

VARIABLES incident,   \* incident[i]: the clock columns of table Incident
          fired,      \* the keys of the committed EscalationEvent rows
          open,       \* the job's transaction between its INSERT and its commit
          clearance,  \* the reader's User.clearanceLevel
          walk,       \* the reader's walk over the feed
          moves       \* writes so far

vars == <<incident, fired, open, clearance, walk, moves>>

Clocked == [severity : Severities, since : (0..MaxTime) \union {Never}, cycle : Nat,
            level : 0..MaxLevel, acked : BOOLEAN, closed : BOOLEAN]

Keys == Incidents \X Nat \X (1..MaxLevel)

NoEscalation == [level |-> 0]

NoWalk == [pc |-> "none"]

NoCursor == <<>>

-------------------------------------------------------------------------------
(* The feed's order.                                                        *)

\* currentEscalationLevel, highSeveritySince, id of a row.
Position(i) == <<incident[i].level, incident[i].since, i>>

\* ASC of a column that may be null: nulls come last.
Sooner(t, u) == t # Never /\ (u = Never \/ t < u)

\* ORDER BY currentEscalationLevel DESC, highSeveritySince ASC, id ASC.
Precedes(a, b) ==
  \/ a[1] > b[1]
  \/ a[1] = b[1] /\ Sooner(a[2], b[2])
  \/ a[1] = b[1] /\ a[2] = b[2] /\ a[3] < b[3]

\* Mutant: the predicate without its third branch, the tie-break by id.
PastCursorWithoutId(cursor, at) ==
  \/ cursor = NoCursor
  \/ at[1] < cursor[1]
  \/ at[1] = cursor[1] /\ at[2] # Never /\ at[2] > cursor[2]

\* Mutant: the comparison by id not strict.
PastCursorInclusive(cursor, at) ==
  \/ PastCursorWithoutId(cursor, at)
  \/ at[1] = cursor[1] /\ at[2] # Never /\ at[2] = cursor[2] /\ at[3] >= cursor[3]

\* escalationFeedCursorWhere.  A null is neither greater than the cursor's
\* timestamp nor equal to it.
PastCursor(cursor, at) ==
  \/ cursor = NoCursor
  \/ at[1] < cursor[1]
  \/ /\ at[1] = cursor[1] /\ at[2] # Never
     /\ at[2] > cursor[2] \/ (at[2] = cursor[2] /\ at[3] > cursor[3])

\* activeEscalationWhere without the clearance.
ActivelyEscalated(i) == incident[i].level > 0 /\ ~incident[i].acked /\ ~incident[i].closed

CurrentKey(i) == <<i, incident[i].cycle, incident[i].level>>

\* On the reader's list: escalated, readable, and with its event.
Listed(i) ==
  /\ ActivelyEscalated(i)
  /\ CanViewSeverity(clearance, incident[i].severity)
  /\ CurrentKey(i) \in fired

\* What a walk owes the reader: the rows of the list that a cursor can reach.
Due(i) == Listed(i) /\ incident[i].since # Never

-------------------------------------------------------------------------------
\* Incidents in their first cycle, with an event for every level so far.
Init ==
  /\ incident \in [Incidents ->
       {[severity |-> s, since |-> t, cycle |-> 1, level |-> l, acked |-> FALSE, closed |-> FALSE] :
          s \in Reported, t \in 0..MaxTime, l \in 0..MaxLevel}]
  /\ fired = {k \in Incidents \X {1} \X (1..MaxLevel) : k[3] <= incident[k[1]].level}
  /\ open = NoEscalation
  /\ clearance \in Clearances
  /\ walk = NoWalk
  /\ moves = 0

\* A write: it is noted which incidents were off the list for the reader, had no
\* clock, moved up in its order, or moved down, since the walk began.
Moves ==
  /\ moves < MaxMoves
  /\ moves' = moves + 1
  /\ walk' = IF walk = NoWalk THEN NoWalk ELSE
       [walk EXCEPT
          !.ahead  = @ \union {i \in Incidents : ~Due(i)' \/ Precedes(Position(i)', Position(i))},
          !.behind = @ \union {i \in Incidents : Precedes(Position(i), Position(i)')}]

Write(i, new) ==
  /\ incident' = [incident EXCEPT ![i] = new]
  /\ UNCHANGED <<fired, open, clearance>>
  /\ Moves

Acknowledge(i) ==
  /\ ~incident[i].closed
  /\ ~incident[i].acked
  /\ Write(i, [incident[i] EXCEPT !.acked = TRUE])

Close(i) ==
  /\ ~incident[i].closed
  /\ Write(i, [incident[i] EXCEPT !.closed = TRUE])

\* The level a change within the band writes back is the one it read, and the
\* job may have raised the column since.
ChangeSeverity(i) ==
  /\ ~incident[i].closed
  /\ \E next \in SeverityInputs \ {incident[i].severity}, at \in 0..MaxTime,
       level \in 0..incident[i].level :
       LET clock == ApplySeverityChange([incident[i] EXCEPT !.level = level], next, at)
       IN  /\ at >= incident[i].since
           /\ Write(i, [severity |-> next, since |-> clock.since, cycle |-> clock.cycle,
                        level |-> clock.level, acked |-> clock.acked, closed |-> FALSE])

\* changeClearance, of the reader.
SetClearance ==
  /\ clearance' \in Clearances \ {clearance}
  /\ UNCHANGED <<incident, fired, open>>
  /\ Moves

\* The INSERT of a level that is due and has no event yet.
InsertEvent(i) ==
  /\ open = NoEscalation
  /\ ~incident[i].acked
  /\ ~incident[i].closed
  /\ InHighBand(incident[i].severity)
  /\ moves < MaxMoves
  /\ \E l \in incident[i].level + 1 .. MaxLevel :
       /\ <<i, incident[i].cycle, l>> \notin fired
       /\ \A m \in incident[i].level + 1 .. l - 1 : <<i, incident[i].cycle, m>> \in fired
       /\ open' = [on |-> i, cycle |-> incident[i].cycle, level |-> l]
  /\ UNCHANGED <<incident, fired, clearance, walk, moves>>

\* The counter, if it is lower, and the commit of both.
CommitEscalation ==
  /\ open # NoEscalation
  /\ fired' = fired \union {<<open.on, open.cycle, open.level>>}
  /\ incident' = [incident EXCEPT ![open.on].level = IF @ < open.level THEN open.level ELSE @]
  /\ open' = NoEscalation
  /\ UNCHANGED clearance
  /\ Moves

RollBack ==
  /\ open # NoEscalation
  /\ open' = NoEscalation
  /\ UNCHANGED <<incident, fired, clearance, walk, moves>>

-------------------------------------------------------------------------------
(* listFeed.                                                                *)

Walks(w) == walk' = w /\ UNCHANGED <<incident, fired, open, clearance, moves>>

\* The first page is asked for without a cursor; authenticate reads the user.
BeginWalk ==
  /\ walk = NoWalk
  /\ Walks([pc |-> "page", cleared |-> clearance, cursor |-> NoCursor, rows |-> {}, more |-> FALSE,
            shown |-> {}, ahead |-> {i \in Incidents : ~Due(i)}, behind |-> {}])

ContinueWalk ==
  /\ walk.pc = "between"
  /\ Walks([walk EXCEPT !.pc = "page", !.cleared = clearance])

\* A row of the result of the page query: what the rest of the request knows.
RowOf(i) == [at |-> Position(i), cycle |-> incident[i].cycle]

\* The WHERE clause of findActiveEscalationsPage.
Found ==
  {i \in Incidents : /\ ActivelyEscalated(i)
                     /\ CanViewSeverity(walk.cleared, incident[i].severity)
                     /\ PastCursor(walk.cursor, Position(i))}

\* Mutant: the row fetched to learn whether there are more is left on the page.
OnPageWithExtra(found) ==
  {i \in found : Cardinality({j \in found : Precedes(Position(j), Position(i))}) < PageSize + 1}

\* slice(0, pageSize) of the rows in order.
OnPage(found) ==
  {i \in found : Cardinality({j \in found : Precedes(Position(j), Position(i))}) < PageSize}

ReadPage ==
  /\ walk.pc = "page"
  /\ Walks([walk EXCEPT !.pc = "join", !.rows = {RowOf(i) : i \in OnPage(Found)},
                        !.more = Cardinality(Found) > PageSize])

\* The rows that findCurrentEvents finds an event for.
Items == {r \in walk.rows : <<r.at[3], r.cycle, r.at[1]>> \in fired}

Answered == {r.at[3] : r \in Items}

LastOf(rows) == CHOOSE r \in rows : \A s \in rows \ {r} : Precedes(s.at, r.at)

\* encodeEscalationFeedCursor throws on a last row without a timestamp.
NoCursorFor(w) == w.more /\ LastOf(w.rows).at[2] = Never

\* The answer, with the cursor of the last row of the page, shown or skipped.
Answer ==
  /\ walk.pc = "join"
  /\ ~NoCursorFor(walk)
  /\ Walks(IF walk.more
           THEN [walk EXCEPT !.pc = "between", !.cursor = LastOf(walk.rows).at, !.rows = {},
                             !.shown = @ \union Answered]
           ELSE NoWalk)

\* The request fails with the page already read and joined; the reader has the
\* cursor it asked with, and may ask again.
AnswerFails ==
  /\ walk.pc = "join"
  /\ NoCursorFor(walk)
  /\ Walks([walk EXCEPT !.pc = "between", !.rows = {}, !.more = FALSE])

Next ==
  \/ \E i \in Incidents : Acknowledge(i) \/ Close(i) \/ ChangeSeverity(i) \/ InsertEvent(i)
  \/ CommitEscalation \/ RollBack \/ SetClearance
  \/ BeginWalk \/ ContinueWalk \/ ReadPage \/ Answer \/ AnswerFails

Spec == Init /\ [][Next]_vars

-------------------------------------------------------------------------------
(* Properties.                                                              *)

Positions == (0..MaxLevel) \X ((0..MaxTime) \union {Never}) \X Incidents

\* A cursor always has a timestamp.
Cursors == {p \in Positions : p[2] # Never} \union {NoCursor}

IsWalk(w) ==
  /\ w.pc \in {"page", "join", "between"}
  /\ w.cleared \in Clearances
  /\ w.cursor \in Cursors
  /\ w.rows \subseteq [at : Positions, cycle : Nat]
  /\ Cardinality(w.rows) <= PageSize
  /\ w.more \in BOOLEAN
  /\ {w.shown, w.ahead, w.behind} \subseteq SUBSET Incidents

\* A page never has more rows than were asked for.
TypeOK ==
  /\ incident \in [Incidents -> Clocked]
  /\ fired \subseteq Keys
  /\ open = NoEscalation \/ open \in [on : Incidents, cycle : Nat, level : 1..MaxLevel]
  /\ clearance \in Clearances
  /\ walk = NoWalk \/ IsWalk(walk)
  /\ moves \in 0..MaxMoves

\* The keyset walk is complete for rows with a clock: when the last page is
\* answered, every incident that stayed on the reader's list all the time, with
\* its clock running, and was not escalated past the cursor has been shown,
\* whatever the others did between the pages and whichever pages failed.
NobodyMissed ==
  [][Answer /\ walk' = NoWalk => Incidents \ walk.ahead \subseteq walk.shown \union Answered]_vars

\* An incident is shown a second time only if it fell behind meanwhile.
ShownOnce == [][Answer => walk.shown \intersect Answered \subseteq walk.behind]_vars
===============================================================================
