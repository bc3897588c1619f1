----------------------------- MODULE Notifications -----------------------------
(***************************************************************************)
(* Who is told of an escalation, and what a recipient then reads           *)
(* (escalation.job.ts, notification.service.ts).  A run of the job reads   *)
(* its recipients once, severity by severity, reads a batch of incidents,  *)
(* and writes each due event with one notification per recipient in one    *)
(* transaction.  Meanwhile users are promoted, cleared, deactivated, and   *)
(* incidents are regraded, acknowledged and closed.  One recipient reads   *)
(* GET /notifications page by page, each with the count of its unread, and *)
(* marks some as read.                                                     *)
(*                                                                         *)
(* Overlapping runs, the scan and its tiers are in EscalationJob; here one *)
(* run works at a time, with one level per cycle, which may be due at any  *)
(* moment.                                                                 *)
(***************************************************************************)
EXTENDS IncidentPolicy, FiniteSets

CONSTANTS Users,          \* user ids
          Reader,         \* the user who reads the notifications
          Incidents,      \* incident ids, in the order of the cuid tie-break
          Reported,       \* the severities incidents have at first
          SeverityInputs, \* the severities they are given
          Clearances,     \* the clearances users have and are given
          GivenRoles,     \* the roles users are given
          PageSize,       \* the pageSize of the reader's requests
          MaxRuns,        \* bound: how many batches are read
          MaxMoves        \* bound: how many writes happen besides the job's

ASSUME NotificationsAssumption ==
  /\ Reader \in Users /\ IsFiniteSet(Users)
  /\ Incidents \subseteq Nat /\ IsFiniteSet(Incidents)
  /\ Reported \union SeverityInputs \subseteq Severities /\ Clearances \subseteq 1..4
  /\ GivenRoles \subseteq {"REPORTER", "TRIAGE_MANAGER", "INVESTIGATOR", "ADMIN"}
  /\ PageSize \in Nat \ {0} /\ {MaxRuns, MaxMoves} \subseteq Nat

VARIABLES user,      \* user[u]: role, isActive and clearanceLevel
          incident,  \* incident[i]: severity, escalationCycle, acknowledgement and closure
          fired,     \* the (incident, cycle) keys of the committed EscalationEvent rows
          log,       \* table NotificationLog, joined with its events
          batches,   \* the batches read so far: what the last one took as now
          run,       \* the job's run, in memory
          tx,        \* the events of its open transaction
          walk,      \* the reader's walk over the pages
          moves      \* writes so far

vars == <<user, incident, fired, log, batches, run, tx, walk, moves>>

Roles == {"REPORTER", "TRIAGE_MANAGER", "INVESTIGATOR", "ADMIN"}

BandSeverities == {"HIGH", "CRITICAL"}

Clocked == [severity : Severities, cycle : Nat, acked : BOOLEAN, closed : BOOLEAN]

Row == [on : Incidents, cycle : Nat, to : Users, createdAt : Nat, read : BOOLEAN]

Event == [on : Incidents, cycle : Nat, batch : BandSeverities, severity : BandSeverities]

NoRun == [pc |-> "idle"]

NoWalk == [pc |-> "none"]

NoCursor == <<>>

-------------------------------------------------------------------------------
(* The job.                                                                 *)

RecipientsFor(severity) ==
  {u \in Users : /\ user[u].active
                 /\ user[u].role \in {"TRIAGE_MANAGER", "ADMIN"}
                 /\ user[u].clearance >= SeverityRank(severity)}

\* docs/escalation.md, whom an escalation is to reach: active managers and
\* administrators who may open an incident of that severity.
Entitled(severity) ==
  {u \in Users : /\ user[u].active /\ user[u].role \notin {"REPORTER", "INVESTIGATOR"}
                 /\ CanViewSeverity(user[u].clearance, severity)}

\* The first of the two reads of recipients.  Noted with the run: who has been
\* entitled ever since it began, and who was at some moment.
ReadHigh ==
  /\ run = NoRun /\ batches < MaxRuns
  /\ run' = [pc |-> "critical", recipients |-> [HIGH |-> RecipientsFor("HIGH"), CRITICAL |-> {}],
             due |-> {}, locked |-> {}, always |-> [s \in BandSeverities |-> Entitled(s)],
             ever |-> [s \in BandSeverities |-> Entitled(s)]]
  /\ UNCHANGED <<user, incident, fired, log, batches, tx, walk, moves>>

ReadCritical ==
  /\ run.pc = "critical"
  /\ run' = [run EXCEPT !.pc = "scan", !.recipients.CRITICAL = RecipientsFor("CRITICAL")]
  /\ UNCHANGED <<user, incident, fired, log, batches, tx, walk, moves>>

Candidates ==
  {i \in Incidents : InHighBand(incident[i].severity) /\ ~incident[i].acked /\ ~incident[i].closed}

\* The batch, with those of it that are due at this moment.
ReadBatch ==
  /\ run.pc = "scan"
  /\ \E due \in SUBSET Candidates :
       run' = [run EXCEPT !.pc = "insert",
                          !.due = {[on |-> i, cycle |-> incident[i].cycle,
                                    batch |-> incident[i].severity] : i \in due}]
  /\ batches' = batches + 1
  /\ UNCHANGED <<user, incident, fired, log, tx, walk, moves>>

\* Mutant: the INSERT trusts the cycle of the batch read.
StillCandidateAnyCycle(d) == d.on \in Candidates /\ <<d.on, d.cycle>> \notin fired

\* Mutant: no unique index behind ON CONFLICT.
StillCandidateUnkeyed(d) == d.on \in Candidates /\ incident[d.on].cycle = d.cycle

\* The WHERE clause and the ON CONFLICT of the INSERT.
StillCandidate(d) ==
  d.on \in Candidates /\ incident[d.on].cycle = d.cycle /\ <<d.on, d.cycle>> \notin fired

\* Recipients go by the severity of the batch read, the event's row has the one of now.
InsertEvent ==
  /\ run.pc = "insert"
  /\ \E d \in run.due :
       IF StillCandidate(d)
       THEN /\ run' = [run EXCEPT !.pc = "bump", !.due = @ \ {d}]
            /\ tx' = tx \union {[on |-> d.on, cycle |-> d.cycle, batch |-> d.batch,
                                 severity |-> incident[d.on].severity]}
       ELSE run' = [run EXCEPT !.due = @ \ {d}] /\ UNCHANGED tx
  /\ UNCHANGED <<user, incident, fired, log, batches, walk, moves>>

\* The UPDATE of the incident: its row is locked until the commit.
BumpLevel ==
  /\ run.pc = "bump"
  /\ run' = [run EXCEPT !.pc = "insert", !.locked = {e.on : e \in tx}]
  /\ UNCHANGED <<user, incident, fired, log, batches, tx, walk, moves>>

\* createMany: one unread row per recipient.
NotificationsOf(e) ==
  {[on |-> e.on, cycle |-> e.cycle, to |-> u, createdAt |-> batches, read |-> FALSE] :
     u \in run.recipients[e.batch]}

\* Something was written; noted with a request that has one of its two results.
Written ==
  walk' = IF walk.pc = "asking" /\ walk.results \in {{"page"}, {"count"}}
          THEN [walk EXCEPT !.torn = TRUE] ELSE walk

CommitBatch ==
  /\ run.pc = "insert" /\ run.due = {}
  /\ fired' = fired \union {<<e.on, e.cycle>> : e \in tx}
  /\ log' = log \union UNION {NotificationsOf(e) : e \in tx}
  /\ tx' = {} /\ run' = NoRun
  /\ Written
  /\ UNCHANGED <<user, incident, batches, moves>>

\* The run fails or its process dies: what it wrote is rolled back.
FailRun ==
  /\ run # NoRun
  /\ tx' = {} /\ run' = NoRun
  /\ UNCHANGED <<user, incident, fired, log, batches, walk, moves>>

-------------------------------------------------------------------------------
(* What happens meanwhile.                                                  *)

\* changeRole, changeClearance, changeStatus: a PATCH sets one column.
PatchUser(u, new) ==
  /\ moves < MaxMoves
  /\ \E column \in {"role", "active", "clearance"} :
       new # user[u] /\ new = [user[u] EXCEPT ![column] = new[column]]
  /\ moves' = moves + 1
  /\ user' = [user EXCEPT ![u] = new]
  /\ run' = IF run = NoRun THEN NoRun ELSE
       [run EXCEPT !.always = [s \in BandSeverities |-> @[s] \intersect Entitled(s)'],
                   !.ever   = [s \in BandSeverities |-> @[s] \union Entitled(s)']]
  /\ walk' = IF walk # NoWalk /\ u = Reader /\ new.clearance > walk.held
             THEN [walk EXCEPT !.held = new.clearance] ELSE walk
  /\ UNCHANGED <<incident, fired, log, batches, tx>>

\* A write of a row the job has not locked.
Write(i, new) ==
  /\ moves < MaxMoves /\ ~incident[i].closed
  /\ run # NoRun => i \notin run.locked
  /\ moves' = moves + 1
  /\ incident' = [incident EXCEPT ![i] = new]
  /\ Written
  /\ UNCHANGED <<user, fired, log, batches, run, tx>>

ChangeSeverity(i, s) ==
  LET clock == ApplySeverityChange([severity |-> incident[i].severity, since |-> 0, level |-> 0,
                                    cycle |-> incident[i].cycle, acked |-> incident[i].acked], s, 0)
  IN /\ s # incident[i].severity
     /\ Write(i, [incident[i] EXCEPT !.severity = s, !.cycle = clock.cycle, !.acked = clock.acked])

Acknowledge(i) == ~incident[i].acked /\ Write(i, [incident[i] EXCEPT !.acked = TRUE])

Close(i) == Write(i, [incident[i] EXCEPT !.closed = TRUE])

-------------------------------------------------------------------------------
(* GET /notifications and POST /notifications/:id/read.                     *)

\* Mutant: scoped by recipient alone.
OwnNotificationsOfRecipient == {n \in log : n.to = Reader}

\* ownNotificationsWhere
OwnNotificationsWhere ==
  {n \in log : n.to = Reader /\ CanViewSeverity(walk.actor, incident[n.on].severity)}

\* ORDER BY createdAt DESC, id DESC.
Precedes(m, n) ==
  m.createdAt > n.createdAt \/ (m.createdAt = n.createdAt /\ m.on > n.on)

\* authenticate: a request has the clearance of its beginning.
Request(cursor) ==
  /\ user[Reader].active
  /\ walk' = [pc |-> "asking", cursor |-> cursor, actor |-> user[Reader].clearance,
              held |-> user[Reader].clearance, results |-> {}, items |-> {}, more |-> FALSE,
              unread |-> 0, torn |-> FALSE]
  /\ UNCHANGED <<user, incident, fired, log, batches, run, tx, moves>>

\* createdAtIdCursorWhere
PastCursor(n) == walk.cursor = NoCursor \/ Precedes(walk.cursor[1], n)

\* The row as the reader gets it, with the severity its incident has now.
ToNotificationItem(n) == [row |-> n, severity |-> incident[n.on].severity]

\* The two queries of Promise.all, in either order.
FindNotificationsPage ==
  LET rest == {n \in OwnNotificationsWhere : PastCursor(n)}
      page == {n \in rest : Cardinality({m \in rest : Precedes(m, n)}) < PageSize}
  IN /\ walk.pc = "asking" /\ "page" \notin walk.results
     /\ walk' = [walk EXCEPT !.results = @ \union {"page"}, !.more = page # rest,
                             !.items = {ToNotificationItem(n) : n \in page}]
     /\ UNCHANGED <<user, incident, fired, log, batches, run, tx, moves>>

CountUnread == Cardinality({n \in OwnNotificationsWhere : ~n.read})

AskForCount ==
  /\ walk.pc = "asking" /\ "count" \notin walk.results
  /\ walk' = [walk EXCEPT !.results = @ \union {"count"}, !.unread = CountUnread]
  /\ UNCHANGED <<user, incident, fired, log, batches, run, tx, moves>>

Answered == walk.pc = "asking" /\ walk.results = {"page", "count"}

List == walk = NoWalk /\ Request(NoCursor)

\* The next page is a request of its own, from the last row of this one.
NextPage ==
  /\ Answered /\ walk.more
  /\ \E last \in walk.items : /\ \A n \in walk.items \ {last} : Precedes(n.row, last.row)
                              /\ Request(<<last.row>>)

Leave ==
  /\ Answered /\ walk' = NoWalk
  /\ UNCHANGED <<user, incident, fired, log, batches, run, tx, moves>>

\* By its owner, whatever the clearance: findOwnNotification asks for no more.  That
\* the row was found is all the UPDATE depends on, and rows are never deleted.
MarkRead(n) ==
  /\ moves < MaxMoves
  /\ n.to = Reader /\ user[Reader].active /\ ~n.read
  /\ moves' = moves + 1
  /\ log' = (log \ {n}) \union {[n EXCEPT !.read = TRUE]}
  /\ Written
  /\ UNCHANGED <<user, incident, fired, batches, run, tx>>

-------------------------------------------------------------------------------
\* Managers and incidents as they were reported.
Init ==
  /\ user \in [Users -> [role : {"TRIAGE_MANAGER"}, active : {TRUE}, clearance : Clearances]]
  /\ incident \in [Incidents -> {[severity |-> s, cycle |-> IF InHighBand(s) THEN 1 ELSE 0,
                                  acked |-> FALSE, closed |-> FALSE] : s \in Reported}]
  /\ fired = {} /\ log = {} /\ batches = 0
  /\ run = NoRun /\ tx = {}
  /\ walk = NoWalk
  /\ moves = 0

Next ==
  \/ ReadHigh \/ ReadCritical \/ ReadBatch \/ InsertEvent \/ BumpLevel \/ CommitBatch \/ FailRun
  \/ \E u \in Users, new \in [role : GivenRoles, active : BOOLEAN, clearance : Clearances] :
       PatchUser(u, new)
  \/ \E i \in Incidents :
       (\E s \in SeverityInputs : ChangeSeverity(i, s)) \/ Acknowledge(i) \/ Close(i)
  \/ List \/ FindNotificationsPage \/ AskForCount \/ NextPage \/ Leave
  \/ \E n \in log : MarkRead(n)

Spec == Init /\ [][Next]_vars

-------------------------------------------------------------------------------
(* Properties.                                                              *)

Runs == [pc : {"critical", "scan", "insert", "bump"}, recipients : [BandSeverities -> SUBSET Users],
         due : SUBSET [on : Incidents, cycle : Nat, batch : BandSeverities],
         locked : SUBSET Incidents, always : [BandSeverities -> SUBSET Users],
         ever : [BandSeverities -> SUBSET Users]]

\* The variables have their types, a page is no longer than asked for, and nobody
\* has two notifications of one event (the unique index of NotificationLog).
TypeOK ==
  /\ user \in [Users -> [role : Roles, active : BOOLEAN, clearance : Clearances]]
  /\ \A i \in Incidents : incident[i] \in Clocked
  /\ \A k \in fired : k \in Incidents \X Nat
  /\ \A n \in log : n \in Row /\ <<n.on, n.cycle>> \in fired
  /\ \A m, n \in log : <<m.on, m.cycle, m.to>> = <<n.on, n.cycle, n.to>> => m = n
  /\ run = NoRun \/ run \in Runs
  /\ \A e \in tx : e \in Event
  /\ walk = NoWalk \/ (walk.pc = "asking" /\ Cardinality(walk.items) <= PageSize)
  /\ batches \in 0..MaxRuns /\ moves \in 0..MaxMoves

\* Whom a committed escalation tells: everyone who was entitled, by the severity
\* the batch was read with, throughout the run; and nobody who at no moment of the
\* run was entitled by the severity the event records, although recipients are read
\* before the batch (escalation.job.ts:107), HIGH and CRITICAL apart, and the
\* incident may be regraded before the INSERT.
RightPeopleAreTold ==
  [][CommitBatch => \A e \in tx :
       LET told == {n.to : n \in {m \in log' \ log : m.on = e.on}}
       IN run.always[e.batch] \subseteq told /\ told \subseteq run.ever[e.severity]]_vars

\* An answer of GET /notifications: it shows what its reader was cleared for at some
\* moment of that request, and its badge counts what its page shows unread, no less
\* ever and no more when there is nothing else, unless a write fell between the two
\* queries.
AnswersAgree ==
  Answered =>
    LET unread == Cardinality({n \in walk.items : ~n.row.read})
    IN /\ \A n \in walk.items : n.row.to = Reader /\ CanViewSeverity(walk.held, n.severity)
       /\ ~walk.torn => unread <= walk.unread
       /\ ~walk.torn /\ walk.cursor = NoCursor /\ ~walk.more => unread = walk.unread
===============================================================================
