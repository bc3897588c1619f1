--------------------------- MODULE IncidentLifecycle ---------------------------
(***************************************************************************)
(* The incident endpoints as the server runs them, many requests at a      *)
(* time: a handler reads the incident (getByIdForActor) and whatever user  *)
(* row it needs, decides, and only later opens a transaction whose UPDATE  *)
(* carries the version of the client's If-Match header.  Between the two   *)
(* any other request may commit.  The admin's clearance change works the   *)
(* same way over several incidents at once.                                *)
(*                                                                         *)
(* A transaction is one step: its UPDATEs hold their row locks until it    *)
(* commits, and one whose UPDATE matches no row rolls back as a whole.     *)
(* Roles are fixed here (module AdminUsers changes them); the actor's own  *)
(* clearance and the incident are read in the same step.                   *)
(***************************************************************************)
EXTENDS IncidentOperations, FiniteSets

CONSTANTS Incidents,        \* incident ids
          Managers,         \* users with role TRIAGE_MANAGER
          Investigators,    \* users with role INVESTIGATOR, active
          Admins,           \* users with role ADMIN
          Requests,         \* the mutating incident requests the server has room for
          ClearanceLevels,  \* the clearances users hold and admins grant
          SeverityInputs,   \* the severities clients report and change to
          MaxVersion,       \* bound: requests on an open incident come up to this version
          MaxLag            \* bound: how many versions a client's copy may be behind

Users == Managers \union Investigators \union Admins

ASSUME UsersAssumption == NoUser \notin Users

ASSUME BoundsAssumption ==
  /\ ClearanceLevels \subseteq 1..4
  /\ SeverityInputs \subseteq Severities
  /\ MaxVersion \in Nat
  /\ MaxLag \in Nat

VARIABLES row,        \* row[i]: table Incident, but for its version column
          version,    \* version[i]: the optimistic lock of incident i
          clearance,  \* clearance[u]: User.clearanceLevel
          req,        \* req[r]: a handler between its read and its transaction
          cascade,    \* cascade[a]: admin a's clearance change, likewise
          audit       \* audit[i]: the AuditEvent rows of the last transaction on i

vars == <<row, version, clearance, req, cascade, audit>>

Operations == {"triage", "severity", "assign", "unassign", "acknowledge",
               "propose", "approve", "reject"}

Row == [stage : Stages, severity : Severities, assignee : Users \union {NoUser},
        clockSet : BOOLEAN, cycle : Nat, acked : BOOLEAN, rca : BOOLEAN]

NoRequest == [op |-> "none"]

Request == [op : Operations, on : Incidents, expected : Nat,
            seen : Row, seenVersion : Nat,
            sev : Severities, who : Users \union {NoUser}, dropped : Users \union {NoUser}]

NoCascade == [target |-> NoUser]

IsCascade(c) ==
  /\ c = [target |-> c.target, level |-> c.level, affected |-> c.affected,
          seen |-> c.seen, seenVersion |-> c.seenVersion]
  /\ c.target \in Users
  /\ c.level \in ClearanceLevels
  /\ c.affected \in SUBSET Incidents
  /\ c.seen \in [c.affected -> Row]
  /\ c.seenVersion \in [c.affected -> Nat]

TypeOK ==
  /\ row \in [Incidents -> Row]
  /\ version \in [Incidents -> Nat]
  /\ clearance \in [Users -> ClearanceLevels]
  /\ req \in [Requests -> Request \union {NoRequest}]
  /\ DOMAIN cascade = Admins
  /\ \A a \in Admins : cascade[a] = NoCascade \/ IsCascade(cascade[a])
  /\ DOMAIN audit = Incidents

Init ==
  /\ row \in [Incidents -> {NewRow(s) : s \in SeverityInputs}]
  /\ version = [i \in Incidents |-> 0]
  /\ clearance \in [Users -> ClearanceLevels]
  /\ req = [r \in Requests |-> NoRequest]
  /\ cascade = [a \in Admins |-> NoCascade]
  /\ audit = [i \in Incidents |-> {<<"INCIDENT_CREATED">>}]

-------------------------------------------------------------------------------
(* The read half of a handler.  Each action below is one endpoint up to the *)
(* moment it opens its transaction; a request refused before that (403,     *)
(* 404, 409, 422) changes nothing and is not a step.                        *)

Visible(a, i) == CanViewSeverity(clearance[a], row[i].severity)

\* TRIAGE_ROLES of incident.router.ts
Triagers == Managers \union Admins

\* The client holds some version of the incident it has seen before; the
\* handler holds the row it has just read.
Hold(r, op, i, sev, who, dropped) ==
  /\ req[r] = NoRequest
  /\ version[i] < MaxVersion \/ row[i].stage = "CLOSED"
  /\ \E lag \in 0..MaxLag :
       /\ lag <= version[i]
       /\ req' = [req EXCEPT ![r] =
            [op |-> op, on |-> i, expected |-> version[i] - lag,
             seen |-> row[i], seenVersion |-> version[i],
             sev |-> sev, who |-> who, dropped |-> dropped]]
  /\ UNCHANGED <<row, version, clearance, cascade, audit>>

ReadTriage(r) ==
  \E a \in Triagers, i \in Incidents :
    /\ Visible(a, i)
    /\ MayTriage(row[i])
    /\ Hold(r, "triage", i, row[i].severity, NoUser, NoUser)

ReadSeverity(r) ==
  \E a \in Triagers, i \in Incidents, next \in SeverityInputs :
    /\ Visible(a, i)
    /\ MayChangeSeverity(row[i], next)
    /\ Hold(r, "severity", i, next, NoUser,
            IF /\ row[i].assignee # NoUser
               /\ MustUnassignOnRaise(clearance[row[i].assignee], next)
            THEN row[i].assignee ELSE NoUser)

ReadAssign(r) ==
  \E a \in Triagers, i \in Incidents, who \in Investigators :
    /\ Visible(a, i)
    /\ MayAssign(row[i])
    /\ CanAssignInvestigator(clearance[who], row[i].severity)
    /\ Hold(r, "assign", i, row[i].severity, who, NoUser)

ReadUnassign(r) ==
  \E a \in Triagers, i \in Incidents :
    /\ Visible(a, i)
    /\ MayUnassign(row[i])
    /\ Hold(r, "unassign", i, row[i].severity, NoUser, NoUser)

ReadAcknowledge(r) ==
  \E a \in Triagers, i \in Incidents :
    /\ Visible(a, i)
    /\ MayAcknowledge(row[i])
    /\ Hold(r, "acknowledge", i, row[i].severity, NoUser, NoUser)

ReadPropose(r) ==
  \E a \in Users, i \in Incidents :
    /\ Visible(a, i)
    /\ MayPropose(row[i], a \in Admins, a)
    /\ Hold(r, "propose", i, row[i].severity, NoUser, NoUser)

ReadApprove(r) ==
  \E a \in Triagers, i \in Incidents :
    /\ Visible(a, i)
    /\ MayApprove(row[i])
    /\ Hold(r, "approve", i, row[i].severity, NoUser, NoUser)

ReadReject(r) ==
  \E a \in Triagers, i \in Incidents :
    /\ Visible(a, i)
    /\ MayReject(row[i])
    /\ Hold(r, "reject", i, row[i].severity, NoUser, NoUser)

-------------------------------------------------------------------------------
(* The transaction half.                                                    *)

StageChange(from, to) == {<<"STAGE_CHANGED", from, to>>}

Unassignment(from) == {<<"INVESTIGATOR_UNASSIGNED", from, NoUser>>}

\* The WHERE clause of incident.repository.ts::updateVersioned.
VersionIs(i, expected) == version[i] = expected

\* Mutant: an update that forgets `version: { increment: 1 }'.
NextVersionForgotten(i) == version[i]

NextVersion(i) == version[i] + 1

\* The transaction of request r: the new columns, a new version, the audit rows.
Commit(r, new, trail) ==
  LET i == req[r].on
  IN  /\ VersionIs(i, req[r].expected)
      /\ row' = [row EXCEPT ![i] = new]
      /\ version' = [version EXCEPT ![i] = NextVersion(i)]
      /\ audit' = [audit EXCEPT ![i] = trail]
      /\ req' = [req EXCEPT ![r] = NoRequest]
      /\ UNCHANGED <<clearance, cascade>>

CommitTriage(r) ==
  LET q == req[r]
  IN  /\ q.op = "triage"
      /\ Commit(r, Triaged(row[q.on]), StageChange(q.seen.stage, "TRIAGE"))

\* Mutant: the Q17 cascade moves the stage without its STAGE_CHANGED row.
SeverityTrailShort(q) ==
  {<<"SEVERITY_CHANGED", q.seen.severity, q.sev>>}
    \union (IF q.dropped # NoUser THEN Unassignment(q.dropped) ELSE {})

SeverityTrail(q) ==
  {<<"SEVERITY_CHANGED", q.seen.severity, q.sev>>}
    \union (IF q.dropped # NoUser THEN Unassignment(q.dropped) ELSE {})
    \union (IF q.dropped # NoUser /\ q.seen.stage = "INVESTIGATION"
            THEN StageChange("INVESTIGATION", "TRIAGE") ELSE {})

CommitSeverity(r) ==
  LET q == req[r]
  IN  /\ q.op = "severity"
      /\ Commit(r, SeverityChanged(row[q.on], q.seen, q.sev, q.dropped),
                SeverityTrail(q))

CommitAssign(r) ==
  LET q == req[r]
  IN  /\ q.op = "assign"
      /\ Commit(r, Assigned(row[q.on], q.seen, q.who),
                {<<"INVESTIGATOR_ASSIGNED", NoUser, q.who>>}
                  \union (IF q.seen.assignee \notin {NoUser, q.who}
                          THEN Unassignment(q.seen.assignee) ELSE {})
                  \union (IF q.seen.stage = "TRIAGE"
                          THEN StageChange("TRIAGE", "INVESTIGATION") ELSE {}))

UnassignTrail(seen) ==
  Unassignment(seen.assignee)
    \union (IF seen.stage = "INVESTIGATION" THEN StageChange("INVESTIGATION", "TRIAGE") ELSE {})

CommitUnassign(r) ==
  LET q == req[r]
  IN  /\ q.op = "unassign"
      /\ Commit(r, Unassigned(row[q.on], q.seen), UnassignTrail(q.seen))

CommitAcknowledge(r) ==
  LET q == req[r]
  IN  /\ q.op = "acknowledge"
      /\ Commit(r, Acknowledged(row[q.on]), {<<"INCIDENT_ACKNOWLEDGED">>})

CommitPropose(r) ==
  LET q == req[r]
  IN  /\ q.op = "propose"
      /\ Commit(r, Proposed(row[q.on]),
                {<<"CLOSURE_PROPOSED">>} \union StageChange(q.seen.stage, "PENDING_CLOSURE"))

CommitApprove(r) ==
  LET q == req[r]
  IN  /\ q.op = "approve"
      /\ Commit(r, Approved(row[q.on]),
                {<<"CLOSURE_APPROVED">>} \union StageChange(q.seen.stage, "CLOSED"))

CommitReject(r) ==
  LET q == req[r]
  IN  /\ q.op = "reject"
      /\ Commit(r, Rejected(row[q.on]),
                {<<"CLOSURE_REJECTED">>} \union StageChange(q.seen.stage, "INVESTIGATION"))

\* The UPDATE matched no row: StaleVersionError, the transaction rolls back.
StaleVersion(r) ==
  /\ req[r] # NoRequest
  /\ version[req[r].on] # req[r].expected
  /\ req' = [req EXCEPT ![r] = NoRequest]
  /\ UNCHANGED <<row, version, clearance, cascade, audit>>

\* The server or the database dies before the commit: the request is gone.
Lost(r) ==
  /\ req[r] # NoRequest
  /\ req' = [req EXCEPT ![r] = NoRequest]
  /\ UNCHANGED <<row, version, clearance, cascade, audit>>

-------------------------------------------------------------------------------
(* admin.service.ts::changeClearance                                        *)

\* Mutant: the level in the request body not validated.
LevelsUnchecked == 0..5

\* ChangeClearanceRequestSchema of admin.contract.ts (an integer from 1 to 4),
\* down to those a run distinguishes.
AcceptedLevels == ClearanceLevels

\* The affected incidents are found before the transaction opens, and only
\* if the level is below the one the target had when it was read.
ReadClearance(a) ==
  \E target \in Users \ {a}, level \in AcceptedLevels :
    /\ cascade[a] = NoCascade
    /\ level # clearance[target]
    /\ LET affected == IF level < clearance[target]
                       THEN ClearanceImpact(row, target, level) ELSE {}
       IN  cascade' = [cascade EXCEPT ![a] =
             [target |-> target, level |-> level, affected |-> affected,
              seen        |-> [i \in affected |-> row[i]],
              seenVersion |-> [i \in affected |-> version[i]]]]
    /\ UNCHANGED <<row, version, clearance, req, audit>>

\* Mutant: the cascade skips the incidents whose version moved, instead of
\* failing the whole PATCH.
AffectedAnyVersion(c) == TRUE

AffectedUnchanged(c) == \A i \in c.affected : VersionIs(i, c.seenVersion[i])

CommitClearance(a) ==
  LET c == cascade[a]
  IN  /\ c # NoCascade
      /\ AffectedUnchanged(c)
      /\ clearance' = [clearance EXCEPT ![c.target] = c.level]
      /\ row' = [i \in Incidents |-> IF i \in c.affected
                                     THEN Unassigned(row[i], c.seen[i]) ELSE row[i]]
      /\ version' = [i \in Incidents |-> IF i \in c.affected
                                         THEN NextVersion(i) ELSE version[i]]
      /\ audit' = [i \in Incidents |-> IF i \in c.affected
                                       THEN UnassignTrail(c.seen[i]) ELSE audit[i]]
      /\ cascade' = [cascade EXCEPT ![a] = NoCascade]
      /\ UNCHANGED req

\* One stale incident fails the PATCH: no clearance and no incident changes.
StaleClearance(a) ==
  /\ cascade[a] # NoCascade
  /\ ~AffectedUnchanged(cascade[a])
  /\ cascade' = [cascade EXCEPT ![a] = NoCascade]
  /\ UNCHANGED <<row, version, clearance, req, audit>>

-------------------------------------------------------------------------------
Next ==
  \/ \E r \in Requests :
       \/ ReadTriage(r)   \/ ReadSeverity(r)    \/ ReadAssign(r)  \/ ReadUnassign(r)
       \/ ReadAcknowledge(r) \/ ReadPropose(r)  \/ ReadApprove(r) \/ ReadReject(r)
       \/ CommitTriage(r) \/ CommitSeverity(r)  \/ CommitAssign(r) \/ CommitUnassign(r)
       \/ CommitAcknowledge(r) \/ CommitPropose(r) \/ CommitApprove(r) \/ CommitReject(r)
       \/ StaleVersion(r) \/ Lost(r)
  \/ \E a \in Admins : ReadClearance(a) \/ CommitClearance(a) \/ StaleClearance(a)

Spec == Init /\ [][Next]_vars

-------------------------------------------------------------------------------
(* Properties.                                                              *)

\* The reason the version guard works: while an incident still has the
\* version a handler read, it still is the row the handler read, so a
\* decision taken on that row is a decision on the current one.  A write that
\* forgot to move the version would break it for some other handler.
SnapshotCurrent ==
  /\ \A r \in Requests : req[r] # NoRequest =>
       LET q == req[r]
       IN  /\ q.expected <= q.seenVersion
           /\ q.seenVersion <= version[q.on]
           /\ q.seenVersion = version[q.on] => q.seen = row[q.on]
  /\ \A a \in Admins : cascade[a] # NoCascade =>
       LET c == cascade[a]
       IN  \A i \in c.affected :
             /\ c.seenVersion[i] <= version[i]
             /\ c.seenVersion[i] = version[i] => c.seen[i] = row[i]

\* high_severity_clock and the comment above it: the escalation clock is set
\* exactly while the severity is in the high band, whatever sequence of
\* severity changes, computed from whatever rows, led there.
ClockMatchesBand == \A i \in Incidents : row[i].clockSet <=> InHighBand(row[i].severity)

\* The closure gates: an incident under review or closed has its root cause
\* and corrective action on record, through any number of rejections.
ClosureHasCause ==
  \A i \in Incidents : row[i].stage \in {"PENDING_CLOSURE", "CLOSED"} => row[i].rca

\* Every stage change that is committed is an edge of STAGE_TRANSITIONS, even
\* though each handler checked the stage of a row read before its transaction.
StageFollowsMap ==
  [][\A i \in Incidents :
       row'[i].stage # row[i].stage => CanTransition(row[i].stage, row'[i].stage)]_vars

\* A closed incident never changes again, by any request already under way
\* when it was closed or sent later, the clearance cascade included.
ClosedIsFinal == [][\A i \in Incidents : row[i].stage = "CLOSED" => row'[i] = row[i]]_vars

\* An acknowledgement is lost only to a new escalation cycle, and cycles are
\* numbered one by one: the (incident, cycle, level) key of an escalation
\* event can then never be reused for another cycle.
AckLostOnlyToNewCycle ==
  [][\A i \in Incidents :
       /\ row'[i].cycle \in {row[i].cycle, row[i].cycle + 1}
       /\ row[i].acked /\ ~row'[i].acked => row'[i].cycle = row[i].cycle + 1]_vars

\* The rows a transaction adds to the audit trail say what it changed, with
\* the values it really replaced: replaying the trail gives the incident.
AuditTellsTheChange ==
  [][\A i \in Incidents : version'[i] # version[i] =>
       LET was == row[i]
           is  == row'[i]
       IN  /\ \A from, to \in Stages :
                <<"STAGE_CHANGED", from, to>> \in audit'[i]
                  <=> was.stage = from /\ is.stage = to /\ from # to
           /\ \A from, to \in Severities :
                <<"SEVERITY_CHANGED", from, to>> \in audit'[i]
                  <=> was.severity = from /\ is.severity = to /\ from # to
           /\ \A u \in Users :
                /\ <<"INVESTIGATOR_UNASSIGNED", u, NoUser>> \in audit'[i]
                     <=> was.assignee = u /\ is.assignee # u
                /\ <<"INVESTIGATOR_ASSIGNED", NoUser, u>> \in audit'[i] => is.assignee = u
                /\ is.assignee = u /\ was.assignee # u
                     => <<"INVESTIGATOR_ASSIGNED", NoUser, u>> \in audit'[i]]_vars

\* Requests with stale reads, a version guard and a transaction implement
\* operations that happen at one instant on the current row: no update of an
\* accepted request is ever lost or applied to a row it was not decided on.
Workflow == INSTANCE IncidentWorkflow

ImplementsWorkflow == Workflow!Spec

===============================================================================
