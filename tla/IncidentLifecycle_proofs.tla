------------------------ MODULE IncidentLifecycle_proofs ------------------------
(***************************************************************************)
(* Theorems of IncidentLifecycle, for every set of incidents, users and    *)
(* requests and every bound.                                               *)
(*                                                                         *)
(* The inductive invariant joins TypeOK, SnapshotCurrent and DecisionSound *)
(* ("a held request passed its handler's checks on the row it read").      *)
(* Together they say that a request whose version still matches was        *)
(* checked on the current row, so each commit is an atomic operation.      *)
(***************************************************************************)
EXTENDS IncidentLifecycle, TLAPS

\* What the checks of each endpoint guarantee about the row it holds.
Decided(q) ==
  /\ q.op = "triage"      => MayTriage(q.seen)
  /\ q.op = "severity"    => /\ MayChangeSeverity(q.seen, q.sev)
                             /\ q.dropped \in {NoUser, q.seen.assignee}
  /\ q.op = "assign"      => MayAssign(q.seen) /\ q.who \in Investigators
  /\ q.op = "unassign"    => MayUnassign(q.seen)
  /\ q.op = "acknowledge" => MayAcknowledge(q.seen)
  /\ q.op = "propose"     => CanTransition(q.seen.stage, "PENDING_CLOSURE")
  /\ q.op = "approve"     => MayApprove(q.seen)
  /\ q.op = "reject"      => MayReject(q.seen)

DecisionSound ==
  /\ \A r \in Requests : req[r] # NoRequest => Decided(req[r])
  /\ \A a \in Admins : cascade[a] # NoCascade =>
       \A i \in cascade[a].affected :
         /\ cascade[a].seen[i].assignee = cascade[a].target
         /\ cascade[a].seen[i].stage # "CLOSED"
         /\ MustUnassignOnRaise(cascade[a].level, cascade[a].seen[i].severity)

IInv == TypeOK /\ SnapshotCurrent /\ DecisionSound

-------------------------------------------------------------------------------
(* Lemmas on rows.                                                          *)

\* A freshly created row is a row.
LEMMA NewRowType == \A s \in Severities : NewRow(s) \in Row
  BY DEF NewRow, Row, Stages, InHighBand

\* Every write of an endpoint turns a row into a row.
LEMMA WriteTypes ==
  ASSUME NEW cur \in Row, NEW seen \in Row
  PROVE  /\ Triaged(cur) \in Row
         /\ \A next \in Severities : \A dropped :
              SeverityChanged(cur, seen, next, dropped) \in Row
         /\ \A who \in Users : Assigned(cur, seen, who) \in Row
         /\ Unassigned(cur, seen) \in Row
         /\ Acknowledged(cur) \in Row
         /\ Proposed(cur) \in Row
         /\ Approved(cur) \in Row
         /\ Rejected(cur) \in Row
<1>1. Triaged(cur) \in Row
  BY DEF Triaged, Row, Stages
<1>2. ASSUME NEW next \in Severities, NEW dropped
      PROVE  SeverityChanged(cur, seen, next, dropped) \in Row
  <2> DEFINE rule == ClockRule(seen.severity, next)
             clock == rule = "restart" \/ (rule = "keep" /\ seen.clockSet)
             cycle == IF rule = "restart" THEN seen.cycle + 1 ELSE seen.cycle
             ack   == rule # "restart" /\ seen.acked
             who   == IF dropped # NoUser THEN NoUser ELSE cur.assignee
             stage == IF dropped # NoUser /\ seen.stage = "INVESTIGATION" THEN "TRIAGE" ELSE cur.stage
  <2>1. clock \in BOOLEAN /\ ack \in BOOLEAN
    OBVIOUS
  <2>2. cycle \in Nat
    BY DEF Row
  <2>3. who \in Users \union {NoUser} /\ stage \in Stages
    BY DEF Row, Stages
  <2>4. SeverityChanged(cur, seen, next, dropped) =
          [cur EXCEPT !.severity = next, !.clockSet = clock, !.cycle = cycle,
                      !.acked = ack, !.assignee = who, !.stage = stage]
    BY Zenon DEF SeverityChanged
  <2> HIDE DEF rule, clock, cycle, ack, who, stage
  <2> QED
    BY ZenonT(60), <2>1, <2>2, <2>3, <2>4 DEF Row
<1>3. ASSUME NEW who \in Users
      PROVE  Assigned(cur, seen, who) \in Row
  BY DEF Assigned, Row, Stages
<1>4. Unassigned(cur, seen) \in Row
  BY DEF Unassigned, Row, Stages
<1>5. Acknowledged(cur) \in Row /\ Proposed(cur) \in Row
  BY DEF Acknowledged, Proposed, Row, Stages
<1>6. Approved(cur) \in Row /\ Rejected(cur) \in Row
  BY DEF Approved, Rejected, Row, Stages
<1> QED
  BY <1>1, <1>2, <1>3, <1>4, <1>5, <1>6
-------------------------------------------------------------------------------
(* The two halves of a handler, each reduced to what later proofs need.     *)

\* Request q is what a handler of slot r holds after reading.
IsRead(r, q) ==
  /\ req' = [req EXCEPT ![r] = q]
  /\ q.seen = row[q.on]
  /\ q.seenVersion = version[q.on]
  /\ q.expected <= q.seenVersion
  /\ Decided(q)
  /\ UNCHANGED <<row, version, clearance, cascade, audit>>

Reads(r) ==
  \/ ReadTriage(r)      \/ ReadSeverity(r) \/ ReadAssign(r)  \/ ReadUnassign(r)
  \/ ReadAcknowledge(r) \/ ReadPropose(r)  \/ ReadApprove(r) \/ ReadReject(r)

Commits(r) ==
  \/ CommitTriage(r)      \/ CommitSeverity(r) \/ CommitAssign(r)  \/ CommitUnassign(r)
  \/ CommitAcknowledge(r) \/ CommitPropose(r)  \/ CommitApprove(r) \/ CommitReject(r)

\* Hold fills slot r with a request made of what was just read, and soundly
\* decided if the endpoint's checks on that row guarantee it.
LEMMA HoldReads ==
  ASSUME TypeOK, NEW r \in Requests, NEW op \in Operations, NEW i \in Incidents,
         NEW sev \in Severities, NEW who \in Users \union {NoUser},
         NEW dropped \in Users \union {NoUser}, Hold(r, op, i, sev, who, dropped),
         \A q \in Request : /\ q.op = op /\ q.sev = sev /\ q.who = who
                            /\ q.dropped = dropped /\ q.seen = row[i]
                            => Decided(q)
  PROVE  \E q \in Request : IsRead(r, q)
<1>1. PICK lag \in 0..MaxLag :
        /\ lag <= version[i]
        /\ req' = [req EXCEPT ![r] =
             [op |-> op, on |-> i, expected |-> version[i] - lag,
              seen |-> row[i], seenVersion |-> version[i],
              sev |-> sev, who |-> who, dropped |-> dropped]]
  BY DEF Hold
<1> DEFINE q == [op |-> op, on |-> i, expected |-> version[i] - lag,
                 seen |-> row[i], seenVersion |-> version[i],
                 sev |-> sev, who |-> who, dropped |-> dropped]
<1>2. /\ row[i] \in Row /\ version[i] \in Nat
      /\ version[i] - lag \in Nat /\ version[i] - lag <= version[i]
  BY <1>1, BoundsAssumption DEF TypeOK
<1>3. q \in Request
  BY <1>2 DEF Request
<1>4. Decided(q)
  BY <1>3
<1>5. UNCHANGED <<row, version, clearance, cascade, audit>>
  BY DEF Hold
<1> QED
  BY <1>1, <1>2, <1>3, <1>4, <1>5 DEF IsRead

\* The same for the endpoints that leave the severity alone.
LEMMA PlainHoldReads ==
  ASSUME TypeOK, NEW r \in Requests, NEW op \in Operations, NEW i \in Incidents,
         NEW who \in Users \union {NoUser}, Hold(r, op, i, row[i].severity, who, NoUser),
         \A q \in Request : q.op = op /\ q.who = who /\ q.seen = row[i] => Decided(q)
  PROVE  \E q \in Request : IsRead(r, q)
<1>1. row[i].severity \in Severities
  BY DEF TypeOK, Row
<1> QED
  BY <1>1, HoldReads

\* Every endpoint's read half fills its slot with a soundly decided request.
LEMMA ReadFills ==
  ASSUME TypeOK, NEW r \in Requests, Reads(r)
  PROVE  \E q \in Request : IsRead(r, q)
<1>1. CASE ReadTriage(r)
  <2>1. PICK i \in Incidents :
          /\ MayTriage(row[i])
          /\ Hold(r, "triage", i, row[i].severity, NoUser, NoUser)
    BY <1>1, Zenon DEF ReadTriage
  <2>3. \A q \in Request : q.op = "triage" /\ q.seen = row[i] => Decided(q)
    BY <2>1 DEF Decided
  <2> QED
    BY <2>1, <2>3, PlainHoldReads DEF Operations
<1>2. CASE ReadSeverity(r)
  <2>1. PICK i \in Incidents, next \in SeverityInputs :
          /\ MayChangeSeverity(row[i], next)
          /\ Hold(r, "severity", i, next, NoUser,
                  IF /\ row[i].assignee # NoUser
                     /\ MustUnassignOnRaise(clearance[row[i].assignee], next)
                  THEN row[i].assignee ELSE NoUser)
    BY <1>2, Zenon DEF ReadSeverity
  <2> DEFINE dropped == IF /\ row[i].assignee # NoUser
                           /\ MustUnassignOnRaise(clearance[row[i].assignee], next)
                        THEN row[i].assignee ELSE NoUser
  <2>2. next \in Severities /\ row[i].assignee \in Users \union {NoUser}
    BY BoundsAssumption DEF TypeOK, Row
  <2>3. dropped \in {NoUser, row[i].assignee}
    OBVIOUS
  <2>4. Hold(r, "severity", i, next, NoUser, dropped)
    BY <2>1
  <2> HIDE DEF dropped
  <2>5. \A q \in Request :
          q.op = "severity" /\ q.sev = next /\ q.dropped = dropped /\ q.seen = row[i]
            => Decided(q)
    BY <2>1, <2>3 DEF Decided
  <2> QED
    BY <2>2, <2>3, <2>4, <2>5, HoldReads DEF Operations
<1>3. CASE ReadAssign(r)
  <2>1. PICK i \in Incidents, who \in Investigators :
          /\ MayAssign(row[i])
          /\ Hold(r, "assign", i, row[i].severity, who, NoUser)
    BY <1>3, Zenon DEF ReadAssign
  <2>2. who \in Users
    BY DEF Users
  <2>3. \A q \in Request : q.op = "assign" /\ q.seen = row[i] /\ q.who = who => Decided(q)
    BY <2>1 DEF Decided
  <2> QED
    BY <2>1, <2>2, <2>3, PlainHoldReads DEF Operations
<1>4. CASE ReadUnassign(r)
  <2>1. PICK i \in Incidents :
          /\ MayUnassign(row[i])
          /\ Hold(r, "unassign", i, row[i].severity, NoUser, NoUser)
    BY <1>4, Zenon DEF ReadUnassign
  <2>3. \A q \in Request : q.op = "unassign" /\ q.seen = row[i] => Decided(q)
    BY <2>1 DEF Decided
  <2> QED
    BY <2>1, <2>3, PlainHoldReads DEF Operations
<1>5. CASE ReadAcknowledge(r)
  <2>1. PICK i \in Incidents :
          /\ MayAcknowledge(row[i])
          /\ Hold(r, "acknowledge", i, row[i].severity, NoUser, NoUser)
    BY <1>5, Zenon DEF ReadAcknowledge
  <2>3. \A q \in Request : q.op = "acknowledge" /\ q.seen = row[i] => Decided(q)
    BY <2>1 DEF Decided
  <2> QED
    BY <2>1, <2>3, PlainHoldReads DEF Operations
<1>6. CASE ReadPropose(r)
  <2>1. PICK i \in Incidents :
          /\ CanTransition(row[i].stage, "PENDING_CLOSURE")
          /\ Hold(r, "propose", i, row[i].severity, NoUser, NoUser)
    BY <1>6, Zenon DEF ReadPropose, MayPropose
  <2>3. \A q \in Request : q.op = "propose" /\ q.seen = row[i] => Decided(q)
    BY <2>1 DEF Decided
  <2> QED
    BY <2>1, <2>3, PlainHoldReads DEF Operations
<1>7. CASE ReadApprove(r)
  <2>1. PICK i \in Incidents :
          /\ MayApprove(row[i])
          /\ Hold(r, "approve", i, row[i].severity, NoUser, NoUser)
    BY <1>7, Zenon DEF ReadApprove
  <2>3. \A q \in Request : q.op = "approve" /\ q.seen = row[i] => Decided(q)
    BY <2>1 DEF Decided
  <2> QED
    BY <2>1, <2>3, PlainHoldReads DEF Operations
<1>8. CASE ReadReject(r)
  <2>1. PICK i \in Incidents :
          /\ MayReject(row[i])
          /\ Hold(r, "reject", i, row[i].severity, NoUser, NoUser)
    BY <1>8, Zenon DEF ReadReject
  <2>3. \A q \in Request : q.op = "reject" /\ q.seen = row[i] => Decided(q)
    BY <2>1 DEF Decided
  <2> QED
    BY <2>1, <2>3, PlainHoldReads DEF Operations
<1> QED
  BY <1>1, <1>2, <1>3, <1>4, <1>5, <1>6, <1>7, <1>8 DEF Reads
-------------------------------------------------------------------------------
(* A commit happens on the row its request was decided on.                  *)

\* The one-row transitions that atomic operations may make.
AtomicOp(cur, new) ==
  \/ MayTriage(cur) /\ new = Triaged(cur)
  \/ \E next \in Severities, dropped \in {NoUser, cur.assignee} :
       MayChangeSeverity(cur, next) /\ new = SeverityChanged(cur, cur, next, dropped)
  \/ \E who \in Investigators : MayAssign(cur) /\ new = Assigned(cur, cur, who)
  \/ MayUnassign(cur) /\ new = Unassigned(cur, cur)
  \/ MayAcknowledge(cur) /\ new = Acknowledged(cur)
  \/ CanTransition(cur.stage, "PENDING_CLOSURE") /\ new = Proposed(cur)
  \/ MayApprove(cur) /\ new = Approved(cur)
  \/ MayReject(cur) /\ new = Rejected(cur)

\* What the clearance cascade does to one of the incidents it affects.
CascadeOp(cur, new) ==
  cur.stage # "CLOSED" /\ cur.assignee # NoUser /\ new = Unassigned(cur, cur)

IsCommit(r, new) ==
  LET i == req[r].on
  IN  /\ row' = [row EXCEPT ![i] = new]
      /\ version' = [version EXCEPT ![i] = version[i] + 1]
      /\ DOMAIN audit' = Incidents
      /\ req' = [req EXCEPT ![r] = NoRequest]
      /\ UNCHANGED <<clearance, cascade>>

\* If the version a request expects is still the incident's, the row it holds
\* is the incident's.
LEMMA VersionGuard ==
  ASSUME IInv, NEW r \in Requests, req[r] # NoRequest, VersionIs(req[r].on, req[r].expected)
  PROVE  /\ req[r] \in Request
         /\ req[r].seen = row[req[r].on]
         /\ row[req[r].on] \in Row
         /\ Decided(req[r])
<1>1. req[r] \in Request
  BY DEF IInv, TypeOK
<1>2. /\ req[r].on \in Incidents /\ req[r].expected \in Nat /\ req[r].seenVersion \in Nat
      /\ version[req[r].on] \in Nat /\ row[req[r].on] \in Row
  BY <1>1 DEF IInv, TypeOK, Request
<1>3. /\ req[r].expected <= req[r].seenVersion
      /\ req[r].seenVersion <= version[req[r].on]
      /\ req[r].seenVersion = version[req[r].on] => req[r].seen = row[req[r].on]
  BY DEF IInv, SnapshotCurrent
<1>4. req[r].seenVersion = version[req[r].on]
  BY <1>2, <1>3 DEF VersionIs
<1>5. Decided(req[r])
  BY DEF IInv, DecisionSound
<1> QED
  BY <1>1, <1>2, <1>3, <1>4, <1>5

\* Every endpoint's transaction is an atomic operation on the current row.
LEMMA CommitIsAtomic ==
  ASSUME IInv, NEW r \in Requests, Commits(r)
  PROVE  \E new \in Row : IsCommit(r, new) /\ AtomicOp(row[req[r].on], new)
<1> DEFINE q   == req[r]
           cur == row[q.on]
<1>1. q # NoRequest /\ VersionIs(q.on, q.expected)
  <2>1. /\ \/ q.op = "triage" \/ q.op = "severity" \/ q.op = "assign" \/ q.op = "unassign"
           \/ q.op = "acknowledge" \/ q.op = "propose" \/ q.op = "approve" \/ q.op = "reject"
        /\ VersionIs(q.on, q.expected)
    BY Zenon DEF Commits, Commit, CommitTriage, CommitSeverity, CommitAssign,
         CommitUnassign, CommitAcknowledge, CommitPropose, CommitApprove, CommitReject
  <2> HIDE DEF q
  <2>2. q # NoRequest
    BY <2>1 DEF NoRequest
  <2> QED
    BY <2>1, <2>2
<1>2. q \in Request /\ q.seen = cur /\ cur \in Row /\ Decided(q)
  BY <1>1, VersionGuard
<1>3. ASSUME NEW new, NEW trail, Commit(r, new, trail)
      PROVE  IsCommit(r, new)
  BY <1>3 DEF Commit, IsCommit, NextVersion, IInv, TypeOK
<1>4. CASE CommitTriage(r)
  <2>1. q.op = "triage" /\ \E trail : Commit(r, Triaged(cur), trail)
    BY <1>4, Zenon DEF CommitTriage
  <2> QED
    BY <2>1, <1>2, <1>3, WriteTypes DEF AtomicOp, Decided
<1>5. CASE CommitSeverity(r)
  <2>1. q.op = "severity" /\ \E trail : Commit(r, SeverityChanged(cur, q.seen, q.sev, q.dropped), trail)
    BY <1>5, Zenon DEF CommitSeverity
  <2>2. q.sev \in Severities
    BY <1>2 DEF Request
  <2> QED
    BY <2>1, <2>2, <1>2, <1>3, WriteTypes DEF AtomicOp, Decided
<1>6. CASE CommitAssign(r)
  <2>1. q.op = "assign" /\ \E trail : Commit(r, Assigned(cur, q.seen, q.who), trail)
    BY <1>6, Zenon DEF CommitAssign
  <2>2. q.who \in Investigators /\ q.who \in Users
    BY <2>1, <1>2 DEF Decided, Users
  <2> QED
    BY <2>1, <2>2, <1>2, <1>3, WriteTypes DEF AtomicOp, Decided
<1>7. CASE CommitUnassign(r)
  <2>1. q.op = "unassign" /\ \E trail : Commit(r, Unassigned(cur, q.seen), trail)
    BY <1>7, Zenon DEF CommitUnassign
  <2> QED
    BY <2>1, <1>2, <1>3, WriteTypes DEF AtomicOp, Decided
<1>8. CASE CommitAcknowledge(r)
  <2>1. q.op = "acknowledge" /\ \E trail : Commit(r, Acknowledged(cur), trail)
    BY <1>8, Zenon DEF CommitAcknowledge
  <2> QED
    BY <2>1, <1>2, <1>3, WriteTypes DEF AtomicOp, Decided
<1>9. CASE CommitPropose(r)
  <2>1. q.op = "propose" /\ \E trail : Commit(r, Proposed(cur), trail)
    BY <1>9, Zenon DEF CommitPropose
  <2> QED
    BY <2>1, <1>2, <1>3, WriteTypes DEF AtomicOp, Decided
<1>10. CASE CommitApprove(r)
  <2>1. q.op = "approve" /\ \E trail : Commit(r, Approved(cur), trail)
    BY <1>10, Zenon DEF CommitApprove
  <2> QED
    BY <2>1, <1>2, <1>3, WriteTypes DEF AtomicOp, Decided
<1>11. CASE CommitReject(r)
  <2>1. q.op = "reject" /\ \E trail : Commit(r, Rejected(cur), trail)
    BY <1>11, Zenon DEF CommitReject
  <2> QED
    BY <2>1, <1>2, <1>3, WriteTypes DEF AtomicOp, Decided
<1> QED
  BY SMTT(60), <1>4, <1>5, <1>6, <1>7, <1>8, <1>9, <1>10, <1>11 DEF Commits
\* The clearance cascade, too, acts on the rows it was computed from: each
\* incident it touches is still assigned to the target and not closed.
LEMMA CascadeIsAtomic ==
  ASSUME IInv, NEW a \in Admins, CommitClearance(a)
  PROVE  /\ IsCascade(cascade[a])
         /\ cascade[a].affected \in SUBSET ClearanceImpact(row, cascade[a].target, cascade[a].level)
         /\ \A i \in cascade[a].affected :
              /\ i \in Incidents
              /\ CascadeOp(row[i], Unassigned(row[i], row[i]))
              /\ row'[i] = Unassigned(row[i], row[i])
              /\ version'[i] = version[i] + 1
         /\ \A i \in Incidents \ cascade[a].affected :
              row'[i] = row[i] /\ version'[i] = version[i]
<1> DEFINE c == cascade[a]
<1>1. c # NoCascade /\ AffectedUnchanged(c)
  BY DEF CommitClearance
<1>2. IsCascade(c)
  BY <1>1 DEF IInv, TypeOK
<1>3. ASSUME NEW i \in c.affected
      PROVE  /\ i \in Incidents
             /\ c.seen[i] = row[i]
             /\ row[i].assignee = c.target
             /\ row[i].stage # "CLOSED"
             /\ MustUnassignOnRaise(c.level, row[i].severity)
  <2>1. i \in Incidents
    BY <1>2 DEF IsCascade
  <2>2. c.seenVersion[i] = version[i]
    BY <1>1 DEF AffectedUnchanged, VersionIs
  <2>3. c.seen[i] = row[i]
    BY <1>1, <2>2 DEF IInv, SnapshotCurrent
  <2> QED
    BY <1>1, <2>1, <2>3 DEF IInv, DecisionSound
<1>4. c.target # NoUser
  BY <1>2, UsersAssumption DEF IsCascade
<1>5. c.affected \in SUBSET ClearanceImpact(row, c.target, c.level)
  BY <1>3 DEF ClearanceImpact, IInv, TypeOK
<1>6. /\ row' = [i \in Incidents |-> IF i \in c.affected
                                     THEN Unassigned(row[i], c.seen[i]) ELSE row[i]]
      /\ version' = [i \in Incidents |-> IF i \in c.affected
                                         THEN NextVersion(i) ELSE version[i]]
  BY DEF CommitClearance
<1>7. ASSUME NEW i \in c.affected
      PROVE  /\ CascadeOp(row[i], Unassigned(row[i], row[i]))
             /\ row'[i] = Unassigned(row[i], row[i])
             /\ version'[i] = version[i] + 1
  BY <1>3, <1>4, <1>6 DEF CascadeOp, NextVersion
<1> QED
  BY <1>2, <1>3, <1>5, <1>6, <1>7

-------------------------------------------------------------------------------
(* The inductive invariant.                                                 *)

\* A row moves only together with its version.
VersionMoves ==
  \A i \in Incidents : \/ row'[i] = row[i] /\ version'[i] = version[i]
                       \/ version'[i] = version[i] + 1

\* Snapshots stay current under any step that moves rows with their versions
\* and leaves each slot alone, empties it or fills it with what it just read.
LEMMA SnapshotStep ==
  ASSUME TypeOK, SnapshotCurrent, VersionMoves,
         \A r \in Requests : \/ req'[r] = req[r] \/ req'[r] = NoRequest
                             \/ /\ req'[r] \in Request
                                /\ req'[r].expected <= req'[r].seenVersion
                                /\ req'[r].seenVersion = version'[req'[r].on]
                                /\ req'[r].seen = row'[req'[r].on],
         \A a \in Admins : \/ cascade'[a] = cascade[a] \/ cascade'[a] = NoCascade
                           \/ \A i \in cascade'[a].affected :
                                /\ cascade'[a].seenVersion[i] <= version'[i]
                                /\ cascade'[a].seen[i] = row'[i]
  PROVE  SnapshotCurrent'
<1>1. ASSUME NEW r \in Requests, req'[r] # NoRequest
      PROVE  LET q == req'[r]
             IN  /\ q.expected <= q.seenVersion
                 /\ q.seenVersion <= version'[q.on]
                 /\ q.seenVersion = version'[q.on] => q.seen = row'[q.on]
  <2>1. CASE req'[r] = req[r]
    <3>1. /\ req[r] \in Request /\ req[r].on \in Incidents
          /\ req[r].seenVersion \in Nat /\ version[req[r].on] \in Nat
      BY <1>1, <2>1 DEF TypeOK, Request
    <3>2. /\ req[r].expected <= req[r].seenVersion
          /\ req[r].seenVersion <= version[req[r].on]
          /\ req[r].seenVersion = version[req[r].on] => req[r].seen = row[req[r].on]
      BY <1>1, <2>1 DEF SnapshotCurrent
    <3> QED
      BY <2>1, <3>1, <3>2 DEF VersionMoves
  <2>2. CASE /\ req'[r] \in Request
             /\ req'[r].expected <= req'[r].seenVersion
             /\ req'[r].seenVersion = version'[req'[r].on]
             /\ req'[r].seen = row'[req'[r].on]
    <3>1. req'[r].seenVersion \in Nat
      BY <2>2 DEF Request
    <3> QED
      BY <2>2, <3>1
  <2> QED
    BY <1>1, <2>1, <2>2
<1>2. ASSUME NEW a \in Admins, cascade'[a] # NoCascade, NEW i \in cascade'[a].affected
      PROVE  /\ cascade'[a].seenVersion[i] <= version'[i]
             /\ cascade'[a].seenVersion[i] = version'[i] => cascade'[a].seen[i] = row'[i]
  <2>1. CASE cascade'[a] = cascade[a]
    <3>1. IsCascade(cascade[a])
      BY <1>2, <2>1 DEF TypeOK
    <3>2. i \in Incidents /\ cascade[a].seenVersion[i] \in Nat /\ version[i] \in Nat
      BY <1>2, <2>1, <3>1 DEF IsCascade, TypeOK
    <3>3. /\ cascade[a].seenVersion[i] <= version[i]
          /\ cascade[a].seenVersion[i] = version[i] => cascade[a].seen[i] = row[i]
      BY <1>2, <2>1 DEF SnapshotCurrent
    <3> QED
      BY <2>1, <3>2, <3>3 DEF VersionMoves
  <2> QED
    BY <1>2, <2>1
<1> QED
  BY <1>1, <1>2 DEF SnapshotCurrent
\* The initial states satisfy the invariant: nothing is in flight.
LEMMA InitInv == Init => IInv
<1> SUFFICES ASSUME Init PROVE IInv
  OBVIOUS
<1>1. row \in [Incidents -> Row]
  BY NewRowType, BoundsAssumption DEF Init
<1>2. TypeOK
  BY <1>1 DEF Init, TypeOK
<1>3. SnapshotCurrent /\ DecisionSound
  BY DEF Init, SnapshotCurrent, DecisionSound
<1> QED
  BY <1>2, <1>3 DEF IInv

\* A request that only empties its slot preserves the invariant.
LEMMA DropStep ==
  ASSUME IInv, NEW r \in Requests, req' = [req EXCEPT ![r] = NoRequest],
         UNCHANGED <<row, version, clearance, cascade, audit>>
  PROVE  IInv'
<1>1. TypeOK'
  BY DEF IInv, TypeOK, IsCascade
<1>2. VersionMoves
  BY DEF VersionMoves
<1>3. \A x \in Requests : req'[x] = req[x] \/ req'[x] = NoRequest
  BY DEF IInv, TypeOK
<1>4. SnapshotCurrent'
  BY <1>2, <1>3, SnapshotStep DEF IInv
<1>5. DecisionSound'
  BY <1>3 DEF IInv, DecisionSound
<1> QED
  BY <1>1, <1>4, <1>5 DEF IInv

\* Reading preserves the invariant: the new snapshot is the current row.
LEMMA ReadStep ==
  ASSUME IInv, NEW r \in Requests, Reads(r)
  PROVE  IInv'
<1>1. PICK q \in Request : IsRead(r, q)
  BY ReadFills DEF IInv
<1>2. /\ req' = [req EXCEPT ![r] = q]
      /\ UNCHANGED <<row, version, clearance, cascade, audit>>
  BY <1>1 DEF IsRead
<1>3. TypeOK'
  BY <1>2 DEF IInv, TypeOK, IsCascade
<1>4. VersionMoves
  BY <1>2 DEF VersionMoves
<1>5. \A x \in Requests : req'[x] = req[x] \/ req'[x] = q
  BY <1>2 DEF IInv, TypeOK
<1>6. SnapshotCurrent'
  BY <1>1, <1>2, <1>4, <1>5, SnapshotStep DEF IInv, IsRead
<1>7. DecisionSound'
  BY <1>1, <1>2, <1>5 DEF IInv, DecisionSound, IsRead
<1> QED
  BY <1>3, <1>6, <1>7 DEF IInv

\* A commit preserves the invariant: it moves its row and the row's version.
LEMMA CommitStep ==
  ASSUME IInv, NEW r \in Requests, Commits(r)
  PROVE  IInv'
<1>1. PICK new \in Row : IsCommit(r, new)
  BY CommitIsAtomic
<1>2. req[r] # NoRequest
  BY DEF Commits, NoRequest, CommitTriage, CommitSeverity, CommitAssign,
         CommitUnassign, CommitAcknowledge, CommitPropose, CommitApprove, CommitReject
<1>3. req[r].on \in Incidents
  BY <1>2 DEF IInv, TypeOK, Request
<1>4. TypeOK'
  BY <1>1, <1>3 DEF IInv, TypeOK, IsCommit, IsCascade
<1>5. VersionMoves
  BY <1>1, <1>3 DEF IInv, TypeOK, IsCommit, VersionMoves
<1>6. \A x \in Requests : req'[x] = req[x] \/ req'[x] = NoRequest
  BY <1>1 DEF IInv, TypeOK, IsCommit
<1>7. cascade' = cascade
  BY <1>1 DEF IsCommit
<1>8. SnapshotCurrent'
  BY <1>5, <1>6, <1>7, SnapshotStep DEF IInv
<1>9. DecisionSound'
  BY <1>6, <1>7 DEF IInv, DecisionSound
<1> QED
  BY <1>4, <1>8, <1>9 DEF IInv

\* Reading for a clearance change preserves the invariant.
LEMMA ReadClearanceStep ==
  ASSUME IInv, NEW a \in Admins, ReadClearance(a)
  PROVE  IInv'
<1>1. PICK target \in Users, level \in ClearanceLevels :
        /\ LET affected == IF level < clearance[target]
                           THEN ClearanceImpact(row, target, level) ELSE {}
           IN  cascade' = [cascade EXCEPT ![a] =
                 [target |-> target, level |-> level, affected |-> affected,
                  seen        |-> [i \in affected |-> row[i]],
                  seenVersion |-> [i \in affected |-> version[i]]]]
        /\ UNCHANGED <<row, version, clearance, req, audit>>
  BY DEF ReadClearance, AcceptedLevels
<1> DEFINE affected == IF level < clearance[target]
                       THEN ClearanceImpact(row, target, level) ELSE {}
           c == [target |-> target, level |-> level, affected |-> affected,
                 seen        |-> [i \in affected |-> row[i]],
                 seenVersion |-> [i \in affected |-> version[i]]]
<1>2. cascade' = [cascade EXCEPT ![a] = c]
  BY <1>1
<1>3. \A i \in affected : /\ i \in Incidents
                          /\ row[i].assignee = target
                          /\ row[i].stage # "CLOSED"
                          /\ MustUnassignOnRaise(level, row[i].severity)
  BY DEF ClearanceImpact, IInv, TypeOK
<1>4. IsCascade(c)
  <2>1. affected \in SUBSET Incidents
    BY <1>3
  <2>2. [i \in affected |-> row[i]] \in [affected -> Row]
    BY <1>3 DEF IInv, TypeOK
  <2>3. [i \in affected |-> version[i]] \in [affected -> Nat]
    BY <1>3 DEF IInv, TypeOK
  <2> HIDE DEF affected
  <2> QED
    BY <2>1, <2>2, <2>3 DEF IsCascade
<1>5. \A x \in Admins : cascade'[x] = cascade[x] \/ cascade'[x] = c
  BY <1>2 DEF IInv, TypeOK
<1>6. TypeOK'
  <2>1. DOMAIN cascade' = Admins
    BY <1>2 DEF IInv, TypeOK
  <2>2. \A x \in Admins : cascade'[x] = NoCascade \/ IsCascade(cascade'[x])
    BY <1>4, <1>5 DEF IInv, TypeOK
  <2> QED
    BY <1>1, <2>1, <2>2 DEF IInv, TypeOK, IsCascade
<1>7. VersionMoves
  BY <1>1 DEF VersionMoves
<1>8. \A i \in affected : c.seenVersion[i] = version[i] /\ c.seen[i] = row[i] /\ version[i] \in Nat
  BY <1>3 DEF IInv, TypeOK
<1>9. SnapshotCurrent'
  <2>1. c.affected = affected
    OBVIOUS
  <2>2. \A i \in c.affected : c.seenVersion[i] <= version'[i] /\ c.seen[i] = row'[i]
    BY <1>1, <1>8, <2>1
  <2> HIDE DEF c
  <2> QED
    BY <1>1, <1>5, <1>7, <2>2, SnapshotStep DEF IInv
<1>10. DecisionSound'
  <2>1. \A i \in c.affected : /\ c.seen[i].assignee = c.target
                              /\ c.seen[i].stage # "CLOSED"
                              /\ MustUnassignOnRaise(c.level, c.seen[i].severity)
    BY <1>3
  <2> HIDE DEF c
  <2> QED
    BY <1>1, <1>5, <2>1 DEF IInv, DecisionSound
<1> QED
  BY <1>6, <1>9, <1>10 DEF IInv
\* Committing a clearance change preserves the invariant.
LEMMA CommitClearanceStep ==
  ASSUME IInv, NEW a \in Admins, CommitClearance(a)
  PROVE  IInv'
<1> DEFINE c == cascade[a]
<1>1. /\ c.target \in Users /\ c.level \in ClearanceLevels
      /\ \A i \in c.affected : /\ i \in Incidents
                               /\ row'[i] = Unassigned(row[i], row[i])
                               /\ version'[i] = version[i] + 1
      /\ \A i \in Incidents \ c.affected : row'[i] = row[i] /\ version'[i] = version[i]
  BY CascadeIsAtomic DEF IsCascade
<1>2. /\ clearance' = [clearance EXCEPT ![c.target] = c.level]
      /\ DOMAIN row' = Incidents /\ DOMAIN version' = Incidents /\ DOMAIN audit' = Incidents
      /\ row' = [i \in Incidents |-> row'[i]] /\ version' = [i \in Incidents |-> version'[i]]
      /\ cascade' = [cascade EXCEPT ![a] = NoCascade]
      /\ req' = req
  BY DEF CommitClearance
<1>3. \A x \in Admins : cascade'[x] = cascade[x] \/ cascade'[x] = NoCascade
  BY <1>2 DEF IInv, TypeOK
<1>4. TypeOK'
  <2>1. row' \in [Incidents -> Row]
    <3>1. \A i \in Incidents : row[i] \in Row /\ Unassigned(row[i], row[i]) \in Row
      BY WriteTypes DEF IInv, TypeOK
    <3>2. \A i \in Incidents : row'[i] \in Row
      BY <1>1, <3>1
    <3> QED
      BY <1>2, <3>2
  <2>2. version' \in [Incidents -> Nat]
    BY <1>1, <1>2 DEF IInv, TypeOK
  <2>3. clearance' \in [Users -> ClearanceLevels]
    BY <1>1, <1>2 DEF IInv, TypeOK
  <2>4. DOMAIN cascade' = Admins
    BY <1>2 DEF IInv, TypeOK
  <2>5. \A x \in Admins : cascade'[x] = NoCascade \/ IsCascade(cascade'[x])
    BY <1>3 DEF IInv, TypeOK
  <2> QED
    BY <1>2, <2>1, <2>2, <2>3, <2>4, <2>5 DEF IInv, TypeOK, IsCascade
<1>5. VersionMoves
  BY <1>1 DEF VersionMoves
<1>6. SnapshotCurrent'
  BY <1>2, <1>3, <1>5, SnapshotStep DEF IInv
<1>7. DecisionSound'
  BY <1>2, <1>3 DEF IInv, DecisionSound
<1> QED
  BY <1>4, <1>6, <1>7 DEF IInv

\* A clearance change that meets a stale incident changes nothing.
LEMMA StaleClearanceStep ==
  ASSUME IInv, NEW a \in Admins, StaleClearance(a)
  PROVE  IInv'
<1>1. /\ cascade' = [cascade EXCEPT ![a] = NoCascade]
      /\ UNCHANGED <<row, version, clearance, req, audit>>
  BY DEF StaleClearance
<1>2. \A x \in Admins : cascade'[x] = cascade[x] \/ cascade'[x] = NoCascade
  BY <1>1 DEF IInv, TypeOK
<1>3. TypeOK'
  <2>1. DOMAIN cascade' = Admins
    BY <1>1 DEF IInv, TypeOK
  <2>2. \A x \in Admins : cascade'[x] = NoCascade \/ IsCascade(cascade'[x])
    BY <1>2 DEF IInv, TypeOK
  <2> QED
    BY <1>1, <2>1, <2>2 DEF IInv, TypeOK, IsCascade
<1>4. VersionMoves
  BY <1>1 DEF VersionMoves
<1>5. SnapshotCurrent'
  BY <1>1, <1>2, <1>4, SnapshotStep DEF IInv
<1>6. DecisionSound'
  BY <1>1, <1>2 DEF IInv, DecisionSound
<1> QED
  BY <1>3, <1>5, <1>6 DEF IInv

\* The disjuncts of Next, by what they do to the slots.
LEMMA NextSplit ==
  Next <=> \/ \E r \in Requests : Reads(r) \/ Commits(r) \/ StaleVersion(r) \/ Lost(r)
           \/ \E a \in Admins : ReadClearance(a) \/ CommitClearance(a) \/ StaleClearance(a)
  BY Zenon DEF Next, Reads, Commits

\* Every step preserves the invariant.
LEMMA StepInv == IInv /\ [Next]_vars => IInv'
<1> SUFFICES ASSUME IInv, [Next]_vars PROVE IInv'
  OBVIOUS
<1>1. CASE UNCHANGED vars
  BY <1>1 DEF vars, IInv, TypeOK, SnapshotCurrent, DecisionSound, IsCascade
<1>2. ASSUME NEW r \in Requests, Reads(r)
      PROVE  IInv'
  BY <1>2, ReadStep
<1>3. ASSUME NEW r \in Requests, Commits(r)
      PROVE  IInv'
  BY <1>3, CommitStep
<1>4. ASSUME NEW r \in Requests, StaleVersion(r) \/ Lost(r)
      PROVE  IInv'
  BY <1>4, DropStep DEF StaleVersion, Lost
<1>5. ASSUME NEW a \in Admins, ReadClearance(a) \/ CommitClearance(a) \/ StaleClearance(a)
      PROVE  IInv'
  BY <1>5, ReadClearanceStep, CommitClearanceStep, StaleClearanceStep
<1> QED
  BY <1>1, <1>2, <1>3, <1>4, <1>5, NextSplit

\* The invariant holds in every reachable state.
THEOREM Invariance == Spec => []IInv
  BY InitInv, StepInv, PTL DEF Spec

\* Every variable keeps its type, however requests and clearance changes
\* interleave.
THEOREM TypeCorrect == Spec => []TypeOK
  BY Invariance, PTL DEF IInv

\* A row read under a version that is still current is still the row: the
\* If-Match guard makes every handler's decision a decision on current data.
THEOREM SnapshotsStayCurrent == Spec => []SnapshotCurrent
  BY Invariance, PTL DEF IInv

-------------------------------------------------------------------------------
(* Consequences, one row at a time.                                         *)

\* Whatever a step does to a row is an atomic operation on that row.
LEMMA RowStep ==
  ASSUME IInv, [Next]_vars, NEW i \in Incidents
  PROVE  \/ row'[i] = row[i]
         \/ AtomicOp(row[i], row'[i])
         \/ CascadeOp(row[i], row'[i])
<1>1. CASE UNCHANGED vars
  BY <1>1 DEF vars
<1>2. ASSUME NEW r \in Requests, Reads(r)
      PROVE  row'[i] = row[i]
  BY <1>2, ReadFills DEF IsRead, IInv
<1>3. ASSUME NEW r \in Requests, Commits(r)
      PROVE  row'[i] = row[i] \/ AtomicOp(row[i], row'[i])
  <2>1. PICK new \in Row : IsCommit(r, new) /\ AtomicOp(row[req[r].on], new)
    BY <1>3, CommitIsAtomic
  <2> QED
    BY <2>1 DEF IsCommit, IInv, TypeOK
<1>4. ASSUME NEW r \in Requests, StaleVersion(r) \/ Lost(r)
      PROVE  row'[i] = row[i]
  BY <1>4 DEF StaleVersion, Lost
<1>5. ASSUME NEW a \in Admins, CommitClearance(a)
      PROVE  row'[i] = row[i] \/ CascadeOp(row[i], row'[i])
  BY <1>5, CascadeIsAtomic
<1>6. ASSUME NEW a \in Admins, ReadClearance(a) \/ StaleClearance(a)
      PROVE  row'[i] = row[i]
  BY <1>6 DEF ReadClearance, StaleClearance
<1> QED
  BY <1>1, <1>2, <1>3, <1>4, <1>5, <1>6, NextSplit
\* Every operation starts from a row that is not closed and moves its stage
\* along the map.
LEMMA OpMovesStage ==
  ASSUME NEW cur \in Row, NEW new, AtomicOp(cur, new) \/ CascadeOp(cur, new)
  PROVE  /\ cur.stage # "CLOSED"
         /\ new.stage # cur.stage => CanTransition(cur.stage, new.stage)
<1>1. CASE MayTriage(cur) /\ new = Triaged(cur)
  BY <1>1 DEF MayTriage, Triaged, CanTransition, STAGE_TRANSITIONS, Row
<1>2. ASSUME NEW next \in Severities, NEW dropped, MayChangeSeverity(cur, next),
             new = SeverityChanged(cur, cur, next, dropped)
      PROVE  /\ cur.stage # "CLOSED"
             /\ new.stage # cur.stage => CanTransition(cur.stage, new.stage)
  <2>1. new.stage = IF dropped # NoUser /\ cur.stage = "INVESTIGATION" THEN "TRIAGE" ELSE cur.stage
    BY <1>2 DEF SeverityChanged, Row
  <2> QED
    BY <1>2, <2>1 DEF MayChangeSeverity, CanTransition, STAGE_TRANSITIONS
<1>3. ASSUME NEW who \in Investigators, MayAssign(cur), new = Assigned(cur, cur, who)
      PROVE  /\ cur.stage # "CLOSED"
             /\ new.stage # cur.stage => CanTransition(cur.stage, new.stage)
  BY <1>3 DEF MayAssign, Assigned, CanTransition, STAGE_TRANSITIONS, Row
<1>4. CASE \/ MayUnassign(cur) /\ new = Unassigned(cur, cur)
           \/ CascadeOp(cur, new)
  BY <1>4 DEF MayUnassign, CascadeOp, Unassigned, CanTransition, STAGE_TRANSITIONS, Row
<1>5. CASE MayAcknowledge(cur) /\ new = Acknowledged(cur)
  BY <1>5 DEF MayAcknowledge, Acknowledged, Row
<1>6. CASE CanTransition(cur.stage, "PENDING_CLOSURE") /\ new = Proposed(cur)
  BY <1>6 DEF Proposed, CanTransition, STAGE_TRANSITIONS, Row
<1>7. CASE MayApprove(cur) /\ new = Approved(cur)
  BY <1>7 DEF MayApprove, Approved, CanTransition, STAGE_TRANSITIONS, Row
<1>8. CASE MayReject(cur) /\ new = Rejected(cur)
  BY <1>8 DEF MayReject, Rejected, CanTransition, STAGE_TRANSITIONS, Row
<1> QED
  BY <1>1, <1>2, <1>3, <1>4, <1>5, <1>6, <1>7, <1>8 DEF AtomicOp

\* No interleaving of stale reads commits a stage change off the map.
THEOREM StagesFollowMap == Spec => StageFollowsMap
<1>1. ASSUME IInv, [Next]_vars
      PROVE  [\A i \in Incidents :
                row'[i].stage # row[i].stage => CanTransition(row[i].stage, row'[i].stage)]_vars
  <2>1. ASSUME NEW i \in Incidents, row'[i].stage # row[i].stage
        PROVE  CanTransition(row[i].stage, row'[i].stage)
    <3>1. row[i] \in Row
      BY <1>1 DEF IInv, TypeOK
    <3> QED
      BY <1>1, <2>1, <3>1, RowStep, OpMovesStage
  <2> QED
    BY <2>1
<1> QED
  BY <1>1, Invariance, PTL DEF Spec, StageFollowsMap

\* A closed incident is never written again.
THEOREM ClosedStaysFinal == Spec => ClosedIsFinal
<1>1. ASSUME IInv, [Next]_vars
      PROVE  [\A i \in Incidents : row[i].stage = "CLOSED" => row'[i] = row[i]]_vars
  <2>1. ASSUME NEW i \in Incidents, row[i].stage = "CLOSED"
        PROVE  row'[i] = row[i]
    <3>1. row[i] \in Row
      BY <1>1 DEF IInv, TypeOK
    <3> QED
      BY <1>1, <2>1, <3>1, RowStep, OpMovesStage
  <2> QED
    BY <2>1
<1> QED
  BY <1>1, Invariance, PTL DEF Spec, ClosedIsFinal
\* The facts about one row that each operation keeps.
RowSound(x) ==
  /\ x.clockSet <=> InHighBand(x.severity)
  /\ x.stage \in {"PENDING_CLOSURE", "CLOSED"} => x.rca

\* Every operation keeps the clock in step with the band and the closure
\* stages behind a recorded cause.
LEMMA OpKeepsRowSound ==
  ASSUME NEW cur \in Row, NEW new, RowSound(cur), AtomicOp(cur, new) \/ CascadeOp(cur, new)
  PROVE  RowSound(new)
<1>1. CASE MayTriage(cur) /\ new = Triaged(cur)
  <2>1. new.clockSet = cur.clockSet /\ new.severity = cur.severity /\ new.stage = "TRIAGE"
    BY <1>1 DEF Triaged, Row
  <2> QED
    BY <2>1 DEF RowSound
<1>2. ASSUME NEW next \in Severities, NEW dropped, MayChangeSeverity(cur, next),
             new = SeverityChanged(cur, cur, next, dropped)
      PROVE  RowSound(new)
  <2> DEFINE rule == ClockRule(cur.severity, next)
  <2>1. rule \in {"restart", "keep"} <=> InHighBand(next)
    BY DEF ClockRule
  <2>2. rule = "keep" => InHighBand(cur.severity)
    BY DEF ClockRule
  <2>3. /\ new.severity = next /\ new.rca = cur.rca
        /\ new.stage = IF dropped # NoUser /\ cur.stage = "INVESTIGATION" THEN "TRIAGE" ELSE cur.stage
    BY <1>2 DEF SeverityChanged, Row
  <2>4. new.clockSet = (rule = "restart" \/ (rule = "keep" /\ cur.clockSet))
    BY <1>2 DEF SeverityChanged, Row
  <2>5. rule # "restart" /\ rule # "keep" => ~InHighBand(next)
    BY <2>1
  <2>6. new.clockSet <=> InHighBand(new.severity)
    <3> HIDE DEF rule
    <3> QED
      BY <2>1, <2>2, <2>3, <2>4, <2>5 DEF RowSound
  <2>7. new.stage \in {"PENDING_CLOSURE", "CLOSED"} => new.rca
    BY <2>3 DEF RowSound
  <2> QED
    BY <2>6, <2>7 DEF RowSound
<1>3. ASSUME NEW who \in Investigators, MayAssign(cur), new = Assigned(cur, cur, who)
      PROVE  RowSound(new)
  <2>1. /\ new.clockSet = cur.clockSet /\ new.severity = cur.severity /\ new.rca = cur.rca
        /\ new.stage \in {cur.stage, "INVESTIGATION"}
    BY <1>3 DEF Assigned, Row
  <2> QED
    BY <2>1 DEF RowSound
<1>4. CASE \/ MayUnassign(cur) /\ new = Unassigned(cur, cur)
           \/ CascadeOp(cur, new)
  <2>1. /\ new.clockSet = cur.clockSet /\ new.severity = cur.severity /\ new.rca = cur.rca
        /\ new.stage \in {cur.stage, "TRIAGE"}
    BY <1>4 DEF Unassigned, CascadeOp, Row
  <2> QED
    BY <2>1 DEF RowSound
<1>5. CASE MayAcknowledge(cur) /\ new = Acknowledged(cur)
  <2>1. /\ new.clockSet = cur.clockSet /\ new.severity = cur.severity /\ new.rca = cur.rca
        /\ new.stage = cur.stage
    BY <1>5 DEF Acknowledged, Row
  <2> QED
    BY <2>1 DEF RowSound
<1>6. CASE CanTransition(cur.stage, "PENDING_CLOSURE") /\ new = Proposed(cur)
  <2>1. new.clockSet = cur.clockSet /\ new.severity = cur.severity /\ new.rca
    BY <1>6 DEF Proposed, Row
  <2> QED
    BY <2>1 DEF RowSound
<1>7. CASE MayApprove(cur) /\ new = Approved(cur)
  <2>1. new.clockSet = cur.clockSet /\ new.severity = cur.severity /\ new.rca = cur.rca /\ cur.rca
    BY <1>7 DEF Approved, MayApprove, Row
  <2> QED
    BY <2>1 DEF RowSound
<1>8. CASE MayReject(cur) /\ new = Rejected(cur)
  <2>1. /\ new.clockSet = cur.clockSet /\ new.severity = cur.severity
        /\ new.stage = "INVESTIGATION"
    BY <1>8 DEF Rejected, Row
  <2> QED
    BY <2>1 DEF RowSound
<1> QED
  BY <1>1, <1>2, <1>3, <1>4, <1>5, <1>6, <1>7, <1>8 DEF AtomicOp

\* A new row is sound.
LEMMA NewRowSound == \A s \in Severities : RowSound(NewRow(s))
  BY DEF NewRow, RowSound

AllRowsSound == \A i \in Incidents : RowSound(row[i])

\* Every row is sound in every reachable state.
LEMMA RowsSound == Spec => []AllRowsSound
<1>1. Init => AllRowsSound
  BY NewRowSound, BoundsAssumption DEF Init, AllRowsSound
<1>2. IInv /\ AllRowsSound /\ [Next]_vars => AllRowsSound'
  <2> SUFFICES ASSUME IInv, AllRowsSound, [Next]_vars, NEW i \in Incidents
               PROVE  RowSound(row'[i])
    BY DEF AllRowsSound
  <2>1. row[i] \in Row /\ RowSound(row[i])
    BY DEF IInv, TypeOK, AllRowsSound
  <2> QED
    BY <2>1, RowStep, OpKeepsRowSound
<1> QED
  BY <1>1, <1>2, Invariance, PTL DEF Spec

\* The escalation clock is set exactly while the severity is in the high band.
THEOREM ClockIsBand == Spec => []ClockMatchesBand
<1>1. AllRowsSound => ClockMatchesBand
  BY DEF AllRowsSound, RowSound, ClockMatchesBand
<1> QED
  BY <1>1, RowsSound, PTL

\* Nothing is under review or closed without a recorded cause.
THEOREM ClosureHasItsCause == Spec => []ClosureHasCause
<1>1. AllRowsSound => ClosureHasCause
  BY DEF AllRowsSound, RowSound, ClosureHasCause
<1> QED
  BY <1>1, RowsSound, PTL

-------------------------------------------------------------------------------
(* Refinement: the handlers implement the atomic workflow.                  *)

\* Only investigators are ever assigned.
AssigneesInvestigate == \A i \in Incidents : row[i].assignee \in Investigators \union {NoUser}

LEMMA OpAssigns ==
  ASSUME NEW cur \in Row, NEW new, AtomicOp(cur, new) \/ CascadeOp(cur, new),
         cur.assignee \in Investigators \union {NoUser}
  PROVE  new.assignee \in Investigators \union {NoUser}
<1>1. CASE \/ MayTriage(cur) /\ new = Triaged(cur)
           \/ MayAcknowledge(cur) /\ new = Acknowledged(cur)
           \/ CanTransition(cur.stage, "PENDING_CLOSURE") /\ new = Proposed(cur)
           \/ MayApprove(cur) /\ new = Approved(cur)
           \/ MayReject(cur) /\ new = Rejected(cur)
  <2>1. new.assignee = cur.assignee
    BY <1>1 DEF Triaged, Acknowledged, Proposed, Approved, Rejected, Row
  <2> QED
    BY <2>1
<1>2. ASSUME NEW next \in Severities, NEW dropped, new = SeverityChanged(cur, cur, next, dropped)
      PROVE  new.assignee \in {NoUser, cur.assignee}
  BY <1>2 DEF SeverityChanged, Row
<1>3. ASSUME NEW who \in Investigators, new = Assigned(cur, cur, who)
      PROVE  new.assignee = who
  BY <1>3 DEF Assigned, Row
<1>4. CASE \/ MayUnassign(cur) /\ new = Unassigned(cur, cur)
           \/ CascadeOp(cur, new)
  <2>1. new.assignee = NoUser
    BY <1>4 DEF Unassigned, CascadeOp, Row
  <2> QED
    BY <2>1
<1> QED
  BY <1>1, <1>2, <1>3, <1>4 DEF AtomicOp

LEMMA AssigneesAreInvestigators == Spec => []AssigneesInvestigate
<1>1. Init => AssigneesInvestigate
  <2>1. \A s \in Severities : NewRow(s).assignee = NoUser
    BY DEF NewRow
  <2> QED
    BY <2>1, BoundsAssumption DEF Init, AssigneesInvestigate
<1>2. IInv /\ AssigneesInvestigate /\ [Next]_vars => AssigneesInvestigate'
  <2> SUFFICES ASSUME IInv, AssigneesInvestigate, [Next]_vars, NEW i \in Incidents
               PROVE  row'[i].assignee \in Investigators \union {NoUser}
    BY DEF AssigneesInvestigate
  <2>1. row[i] \in Row /\ row[i].assignee \in Investigators \union {NoUser}
    BY DEF IInv, TypeOK, AssigneesInvestigate
  <2> QED
    BY <2>1, RowStep, OpAssigns
<1> QED
  BY <1>1, <1>2, Invariance, PTL DEF Spec


\* The abstract module has its own copy of the row operators: the same ones.
LEMMA SameGuards ==
  \A seen :
    /\ Workflow!MayTriage(seen) = MayTriage(seen)
    /\ \A next : Workflow!MayChangeSeverity(seen, next) = MayChangeSeverity(seen, next)
    /\ Workflow!MayAssign(seen) = MayAssign(seen)
    /\ Workflow!MayUnassign(seen) = MayUnassign(seen)
    /\ Workflow!MayAcknowledge(seen) = MayAcknowledge(seen)
    /\ Workflow!CanTransition(seen.stage, "PENDING_CLOSURE")
         = CanTransition(seen.stage, "PENDING_CLOSURE")
    /\ Workflow!MayApprove(seen) = MayApprove(seen)
    /\ Workflow!MayReject(seen) = MayReject(seen)
<1>1. \A from, to : Workflow!CanTransition(from, to) = CanTransition(from, to)
  BY Zenon DEF Workflow!CanTransition, Workflow!STAGE_TRANSITIONS, CanTransition, STAGE_TRANSITIONS
<1> QED
  BY <1>1, Zenon
  DEF Workflow!MayTriage, MayTriage, Workflow!MayChangeSeverity, MayChangeSeverity,
      Workflow!MayAssign, MayAssign, Workflow!MayUnassign, MayUnassign,
      Workflow!MayAcknowledge, MayAcknowledge, Workflow!MayApprove, MayApprove,
      Workflow!MayReject, MayReject

LEMMA SameWrites ==
  \A cur, seen :
    /\ Workflow!Triaged(cur) = Triaged(cur)
    /\ \A next, dropped :
         Workflow!SeverityChanged(cur, seen, next, dropped) = SeverityChanged(cur, seen, next, dropped)
    /\ \A who : Workflow!Assigned(cur, seen, who) = Assigned(cur, seen, who)
    /\ Workflow!Unassigned(cur, seen) = Unassigned(cur, seen)
    /\ Workflow!Acknowledged(cur) = Acknowledged(cur)
    /\ Workflow!Proposed(cur) = Proposed(cur)
    /\ Workflow!Approved(cur) = Approved(cur)
    /\ Workflow!Rejected(cur) = Rejected(cur)
<1>1. \A cur, seen, next, dropped :
        Workflow!SeverityChanged(cur, seen, next, dropped) = SeverityChanged(cur, seen, next, dropped)
  <2> TAKE cur, seen, next, dropped
  <2> DEFINE rule == ClockRule(seen.severity, next)
  <2>1. Workflow!ClockRule(seen.severity, next) = rule
    BY Zenon DEF Workflow!ClockRule, Workflow!InHighBand, Workflow!SeverityRank,
                 Workflow!HIGH_BAND_RANK, ClockRule, InHighBand, SeverityRank, HIGH_BAND_RANK
  <2> DEFINE after(o) == [cur EXCEPT
                  !.severity = next,
                  !.clockSet = o = "restart" \/ (o = "keep" /\ seen.clockSet),
                  !.cycle    = IF o = "restart" THEN seen.cycle + 1 ELSE seen.cycle,
                  !.acked    = o # "restart" /\ seen.acked,
                  !.assignee = IF dropped # NoUser THEN NoUser ELSE @,
                  !.stage    = IF dropped # NoUser /\ seen.stage = "INVESTIGATION" THEN "TRIAGE" ELSE @]
  <2>2. SeverityChanged(cur, seen, next, dropped) = after(rule)
    BY Zenon DEF SeverityChanged
  <2>3. Workflow!SeverityChanged(cur, seen, next, dropped)
          = after(Workflow!ClockRule(seen.severity, next))
    BY Zenon DEF Workflow!SeverityChanged
  <2> HIDE DEF after, rule
  <2> QED
    BY <2>1, <2>2, <2>3, Zenon
<1>2. \A cur, seen : /\ \A who : Workflow!Assigned(cur, seen, who) = Assigned(cur, seen, who)
                    /\ Workflow!Unassigned(cur, seen) = Unassigned(cur, seen)
  BY Zenon DEF Workflow!Assigned, Assigned, Workflow!Unassigned, Unassigned
<1>3. \A cur : /\ Workflow!Triaged(cur) = Triaged(cur)
              /\ Workflow!Acknowledged(cur) = Acknowledged(cur)
              /\ Workflow!Proposed(cur) = Proposed(cur)
              /\ Workflow!Approved(cur) = Approved(cur)
              /\ Workflow!Rejected(cur) = Rejected(cur)
  BY Zenon DEF Workflow!Triaged, Triaged, Workflow!Acknowledged, Acknowledged,
               Workflow!Proposed, Proposed, Workflow!Approved, Approved,
               Workflow!Rejected, Rejected
<1> QED
  BY <1>1, <1>2, <1>3, Zenon

\* An atomic operation on one row is a step of the workflow.
LEMMA AtomicOpRefines ==
  ASSUME NEW i \in Incidents, NEW new, AtomicOp(row[i], new), row' = [row EXCEPT ![i] = new]
  PROVE  Workflow!Next
<1>1. CASE MayTriage(row[i]) /\ new = Triaged(row[i])
  <2>1. Workflow!Triage(i)
    BY <1>1, SameGuards, SameWrites DEF Workflow!Triage, Workflow!Becomes
  <2> QED
    BY <2>1, Zenon DEF Workflow!Next
<1>2. ASSUME NEW next \in Severities, NEW dropped \in {NoUser, row[i].assignee},
             MayChangeSeverity(row[i], next), new = SeverityChanged(row[i], row[i], next, dropped)
      PROVE  Workflow!Next
  <2>1. next \in Workflow!Severities
    BY DEF Severities, Workflow!Severities
  <2>2. Workflow!ChangeSeverity(i)
    BY <1>2, <2>1, SameGuards, SameWrites DEF Workflow!ChangeSeverity, Workflow!Becomes
  <2> QED
    BY <2>2, Zenon DEF Workflow!Next
<1>3. ASSUME NEW who \in Investigators, MayAssign(row[i]), new = Assigned(row[i], row[i], who)
      PROVE  Workflow!Next
  <2>1. Workflow!AssignInvestigator(i)
    BY <1>3, SameGuards, SameWrites DEF Workflow!AssignInvestigator, Workflow!Becomes
  <2> QED
    BY <2>1, Zenon DEF Workflow!Next
<1>4. CASE MayUnassign(row[i]) /\ new = Unassigned(row[i], row[i])
  <2>1. Workflow!UnassignInvestigator(i)
    BY <1>4, SameGuards, SameWrites DEF Workflow!UnassignInvestigator, Workflow!Becomes
  <2> QED
    BY <2>1, Zenon DEF Workflow!Next
<1>5. CASE MayAcknowledge(row[i]) /\ new = Acknowledged(row[i])
  <2>1. Workflow!Acknowledge(i)
    BY <1>5, SameGuards, SameWrites DEF Workflow!Acknowledge, Workflow!Becomes
  <2> QED
    BY <2>1, Zenon DEF Workflow!Next
<1>6. CASE CanTransition(row[i].stage, "PENDING_CLOSURE") /\ new = Proposed(row[i])
  <2>1. Workflow!Propose(i)
    BY <1>6, SameGuards, SameWrites DEF Workflow!Propose, Workflow!Becomes
  <2> QED
    BY <2>1, Zenon DEF Workflow!Next
<1>7. CASE MayApprove(row[i]) /\ new = Approved(row[i])
  <2>1. Workflow!Approve(i)
    BY <1>7, SameGuards, SameWrites DEF Workflow!Approve, Workflow!Becomes
  <2> QED
    BY <2>1, Zenon DEF Workflow!Next
<1>8. CASE MayReject(row[i]) /\ new = Rejected(row[i])
  <2>1. Workflow!Reject(i)
    BY <1>8, SameGuards, SameWrites DEF Workflow!Reject, Workflow!Becomes
  <2> QED
    BY <2>1, Zenon DEF Workflow!Next
<1> QED
  BY <1>1, <1>2, <1>3, <1>4, <1>5, <1>6, <1>7, <1>8 DEF AtomicOp

\* A committed clearance change is a clearance cascade of the workflow, or
\* touches no incident.
LEMMA CascadeRefines ==
  ASSUME IInv, AssigneesInvestigate, NEW a \in Admins, CommitClearance(a)
  PROVE  Workflow!Next \/ row' = row
<1> DEFINE c == cascade[a]
<1>1. /\ c.target \in Users /\ c.level \in 1..4
      /\ c.affected \in SUBSET ClearanceImpact(row, c.target, c.level)
      /\ \A i \in c.affected : i \in Incidents /\ row'[i] = Unassigned(row[i], row[i])
      /\ \A i \in Incidents \ c.affected : row'[i] = row[i]
  BY CascadeIsAtomic, BoundsAssumption DEF IsCascade
<1>2. row' = [i \in Incidents |-> row'[i]] /\ row = [i \in Incidents |-> row[i]]
  BY DEF CommitClearance, IInv, TypeOK
<1>3. CASE c.affected = {}
  BY <1>1, <1>2, <1>3
<1>4. CASE c.affected # {}
  <2>1. c.target \in Investigators
    <3>1. PICK i \in c.affected : i \in Incidents
      BY <1>1, <1>4
    <3>2. row[i].assignee = c.target
      BY <1>1, <3>1 DEF ClearanceImpact
    <3> QED
      BY <1>1, <3>1, <3>2, UsersAssumption DEF AssigneesInvestigate
  <2>2. c.affected \in SUBSET Workflow!ClearanceImpact(row, c.target, c.level)
    <3>1. Workflow!ClearanceImpact(row, c.target, c.level) = ClearanceImpact(row, c.target, c.level)
      BY Zenon DEF Workflow!ClearanceImpact, Workflow!MustUnassignOnRaise, Workflow!SeverityRank,
                   ClearanceImpact, MustUnassignOnRaise, SeverityRank
    <3> QED
      BY <1>1, <3>1
  <2>3. row' = [i \in Incidents |-> IF i \in c.affected
                                    THEN Workflow!Unassigned(row[i], row[i]) ELSE row[i]]
    BY <1>1, <1>2, SameWrites
  <2>4. Workflow!ClearanceCascade(c.target, c.level)
    BY <2>2, <2>3, Zenon DEF Workflow!ClearanceCascade
  <2> QED
    BY <1>1, <2>1, <2>4, Zenon DEF Workflow!Next
<1> QED
  BY <1>3, <1>4

\* The endpoints, with their stale reads, lost requests and version guard,
\* implement operations that happen at one instant on the current row.
THEOREM Refinement == Spec => ImplementsWorkflow
<1>1. Init => Workflow!Init
  <2>1. \A s : Workflow!NewRow(s) = NewRow(s)
    BY Zenon DEF Workflow!NewRow, Workflow!InHighBand, Workflow!SeverityRank,
                 Workflow!HIGH_BAND_RANK, NewRow, InHighBand, SeverityRank, HIGH_BAND_RANK
  <2>2. \A s \in SeverityInputs : NewRow(s) \in {Workflow!NewRow(t) : t \in Workflow!Severities}
    BY <2>1, BoundsAssumption DEF Severities, Workflow!Severities
  <2> QED
    BY <2>2 DEF Init, Workflow!Init
<1>2. IInv /\ AssigneesInvestigate /\ [Next]_vars => [Workflow!Next]_row
  <2> SUFFICES ASSUME IInv, AssigneesInvestigate, [Next]_vars
               PROVE  Workflow!Next \/ row' = row
    OBVIOUS
  <2>1. CASE UNCHANGED vars
    BY <2>1 DEF vars
  <2>2. ASSUME NEW r \in Requests, Reads(r)
        PROVE  row' = row
    BY <2>2, ReadFills DEF IsRead, IInv
  <2>3. ASSUME NEW r \in Requests, Commits(r)
        PROVE  Workflow!Next
    <3>1. PICK new \in Row : IsCommit(r, new) /\ AtomicOp(row[req[r].on], new)
      BY <2>3, CommitIsAtomic
    <3>2. req[r].on \in Incidents
      <4>1. req[r] # NoRequest
        BY <2>3 DEF Commits, NoRequest, CommitTriage, CommitSeverity, CommitAssign,
               CommitUnassign, CommitAcknowledge, CommitPropose, CommitApprove, CommitReject
      <4> QED
        BY <4>1 DEF IInv, TypeOK, Request
    <3> QED
      BY <3>1, <3>2, AtomicOpRefines DEF IsCommit
  <2>4. ASSUME NEW r \in Requests, StaleVersion(r) \/ Lost(r)
        PROVE  row' = row
    BY <2>4 DEF StaleVersion, Lost
  <2>5. ASSUME NEW a \in Admins, CommitClearance(a)
        PROVE  Workflow!Next \/ row' = row
    BY <2>5, CascadeRefines
  <2>6. ASSUME NEW a \in Admins, ReadClearance(a) \/ StaleClearance(a)
        PROVE  row' = row
    BY <2>6 DEF ReadClearance, StaleClearance
  <2> QED
    BY <2>1, <2>2, <2>3, <2>4, <2>5, <2>6, NextSplit
<1> QED
  BY <1>1, <1>2, Invariance, AssigneesAreInvestigators, PTL DEF Spec, ImplementsWorkflow, Workflow!Spec

\* No operation drops an acknowledgement but one that opens the next cycle.
LEMMA OpKeepsAck ==
  ASSUME NEW cur \in Row, NEW new, AtomicOp(cur, new) \/ CascadeOp(cur, new)
  PROVE  /\ new.cycle \in {cur.cycle, cur.cycle + 1}
         /\ cur.acked /\ ~new.acked => new.cycle = cur.cycle + 1
<1>1. CASE \/ MayTriage(cur) /\ new = Triaged(cur)
           \/ MayUnassign(cur) /\ new = Unassigned(cur, cur)
           \/ CascadeOp(cur, new)
           \/ CanTransition(cur.stage, "PENDING_CLOSURE") /\ new = Proposed(cur)
           \/ MayApprove(cur) /\ new = Approved(cur)
           \/ MayReject(cur) /\ new = Rejected(cur)
  <2>1. new.cycle = cur.cycle /\ new.acked = cur.acked
    BY <1>1 DEF Triaged, Unassigned, CascadeOp, Proposed, Approved, Rejected, Row
  <2> QED
    BY <2>1
<1>2. CASE MayAcknowledge(cur) /\ new = Acknowledged(cur)
  <2>1. new.cycle = cur.cycle /\ new.acked
    BY <1>2 DEF Acknowledged, Row
  <2> QED
    BY <2>1
<1>3. ASSUME NEW who \in Investigators, MayAssign(cur), new = Assigned(cur, cur, who)
      PROVE  new.cycle = cur.cycle /\ new.acked = cur.acked
  BY <1>3 DEF Assigned, Row
<1>4. ASSUME NEW next \in Severities, NEW dropped, new = SeverityChanged(cur, cur, next, dropped)
      PROVE  /\ new.cycle \in {cur.cycle, cur.cycle + 1}
             /\ cur.acked /\ ~new.acked => new.cycle = cur.cycle + 1
  <2> DEFINE rule == ClockRule(cur.severity, next)
  <2>1. /\ new.cycle = IF rule = "restart" THEN cur.cycle + 1 ELSE cur.cycle
        /\ new.acked = (rule # "restart" /\ cur.acked)
    BY <1>4 DEF SeverityChanged, Row
  <2> HIDE DEF rule
  <2> QED
    BY <2>1
<1> QED
  BY <1>1, <1>2, <1>3, <1>4 DEF AtomicOp

\* An acknowledgement is lost only to a new escalation cycle, and cycles grow
\* one by one.
THEOREM AcksOutliveTheirCycle == Spec => AckLostOnlyToNewCycle
<1>1. ASSUME IInv, [Next]_vars
      PROVE  [\A i \in Incidents :
                /\ row'[i].cycle \in {row[i].cycle, row[i].cycle + 1}
                /\ row[i].acked /\ ~row'[i].acked => row'[i].cycle = row[i].cycle + 1]_vars
  <2>1. ASSUME NEW i \in Incidents
        PROVE  /\ row'[i].cycle \in {row[i].cycle, row[i].cycle + 1}
               /\ row[i].acked /\ ~row'[i].acked => row'[i].cycle = row[i].cycle + 1
    <3>1. row[i] \in Row
      BY <1>1 DEF IInv, TypeOK
    <3>2. CASE row'[i] = row[i]
      BY <3>2
    <3>3. CASE AtomicOp(row[i], row'[i]) \/ CascadeOp(row[i], row'[i])
      BY <3>1, <3>3, OpKeepsAck
    <3> QED
      BY <1>1, <3>2, <3>3, RowStep
  <2> QED
    BY <2>1
<1> QED
  BY <1>1, Invariance, PTL DEF Spec, AckLostOnlyToNewCycle

-------------------------------------------------------------------------------
(* The audit trail.                                                         *)

\* The audit rows of one transaction account for what it did to a row.
Tells(was, is, trail) ==
  /\ \A from, to \in Stages :
       <<"STAGE_CHANGED", from, to>> \in trail <=> was.stage = from /\ is.stage = to /\ from # to
  /\ \A from, to \in Severities :
       <<"SEVERITY_CHANGED", from, to>> \in trail
         <=> was.severity = from /\ is.severity = to /\ from # to
  /\ \A u \in Users :
       /\ <<"INVESTIGATOR_UNASSIGNED", u, NoUser>> \in trail <=> was.assignee = u /\ is.assignee # u
       /\ <<"INVESTIGATOR_ASSIGNED", NoUser, u>> \in trail => is.assignee = u
       /\ is.assignee = u /\ was.assignee # u => <<"INVESTIGATOR_ASSIGNED", NoUser, u>> \in trail

\* The rows of a trail, by their three columns.
LEMMA TrailRows ==
  ASSUME NEW k, NEW x, NEW y
  PROVE  /\ \A f, t : <<k, x, y>> \in StageChange(f, t) <=> k = "STAGE_CHANGED" /\ x = f /\ y = t
         /\ \A u : <<k, x, y>> \in Unassignment(u)
                     <=> k = "INVESTIGATOR_UNASSIGNED" /\ x = u /\ y = NoUser
         /\ \A z : <<k, x, y>> \notin {<<z>>}
         /\ \A l, f, t : <<k, x, y>> \in {<<l, f, t>>} <=> k = l /\ x = f /\ y = t
  BY DEF StageChange, Unassignment

\* Operations that leave assignee and severity alone tell the stage they move.
LEMMA StageOpTells ==
  ASSUME NEW was \in Row, NEW is \in Row, NEW trail,
         is.assignee = was.assignee, is.severity = was.severity, is.stage # was.stage,
         \/ trail = StageChange(was.stage, is.stage)
         \/ \E z : trail = {<<z>>} \union StageChange(was.stage, is.stage)
  PROVE  Tells(was, is, trail)
<1>1. \A k, x, y : <<k, x, y>> \in trail <=> k = "STAGE_CHANGED" /\ x = was.stage /\ y = is.stage
  <2>1. CASE trail = StageChange(was.stage, is.stage)
    BY <2>1, TrailRows
  <2>2. ASSUME NEW z, trail = {<<z>>} \union StageChange(was.stage, is.stage)
        PROVE  \A k, x, y : <<k, x, y>> \in trail <=> k = "STAGE_CHANGED" /\ x = was.stage /\ y = is.stage
    BY <2>2, TrailRows
  <2> QED
    BY <2>1, <2>2
<1> QED
  BY <1>1 DEF Tells

\* A severity change tells the severity, and the assignee and stage it costs.
LEMMA SeverityTells ==
  ASSUME NEW was \in Row, NEW q, q.seen = was, q.sev \in Severities,
         MayChangeSeverity(was, q.sev), q.dropped \in {NoUser, was.assignee}
  PROVE  Tells(was, SeverityChanged(was, was, q.sev, q.dropped), SeverityTrail(q))
<1> DEFINE is == SeverityChanged(was, was, q.sev, q.dropped)
           trail == SeverityTrail(q)
<1>1. /\ is.severity = q.sev
      /\ is.assignee = IF q.dropped # NoUser THEN NoUser ELSE was.assignee
      /\ is.stage = IF q.dropped # NoUser /\ was.stage = "INVESTIGATION" THEN "TRIAGE" ELSE was.stage
  BY DEF SeverityChanged, Row
<1>2. \A k, x, y : <<k, x, y>> \in trail <=>
        \/ k = "SEVERITY_CHANGED" /\ x = was.severity /\ y = q.sev
        \/ q.dropped # NoUser /\ k = "INVESTIGATOR_UNASSIGNED" /\ x = q.dropped /\ y = NoUser
        \/ /\ q.dropped # NoUser /\ was.stage = "INVESTIGATION"
           /\ k = "STAGE_CHANGED" /\ x = "INVESTIGATION" /\ y = "TRIAGE"
  <2> SUFFICES ASSUME NEW k, NEW x, NEW y
               PROVE <<k, x, y>> \in trail <=>
        \/ k = "SEVERITY_CHANGED" /\ x = was.severity /\ y = q.sev
        \/ q.dropped # NoUser /\ k = "INVESTIGATOR_UNASSIGNED" /\ x = q.dropped /\ y = NoUser
        \/ /\ q.dropped # NoUser /\ was.stage = "INVESTIGATION"
           /\ k = "STAGE_CHANGED" /\ x = "INVESTIGATION" /\ y = "TRIAGE"
    OBVIOUS
  <2> DEFINE row3 == <<k, x, y>>
  <2>1. /\ row3 \in {<<"SEVERITY_CHANGED", was.severity, q.sev>>}
             <=> k = "SEVERITY_CHANGED" /\ x = was.severity /\ y = q.sev
        /\ row3 \in Unassignment(q.dropped) <=> k = "INVESTIGATOR_UNASSIGNED" /\ x = q.dropped /\ y = NoUser
        /\ row3 \in StageChange("INVESTIGATION", "TRIAGE")
             <=> k = "STAGE_CHANGED" /\ x = "INVESTIGATION" /\ y = "TRIAGE"
    BY TrailRows
  <2> HIDE DEF row3
  <2>2. row3 \in trail <=>
          \/ row3 \in {<<"SEVERITY_CHANGED", was.severity, q.sev>>}
          \/ q.dropped # NoUser /\ row3 \in Unassignment(q.dropped)
          \/ q.dropped # NoUser /\ was.stage = "INVESTIGATION" /\ row3 \in StageChange("INVESTIGATION", "TRIAGE")
    BY DEF SeverityTrail
  <2>3. row3 \in trail <=>
        \/ k = "SEVERITY_CHANGED" /\ x = was.severity /\ y = q.sev
        \/ q.dropped # NoUser /\ k = "INVESTIGATOR_UNASSIGNED" /\ x = q.dropped /\ y = NoUser
        \/ /\ q.dropped # NoUser /\ was.stage = "INVESTIGATION"
           /\ k = "STAGE_CHANGED" /\ x = "INVESTIGATION" /\ y = "TRIAGE"
    BY <2>1, <2>2
  <2> QED
    BY <2>3 DEF row3
<1>3. /\ was.stage \in Stages /\ was.severity \in Severities /\ was.severity # q.sev
      /\ NoUser \notin Users
      /\ q.dropped # NoUser => q.dropped = was.assignee
  BY UsersAssumption DEF Row, MayChangeSeverity
<1> HIDE DEF is, trail
<1>4. \A from, to \in Stages :
        <<"STAGE_CHANGED", from, to>> \in trail <=> was.stage = from /\ is.stage = to /\ from # to
  BY <1>1, <1>2, <1>3
<1>5. \A from, to \in Severities :
        <<"SEVERITY_CHANGED", from, to>> \in trail <=> was.severity = from /\ is.severity = to /\ from # to
  BY <1>1, <1>2, <1>3
<1>6. \A u \in Users :
        /\ <<"INVESTIGATOR_UNASSIGNED", u, NoUser>> \in trail <=> was.assignee = u /\ is.assignee # u
        /\ <<"INVESTIGATOR_ASSIGNED", NoUser, u>> \notin trail
        /\ ~(is.assignee = u /\ was.assignee # u)
  BY <1>1, <1>2, <1>3
<1> QED
  BY <1>4, <1>5, <1>6 DEF Tells, is, trail

\* An assignment tells who comes, who is replaced and the stage it moves.
LEMMA AssignTells ==
  ASSUME NEW was \in Row, NEW who \in Investigators, NEW trail,
         trail = {<<"INVESTIGATOR_ASSIGNED", NoUser, who>>}
                   \union (IF was.assignee \notin {NoUser, who}
                           THEN Unassignment(was.assignee) ELSE {})
                   \union (IF was.stage = "TRIAGE"
                           THEN StageChange("TRIAGE", "INVESTIGATION") ELSE {})
  PROVE  Tells(was, Assigned(was, was, who), trail)
<1> DEFINE is == Assigned(was, was, who)
           Is(k, x, y) ==
             \/ k = "INVESTIGATOR_ASSIGNED" /\ x = NoUser /\ y = who
             \/ /\ was.assignee \notin {NoUser, who}
                /\ k = "INVESTIGATOR_UNASSIGNED" /\ x = was.assignee /\ y = NoUser
             \/ /\ was.stage = "TRIAGE"
                /\ k = "STAGE_CHANGED" /\ x = "TRIAGE" /\ y = "INVESTIGATION"
<1>1. /\ is.severity = was.severity /\ is.assignee = who
      /\ is.stage = IF was.stage = "TRIAGE" THEN "INVESTIGATION" ELSE was.stage
  BY DEF Assigned, Row
<1>2. ASSUME NEW k, NEW x, NEW y PROVE <<k, x, y>> \in trail <=> Is(k, x, y)
  <2> DEFINE row3 == <<k, x, y>>
  <2>1. /\ row3 \in {<<"INVESTIGATOR_ASSIGNED", NoUser, who>>}
             <=> k = "INVESTIGATOR_ASSIGNED" /\ x = NoUser /\ y = who
        /\ row3 \in Unassignment(was.assignee)
             <=> k = "INVESTIGATOR_UNASSIGNED" /\ x = was.assignee /\ y = NoUser
        /\ row3 \in StageChange("TRIAGE", "INVESTIGATION")
             <=> k = "STAGE_CHANGED" /\ x = "TRIAGE" /\ y = "INVESTIGATION"
    BY TrailRows
  <2> HIDE DEF row3
  <2>2. row3 \in trail <=>
          \/ row3 \in {<<"INVESTIGATOR_ASSIGNED", NoUser, who>>}
          \/ was.assignee \notin {NoUser, who} /\ row3 \in Unassignment(was.assignee)
          \/ was.stage = "TRIAGE" /\ row3 \in StageChange("TRIAGE", "INVESTIGATION")
    OBVIOUS
  <2>3. row3 \in trail <=> Is(k, x, y)
    BY <2>1, <2>2
  <2> QED
    BY <2>3 DEF row3
<1>3. /\ was.stage \in Stages /\ who \in Users
      /\ NoUser \notin Users
  BY UsersAssumption DEF Row, Users
<1> HIDE DEF is
<1>4. \A from, to \in Stages :
        <<"STAGE_CHANGED", from, to>> \in trail <=> was.stage = from /\ is.stage = to /\ from # to
  BY <1>1, <1>2, <1>3
<1>5. \A from, to \in Severities :
        <<"SEVERITY_CHANGED", from, to>> \in trail <=> was.severity = from /\ is.severity = to /\ from # to
  BY <1>1, <1>2
<1>6. \A u \in Users :
        /\ <<"INVESTIGATOR_UNASSIGNED", u, NoUser>> \in trail <=> was.assignee = u /\ is.assignee # u
        /\ <<"INVESTIGATOR_ASSIGNED", NoUser, u>> \in trail <=> u = who
  BY <1>1, <1>2, <1>3
<1> QED
  BY <1>1, <1>4, <1>5, <1>6 DEF Tells, is

\* An unassignment, asked for or forced by a lower clearance, tells who leaves and
\* the stage it moves.
LEMMA UnassignTells ==
  ASSUME NEW was \in Row, was.assignee # NoUser
  PROVE  Tells(was, Unassigned(was, was), UnassignTrail(was))
<1> DEFINE is == Unassigned(was, was)
           trail == UnassignTrail(was)
           Is(k, x, y) ==
             \/ k = "INVESTIGATOR_UNASSIGNED" /\ x = was.assignee /\ y = NoUser
             \/ /\ was.stage = "INVESTIGATION"
                /\ k = "STAGE_CHANGED" /\ x = "INVESTIGATION" /\ y = "TRIAGE"
<1>1. /\ is.severity = was.severity /\ is.assignee = NoUser
      /\ is.stage = IF was.stage = "INVESTIGATION" THEN "TRIAGE" ELSE was.stage
  BY DEF Unassigned, Row
<1>2. ASSUME NEW k, NEW x, NEW y PROVE <<k, x, y>> \in trail <=> Is(k, x, y)
  <2> DEFINE row3 == <<k, x, y>>
  <2>1. /\ row3 \in Unassignment(was.assignee)
             <=> k = "INVESTIGATOR_UNASSIGNED" /\ x = was.assignee /\ y = NoUser
        /\ row3 \in StageChange("INVESTIGATION", "TRIAGE")
             <=> k = "STAGE_CHANGED" /\ x = "INVESTIGATION" /\ y = "TRIAGE"
    BY TrailRows
  <2> HIDE DEF row3
  <2>2. row3 \in trail <=>
          \/ row3 \in Unassignment(was.assignee)
          \/ was.stage = "INVESTIGATION" /\ row3 \in StageChange("INVESTIGATION", "TRIAGE")
    BY DEF UnassignTrail
  <2>3. row3 \in trail <=> Is(k, x, y)
    BY <2>1, <2>2
  <2> QED
    BY <2>3 DEF row3
<1>3. was.stage \in Stages /\ NoUser \notin Users
  BY UsersAssumption DEF Row
<1> HIDE DEF is, trail
<1>4. \A from, to \in Stages :
        <<"STAGE_CHANGED", from, to>> \in trail <=> was.stage = from /\ is.stage = to /\ from # to
  BY <1>1, <1>2, <1>3
<1>5. \A from, to \in Severities :
        <<"SEVERITY_CHANGED", from, to>> \in trail <=> was.severity = from /\ is.severity = to /\ from # to
  BY <1>1, <1>2
<1>6. \A u \in Users :
        /\ <<"INVESTIGATOR_UNASSIGNED", u, NoUser>> \in trail <=> was.assignee = u /\ is.assignee # u
        /\ <<"INVESTIGATOR_ASSIGNED", NoUser, u>> \notin trail
  BY <1>1, <1>2, <1>3
<1> QED
  BY <1>1, <1>3, <1>4, <1>5, <1>6 DEF Tells, is, trail

\* An acknowledgement changes nothing the trail has a row for but itself.
LEMMA AcknowledgeTells ==
  ASSUME NEW was \in Row
  PROVE  Tells(was, Acknowledged(was), {<<"INCIDENT_ACKNOWLEDGED">>})
<1>1. /\ Acknowledged(was).severity = was.severity /\ Acknowledged(was).stage = was.stage
      /\ Acknowledged(was).assignee = was.assignee
  BY DEF Acknowledged, Row
<1>2. \A k, x, y : <<k, x, y>> \notin {<<"INCIDENT_ACKNOWLEDGED">>}
  BY TrailRows
<1> QED
  BY <1>1, <1>2 DEF Tells

\* The transaction of a request writes the trail of what it does.
LEMMA CommitTells ==
  ASSUME IInv, NEW r \in Requests, Commits(r)
  PROVE  Tells(row[req[r].on], row'[req[r].on], audit'[req[r].on])
<1> DEFINE q   == req[r]
           was == row[q.on]
<1>1. q # NoRequest /\ VersionIs(q.on, q.expected)
  BY DEF Commits, Commit, NoRequest, CommitTriage, CommitSeverity, CommitAssign,
         CommitUnassign, CommitAcknowledge, CommitPropose, CommitApprove, CommitReject
<1>2. q \in Request /\ q.seen = was /\ was \in Row /\ Decided(q) /\ q.on \in Incidents
  BY <1>1, VersionGuard DEF Request
<1>3. ASSUME NEW new, NEW trail, Commit(r, new, trail), Tells(was, new, trail)
      PROVE  Tells(row[q.on], row'[q.on], audit'[q.on])
  BY <1>2, <1>3 DEF Commit, IInv, TypeOK
<1>4. /\ Triaged(was) \in Row /\ Proposed(was) \in Row
      /\ Approved(was) \in Row /\ Rejected(was) \in Row
  BY <1>2, WriteTypes
<1>5. CASE CommitTriage(r)
  <2>1. q.op = "triage" /\ Commit(r, Triaged(was), StageChange(q.seen.stage, "TRIAGE"))
    BY <1>5, Zenon DEF CommitTriage
  <2>2. /\ Triaged(was).stage = "TRIAGE" /\ Triaged(was).severity = was.severity
        /\ Triaged(was).assignee = was.assignee
    BY <1>2 DEF Triaged, Row
  <2>3. was.stage # "TRIAGE"
    BY <1>2, <2>1 DEF Decided, MayTriage, CanTransition, STAGE_TRANSITIONS
  <2>4. Tells(was, Triaged(was), StageChange(q.seen.stage, "TRIAGE"))
    BY <1>2, <1>4, <2>2, <2>3, StageOpTells
  <2> QED
    BY <1>3, <2>1, <2>4
<1>6. CASE CommitSeverity(r)
  <2>1. q.op = "severity" /\ Commit(r, SeverityChanged(was, q.seen, q.sev, q.dropped), SeverityTrail(q))
    BY <1>6, Zenon DEF CommitSeverity
  <2>2. q.sev \in Severities /\ MayChangeSeverity(was, q.sev) /\ q.dropped \in {NoUser, was.assignee}
    BY <1>2, <2>1 DEF Request, Decided
  <2>3. Tells(was, SeverityChanged(was, q.seen, q.sev, q.dropped), SeverityTrail(q))
    BY <1>2, <2>2, SeverityTells
  <2> QED
    BY <1>3, <2>1, <2>3
<1>7. CASE CommitAssign(r)
  <2> DEFINE trail == {<<"INVESTIGATOR_ASSIGNED", NoUser, q.who>>}
                        \union (IF q.seen.assignee \notin {NoUser, q.who}
                                THEN Unassignment(q.seen.assignee) ELSE {})
                        \union (IF q.seen.stage = "TRIAGE"
                                THEN StageChange("TRIAGE", "INVESTIGATION") ELSE {})
  <2>1. q.op = "assign" /\ Commit(r, Assigned(was, q.seen, q.who), trail)
    BY <1>7, Zenon DEF CommitAssign
  <2>2. q.who \in Investigators
    BY <1>2, <2>1 DEF Decided
  <2>3. Tells(was, Assigned(was, q.seen, q.who), trail)
    BY <1>2, <2>2, AssignTells
  <2> QED
    BY <1>3, <2>1, <2>3
<1>8. CASE CommitUnassign(r)
  <2>1. q.op = "unassign" /\ Commit(r, Unassigned(was, q.seen), UnassignTrail(q.seen))
    BY <1>8, Zenon DEF CommitUnassign
  <2>2. was.assignee # NoUser
    BY <1>2, <2>1 DEF Decided, MayUnassign
  <2>3. Tells(was, Unassigned(was, q.seen), UnassignTrail(q.seen))
    BY <1>2, <2>2, UnassignTells
  <2> QED
    BY <1>3, <2>1, <2>3
<1>9. CASE CommitAcknowledge(r)
  <2>1. Commit(r, Acknowledged(was), {<<"INCIDENT_ACKNOWLEDGED">>})
    BY <1>9, Zenon DEF CommitAcknowledge
  <2> QED
    BY <1>2, <1>3, <2>1, AcknowledgeTells
<1>10. CASE CommitPropose(r)
  <2>1. q.op = "propose" /\ Commit(r, Proposed(was), {<<"CLOSURE_PROPOSED">>}
                                     \union StageChange(q.seen.stage, "PENDING_CLOSURE"))
    BY <1>10, Zenon DEF CommitPropose
  <2>2. /\ Proposed(was).stage = "PENDING_CLOSURE" /\ Proposed(was).severity = was.severity
        /\ Proposed(was).assignee = was.assignee
    BY <1>2 DEF Proposed, Row
  <2>3. was.stage # "PENDING_CLOSURE"
    BY <1>2, <2>1 DEF Decided, CanTransition, STAGE_TRANSITIONS
  <2>4. Tells(was, Proposed(was), {<<"CLOSURE_PROPOSED">>} \union StageChange(q.seen.stage, "PENDING_CLOSURE"))
    BY <1>2, <1>4, <2>2, <2>3, StageOpTells
  <2> QED
    BY <1>3, <2>1, <2>4
<1>11. CASE CommitApprove(r)
  <2>1. q.op = "approve" /\ Commit(r, Approved(was), {<<"CLOSURE_APPROVED">>}
                                     \union StageChange(q.seen.stage, "CLOSED"))
    BY <1>11, Zenon DEF CommitApprove
  <2>2. /\ Approved(was).stage = "CLOSED" /\ Approved(was).severity = was.severity
        /\ Approved(was).assignee = was.assignee
    BY <1>2 DEF Approved, Row
  <2>3. was.stage # "CLOSED"
    BY <1>2, <2>1 DEF Decided, MayApprove, CanTransition, STAGE_TRANSITIONS
  <2>4. Tells(was, Approved(was), {<<"CLOSURE_APPROVED">>} \union StageChange(q.seen.stage, "CLOSED"))
    BY <1>2, <1>4, <2>2, <2>3, StageOpTells
  <2> QED
    BY <1>3, <2>1, <2>4
<1>12. CASE CommitReject(r)
  <2>1. q.op = "reject" /\ Commit(r, Rejected(was), {<<"CLOSURE_REJECTED">>}
                                     \union StageChange(q.seen.stage, "INVESTIGATION"))
    BY <1>12, Zenon DEF CommitReject
  <2>2. /\ Rejected(was).stage = "INVESTIGATION" /\ Rejected(was).severity = was.severity
        /\ Rejected(was).assignee = was.assignee
    BY <1>2 DEF Rejected, Row
  <2>3. was.stage # "INVESTIGATION"
    BY <1>2, <2>1 DEF Decided, MayReject
  <2>4. Tells(was, Rejected(was), {<<"CLOSURE_REJECTED">>} \union StageChange(q.seen.stage, "INVESTIGATION"))
    BY <1>2, <1>4, <2>2, <2>3, StageOpTells
  <2> QED
    BY <1>3, <2>1, <2>4
<1> QED
  BY <1>5, <1>6, <1>7, <1>8, <1>9, <1>10, <1>11, <1>12 DEF Commits

\* The audit rows of every transaction that moves an incident say exactly which stage,
\* severity and assignee it replaced, although the values they name were read before
\* the transaction began.
THEOREM TrailsTellTheChange == Spec => AuditTellsTheChange
<1>1. ASSUME IInv, [Next]_vars, NEW i \in Incidents, version'[i] # version[i]
      PROVE  Tells(row[i], row'[i], audit'[i])
  <2>1. \A r \in Requests : ~Reads(r) /\ ~StaleVersion(r) /\ ~Lost(r)
    <3>1. ASSUME NEW r \in Requests, Reads(r) PROVE FALSE
      BY <1>1, <3>1, ReadFills DEF IsRead, IInv
    <3> QED
      BY <1>1, <3>1 DEF StaleVersion, Lost
  <2>2. \A a \in Admins : ~ReadClearance(a) /\ ~StaleClearance(a)
    BY <1>1 DEF ReadClearance, StaleClearance
  <2>3. ASSUME NEW r \in Requests, Commits(r)
        PROVE  Tells(row[i], row'[i], audit'[i])
    <3>1. PICK new \in Row : IsCommit(r, new)
      BY <1>1, <2>3, CommitIsAtomic
    <3>2. i = req[r].on
      BY <1>1, <3>1 DEF IsCommit, IInv, TypeOK
    <3> QED
      BY <1>1, <2>3, <3>2, CommitTells
  <2>4. ASSUME NEW a \in Admins, CommitClearance(a)
        PROVE  Tells(row[i], row'[i], audit'[i])
    <3>1. i \in cascade[a].affected
      BY <1>1, <2>4, CascadeIsAtomic
    <3>2. CascadeOp(row[i], Unassigned(row[i], row[i])) /\ row'[i] = Unassigned(row[i], row[i])
      BY <1>1, <2>4, <3>1, CascadeIsAtomic
    <3>3. row[i] \in Row /\ row[i].assignee # NoUser
      BY <1>1, <3>2 DEF IInv, TypeOK, CascadeOp
    <3>4. audit'[i] = UnassignTrail(row[i])
      <4>1. cascade[a] # NoCascade /\ VersionIs(i, cascade[a].seenVersion[i])
            /\ audit'[i] = UnassignTrail(cascade[a].seen[i])
        BY <2>4, <3>1 DEF CommitClearance, AffectedUnchanged
      <4>2. cascade[a].seen[i] = row[i]
        BY <1>1, <3>1, <4>1 DEF IInv, SnapshotCurrent, VersionIs
      <4> QED
        BY <4>1, <4>2
    <3> QED
      BY <3>2, <3>3, <3>4, UnassignTells
  <2>5. ~(UNCHANGED vars)
    BY <1>1 DEF vars
  <2> QED
    BY <1>1, <2>1, <2>2, <2>3, <2>4, <2>5, NextSplit
<1>2. IInv /\ [Next]_vars =>
        \A i \in Incidents : version'[i] # version[i] => Tells(row[i], row'[i], audit'[i])
  BY <1>1
<1> QED
  BY <1>2, Invariance, PTL DEF Spec, AuditTellsTheChange, Tells
===============================================================================
