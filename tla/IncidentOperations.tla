-------------------------- MODULE IncidentOperations --------------------------
(***************************************************************************)
(* What each incident endpoint demands of the row it read and which        *)
(* columns it then writes, as operators on one row of table Incident.      *)
(*                                                                         *)
(* A row carries the columns the endpoints decide on.  clockSet stands     *)
(* for "highSeveritySince is not null", acked for "acknowledgedAt is not   *)
(* null" and rca for hasClosureRequirements: root cause and corrective     *)
(* action of at least 20 characters each.  currentEscalationLevel, which   *)
(* only the escalation job raises and no guard here reads, belongs to      *)
(* module EscalationJob.                                                   *)
(*                                                                         *)
(* `seen' is the row as the handler read it, `cur' the row its UPDATE      *)
(* meets: a column the code computes takes its value from `seen', a        *)
(* column it does not name keeps the value of `cur'.                       *)
(***************************************************************************)
EXTENDS IncidentPolicy

CONSTANT NoUser     \* the null of a user column

\* A row just inserted by incident.service.ts::create.
NewRow(severity) ==
  [stage    |-> "REPORTED",
   severity |-> severity,
   assignee |-> NoUser,
   clockSet |-> InHighBand(severity),
   cycle    |-> IF InHighBand(severity) THEN 1 ELSE 0,
   acked    |-> FALSE,
   rca      |-> FALSE]

-------------------------------------------------------------------------------
(* triage.service.ts *)

MayTriage(seen) == CanTransition(seen.stage, "TRIAGE")

Triaged(cur) == [cur EXCEPT !.stage = "TRIAGE"]

MayChangeSeverity(seen, next) == seen.stage # "CLOSED" /\ seen.severity # next

\* Mutant: applySeverityChange without its fourth case, so that lowering
\* CRITICAL to HIGH is taken for leaving the band.
SeverityChangedThreeCases(cur, seen, next, dropped) ==
  LET rule == IF ClockRule(seen.severity, next) = "restart" THEN "restart" ELSE "stop"
  IN  [cur EXCEPT !.severity = next,
                  !.clockSet = (rule = "restart"),
                  !.cycle    = IF rule = "restart" THEN seen.cycle + 1 ELSE seen.cycle,
                  !.acked    = rule # "restart" /\ seen.acked,
                  !.assignee = IF dropped # NoUser THEN NoUser ELSE @,
                  !.stage    = IF dropped # NoUser /\ seen.stage = "INVESTIGATION" THEN "TRIAGE" ELSE @]

\* Mutant: the acknowledgement dropped on every severity change.
SeverityChangedForgetsAck(cur, seen, next, dropped) ==
  LET rule == ClockRule(seen.severity, next)
  IN  [cur EXCEPT !.severity = next,
                  !.clockSet = rule # "stop",
                  !.cycle    = IF rule = "restart" THEN seen.cycle + 1 ELSE seen.cycle,
                  !.acked    = FALSE,
                  !.assignee = IF dropped # NoUser THEN NoUser ELSE @,
                  !.stage    = IF dropped # NoUser /\ seen.stage = "INVESTIGATION" THEN "TRIAGE" ELSE @]

\* dropped (unassignedInvestigatorId): the assignee, if the clearance they had
\* when read is below the new severity, else NoUser.
SeverityChanged(cur, seen, next, dropped) ==
  LET rule == ClockRule(seen.severity, next)
  IN  [cur EXCEPT !.severity = next,
                  !.clockSet = rule = "restart" \/ (rule = "keep" /\ seen.clockSet),
                  !.cycle    = IF rule = "restart" THEN seen.cycle + 1 ELSE seen.cycle,
                  !.acked    = rule # "restart" /\ seen.acked,
                  !.assignee = IF dropped # NoUser THEN NoUser ELSE @,
                  !.stage    = IF dropped # NoUser /\ seen.stage = "INVESTIGATION" THEN "TRIAGE" ELSE @]

MayAssign(seen) == seen.stage # "CLOSED"

Assigned(cur, seen, who) ==
  [cur EXCEPT !.assignee = who,
              !.stage    = IF seen.stage = "TRIAGE" THEN "INVESTIGATION" ELSE @]

MayUnassign(seen) ==
  /\ seen.stage \notin {"CLOSED", "PENDING_CLOSURE"}
  /\ seen.assignee # NoUser

Unassigned(cur, seen) ==
  [cur EXCEPT !.assignee = NoUser,
              !.stage    = IF seen.stage = "INVESTIGATION" THEN "TRIAGE" ELSE @]

MayAcknowledge(seen) == seen.stage # "CLOSED" /\ ~seen.acked

Acknowledged(cur) == [cur EXCEPT !.acked = TRUE]

-------------------------------------------------------------------------------
(* closure.service.ts *)

MayPropose(seen, isAdmin, actor) ==
  /\ isAdmin \/ seen.assignee = actor
  /\ CanTransition(seen.stage, "PENDING_CLOSURE")

Proposed(cur) == [cur EXCEPT !.stage = "PENDING_CLOSURE", !.rca = TRUE]

MayApprove(seen) == CanTransition(seen.stage, "CLOSED") /\ seen.rca

Approved(cur) == [cur EXCEPT !.stage = "CLOSED"]

MayReject(seen) == seen.stage = "PENDING_CLOSURE"

Rejected(cur) == [cur EXCEPT !.stage = "INVESTIGATION"]

-------------------------------------------------------------------------------
(* admin.service.ts::computeClearanceImpact: the incidents `user' is        *)
(* assigned to and would no longer be cleared for at `level'.               *)

ClearanceImpact(rows, user, level) ==
  {i \in DOMAIN rows : /\ rows[i].assignee = user
                       /\ rows[i].stage # "CLOSED"
                       /\ MustUnassignOnRaise(level, rows[i].severity)}
===============================================================================
