--------------------------- MODULE IncidentWorkflow ---------------------------
(***************************************************************************)
(* What the incident endpoints promise together: each accepted operation   *)
(* takes effect at one instant, on the incident as it is at that instant.  *)
(* There are no requests, snapshots or versions here.                      *)
(*                                                                         *)
(* The promise says nothing of when a clearance was looked up: whether a   *)
(* severity change strands the assignee, and which investigator may be     *)
(* assigned, are left open, because user rows are outside the version      *)
(* guard (IncidentLifecycle shows what that costs).                        *)
(***************************************************************************)
EXTENDS IncidentOperations

CONSTANTS Incidents,        \* incident ids
          Investigators     \* the users an incident may be assigned to

VARIABLE row                \* row[i]: the committed columns of incident i

Init == row \in [Incidents -> {NewRow(s) : s \in Severities}]

Becomes(i, new) == row' = [row EXCEPT ![i] = new]

Triage(i) == MayTriage(row[i]) /\ Becomes(i, Triaged(row[i]))

ChangeSeverity(i) ==
  \E next \in Severities, dropped \in {NoUser, row[i].assignee} :
    /\ MayChangeSeverity(row[i], next)
    /\ Becomes(i, SeverityChanged(row[i], row[i], next, dropped))

AssignInvestigator(i) ==
  \E who \in Investigators : MayAssign(row[i]) /\ Becomes(i, Assigned(row[i], row[i], who))

UnassignInvestigator(i) == MayUnassign(row[i]) /\ Becomes(i, Unassigned(row[i], row[i]))

Acknowledge(i) == MayAcknowledge(row[i]) /\ Becomes(i, Acknowledged(row[i]))

Propose(i) ==
  /\ CanTransition(row[i].stage, "PENDING_CLOSURE")
  /\ Becomes(i, Proposed(row[i]))

Approve(i) == MayApprove(row[i]) /\ Becomes(i, Approved(row[i]))

Reject(i) == MayReject(row[i]) /\ Becomes(i, Rejected(row[i]))

\* A lowered clearance takes away incidents it strands: every one its admin's
\* request found assigned to the user, which may be fewer than there are now.
ClearanceCascade(user, level) ==
  \E affected \in SUBSET ClearanceImpact(row, user, level) :
    row' = [i \in Incidents |-> IF i \in affected THEN Unassigned(row[i], row[i])
                                                 ELSE row[i]]

Next ==
  \/ \E i \in Incidents :
       \/ Triage(i)               \/ ChangeSeverity(i) \/ AssignInvestigator(i)
       \/ UnassignInvestigator(i) \/ Acknowledge(i)    \/ Propose(i)
       \/ Approve(i)              \/ Reject(i)
  \/ \E user \in Investigators, level \in 1..4 : ClearanceCascade(user, level)

Spec == Init /\ [][Next]_row
===============================================================================
