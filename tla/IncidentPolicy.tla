---------------------------- MODULE IncidentPolicy ----------------------------
(***************************************************************************)
(* The pure rules every component shares: severity ranks and the high      *)
(* band, the stage map, clearance, assignment and note policies            *)
(* (src/policy/), and the four-way rule of triage.service.ts that says     *)
(* what a severity change does to the escalation clock.                    *)
(***************************************************************************)
EXTENDS Integers

Severities == {"LOW", "MEDIUM", "HIGH", "CRITICAL"}

Stages == {"REPORTED", "TRIAGE", "INVESTIGATION", "PENDING_CLOSURE", "CLOSED"}

\* SEVERITY_RANK of config/constants.ts.
SeverityRank(s) ==
  CASE s = "LOW"      -> 1
    [] s = "MEDIUM"   -> 2
    [] s = "HIGH"     -> 3
    [] s = "CRITICAL" -> 4

HIGH_BAND_RANK == 3

InHighBand(s) == SeverityRank(s) >= HIGH_BAND_RANK

-------------------------------------------------------------------------------
(* stage.policy.ts *)

STAGE_TRANSITIONS ==
  {<<"REPORTED", "TRIAGE">>, <<"TRIAGE", "INVESTIGATION">>,
   <<"INVESTIGATION", "PENDING_CLOSURE">>, <<"INVESTIGATION", "TRIAGE">>,
   <<"PENDING_CLOSURE", "CLOSED">>, <<"PENDING_CLOSURE", "INVESTIGATION">>}

CanTransition(from, to) == <<from, to>> \in STAGE_TRANSITIONS

-------------------------------------------------------------------------------
(* clearance.policy.ts and assignment.policy.ts *)

CanViewSeverity(clearance, severity) == SeverityRank(severity) <= clearance

CanAssignInvestigator(clearance, severity) == clearance >= SeverityRank(severity)

MustUnassignOnRaise(clearance, severity) == clearance < SeverityRank(severity)

-------------------------------------------------------------------------------
(* applySeverityChange of triage.service.ts: which of its three outcomes a  *)
(* change from `current' to `next' has.  Entering the band or rising inside *)
(* it restarts the clock with a new cycle; leaving the band stops it;       *)
(* lowering inside the band keeps every clock column as it was read.        *)

ClockRule(current, next) ==
  IF InHighBand(next) /\ (~InHighBand(current) \/ SeverityRank(next) > SeverityRank(current))
  THEN "restart"
  ELSE IF InHighBand(next) THEN "keep" ELSE "stop"

\* The null of a timestamp column.
Never == -1

\* Mutant: applySeverityChange without its fourth case.
ApplySeverityChangeThreeCases(seen, next, at) ==
  LET rule == IF ClockRule(seen.severity, next) = "restart" THEN "restart" ELSE "stop"
  IN  [since |-> IF rule = "restart" THEN at ELSE Never,
       cycle |-> IF rule = "restart" THEN seen.cycle + 1 ELSE seen.cycle,
       level |-> 0,
       acked |-> rule # "restart" /\ seen.acked]

\* The clock columns after a change from the row `seen' to severity `next',
\* decided at time `at'.
ApplySeverityChange(seen, next, at) ==
  LET rule == ClockRule(seen.severity, next)
  IN  [since |-> CASE rule = "restart" -> at [] rule = "keep" -> seen.since [] OTHER -> Never,
       cycle |-> IF rule = "restart" THEN seen.cycle + 1 ELSE seen.cycle,
       level |-> IF rule = "keep" THEN seen.level ELSE 0,
       acked |-> rule # "restart" /\ seen.acked]
===============================================================================
