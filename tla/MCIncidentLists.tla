---------------------------- MODULE MCIncidentLists ----------------------------
(* IncidentLists and Analytics on a small instance: three incidents, two reported at once. *)
EXTENDS Analytics, TLC

TwoAtOnce == (1 :> 1) @@ (2 :> 1) @@ (3 :> 2)

At(row, level) == [row EXCEPT !.cycle = 0] @@ [level |-> level, updatedAt |-> 1, escalated |-> level > 0]

\* Escalated, and under review; others are reported as the walk goes on.
TwoRows ==
  LET under(row) == Assigned(Triaged(row), Triaged(row), Me)
  IN {At(under(NewRow("HIGH")), 1), At(Proposed(under(NewRow("MEDIUM"))), 0)}

Ask(list, severity, sort, order) ==
  [list |-> list, severity |-> severity, sort |-> sort, order |-> order]

EachList ==
  {Ask(list, {}, "createdAt", "desc") : list \in Lists \ {"incidents"}}
    \union {Ask("incidents", {"HIGH", "CRITICAL"}, "severity", "asc"),
            Ask("incidents", {}, "updatedAt", "desc")}
\* The first two on one day, the third at the midnight after it.
TwoTypes == (1 :> "SAFETY") @@ (2 :> "SECURITY") @@ (3 :> "SAFETY")

Query(from, to, dateOnly, type, stage, bucket) ==
  [from |-> from, to |-> to, dateOnly |-> dateOnly, type |-> type, stage |-> stage, bucket |-> bucket]

FourQueries ==
  {Query(0, 0, TRUE, {}, {}, DAY),
   Query(0, 2, FALSE, {"SAFETY"}, {"REPORTED", "INVESTIGATION"}, DAY),
   Query(0, 2, TRUE, {}, {}, 2 * DAY),
   Query(1, 1, FALSE, {}, {}, DAY)}
===============================================================================
