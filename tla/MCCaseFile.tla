------------------------------- MODULE MCCaseFile -------------------------------
(* CaseFile on a small instance; requests are interchangeable.               *)
EXTENDS CaseFile

CONSTANTS v1, m1

\* v1 is an investigator, cleared up to MEDIUM or for HIGH, and may be made an
\* administrator; m1 stays a triage manager.
ProfilesHere ==
  [u \in Users |-> IF u = v1
                   THEN {[role |-> "INVESTIGATOR", clearance |-> 2],
                         [role |-> "INVESTIGATOR", clearance |-> 3],
                         [role |-> "ADMIN", clearance |-> 3]}
                   ELSE {[role |-> "TRIAGE_MANAGER", clearance |-> 3]}]

Symmetric == Permutations(Requests)
===============================================================================
