----------------------------- MODULE EscalationJob -----------------------------
(***************************************************************************)
(* jobs/escalation.job.ts against the people who work on the incidents     *)
(* while it runs: the lease that lets one run work at a time, the keyset   *)
(* scan in batches, and each batch's transaction statement by statement.   *)
(*                                                                         *)
(* The database runs at READ COMMITTED: each statement of a transaction    *)
(* sees what is committed when it begins plus its own writes; a row one    *)
(* transaction updated, or a unique key it inserted, makes the others that *)
(* want it wait until it ends.  An UPDATE that waited looks at its row     *)
(* again; INSERT ... SELECT does not, so it is two steps here: the row is  *)
(* selected, then written once no other transaction holds the key.  The incident endpoints appear by their effect on   *)
(* the clock columns.  They exclude each other through the version guard   *)
(* (the Refinement theorem of IncidentLifecycle), so only the severity     *)
(* change keeps its two halves: it writes currentEscalationLevel back as   *)
(* it read it, and the job moves that column without moving the version.   *)
(*                                                                         *)
(* The tier set and the recipients' clearances do not change here.         *)
(***************************************************************************)
EXTENDS IncidentPolicy, FiniteSets

CONSTANTS Incidents,      \* incident ids, in the order the scan's id tie-break has
          Runs,           \* concurrent callers of runEscalationJob: schedulers, Run now
          Threshold,      \* Threshold[severity][level]: the active tiers, in time units
          LEASE,          \* ESCALATION_LEASE_MS, in time units
          BATCH_SIZE,     \* ESCALATION_BATCH_SIZE
          SeverityInputs, \* the severities incidents are given
          MaxTime,        \* bound: the clock stops there
          MaxCycle,       \* bound: no severity change is requested beyond it
          MaxFaults       \* bound: how many runs fail or crash

\* The levels that have an active tier; HIGH and CRITICAL need not have the same.
Levels == DOMAIN Threshold["HIGH"] \union DOMAIN Threshold["CRITICAL"]

ASSUME IncidentsAssumption == Incidents \subseteq Nat /\ IsFiniteSet(Incidents)

ASSUME TiersAssumption ==
  /\ DOMAIN Threshold = {"HIGH", "CRITICAL"}
  /\ \A s \in DOMAIN Threshold :
       /\ Threshold[s] \in [DOMAIN Threshold[s] -> Nat \ {0}]
       /\ \A l, m \in DOMAIN Threshold[s] : l < m => Threshold[s][l] < Threshold[s][m]
  /\ Levels \subseteq Nat \ {0}

ASSUME BoundsAssumption ==
  /\ SeverityInputs \subseteq Severities
  /\ BATCH_SIZE \in Nat \ {0}
  /\ MaxCycle \in Nat \ {0}
  /\ {LEASE, MaxTime, MaxFaults} \subseteq Nat

VARIABLES now,        \* the wall clock all instances share
          incident,   \* incident[i]: the clock columns of table Incident
          held,       \* held[i]: a severity change between its read and its UPDATE
          lease,      \* the JobLease row of the escalation job
          run,        \* run[p]: what caller p's run holds in memory
          tx,         \* tx[p]: the writes of p's open transaction
          fired,      \* fired[k]: EscalationEvent rows committed with unique key k
          faults      \* runs that failed so far

vars == <<now, incident, held, lease, run, tx, fired, faults>>

Time == 0..MaxTime

Clocked == [severity : Severities, since : Time \union {Never}, cycle : Nat,
            level : Levels \union {0}, acked : BOOLEAN, closed : BOOLEAN]

\* The unique index of EscalationEvent: incident, cycle, level.
Keys == Incidents \X (0..MaxCycle) \X Levels

NoChange == [next |-> "none"]

Free == [owner |-> "none", until |-> Never]

Idle == [pc |-> "idle"]

NoRow == [severity |-> "none"]

NoWrites == [events |-> {}, levels |-> <<>>]

NewIncident(s) ==
  [severity |-> s, since |-> IF InHighBand(s) THEN 0 ELSE Never,
   cycle |-> IF InHighBand(s) THEN 1 ELSE 0, level |-> 0, acked |-> FALSE, closed |-> FALSE]

Init ==
  /\ now = 0
  /\ incident \in [Incidents -> {NewIncident(s) : s \in SeverityInputs}]
  /\ held = [i \in Incidents |-> NoChange]
  /\ lease = Free
  /\ run = [p \in Runs |-> Idle]
  /\ tx = [p \in Runs |-> NoWrites]
  /\ fired = [k \in Keys |-> 0]
  /\ faults = 0

Tick ==
  /\ now < MaxTime
  /\ now' = now + 1
  /\ UNCHANGED <<incident, held, lease, run, tx, fired, faults>>

-------------------------------------------------------------------------------
(* The incident endpoints.                                                  *)

\* An UPDATE of an incident waits for the transaction that updated it before.
Locked(i) == \E p \in Runs : i \in DOMAIN tx[p].levels

\* A request's UPDATE of incident i: it moves the version, so that a severity
\* change still held on i will find its own version gone.
Written(i, new) ==
  /\ ~Locked(i)
  /\ incident' = [incident EXCEPT ![i] = new]
  /\ held' = [held EXCEPT ![i] = NoChange]
  /\ run' = [p \in Runs |-> IF run[p] = Idle THEN Idle
                            ELSE [run[p] EXCEPT !.touched = @ \union {i}]]
  /\ UNCHANGED <<now, lease, tx, fired, faults>>

Acknowledge(i) ==
  /\ ~incident[i].closed
  /\ ~incident[i].acked
  /\ Written(i, [incident[i] EXCEPT !.acked = TRUE])

\* closure.service.ts::approve, the last of the steps that close an incident.
Close(i) ==
  /\ ~incident[i].closed
  /\ Written(i, [incident[i] EXCEPT !.closed = TRUE])

ReadSeverity(i) ==
  /\ held[i] = NoChange
  /\ ~incident[i].closed
  /\ \E next \in SeverityInputs \ {incident[i].severity} :
       LET clock == ApplySeverityChange(incident[i], next, now)
       IN  /\ clock.cycle <= MaxCycle
           /\ held' = [held EXCEPT ![i] = [next |-> next, clock |-> clock]]
  /\ UNCHANGED <<now, incident, lease, run, tx, fired, faults>>

CommitSeverity(i) ==
  LET h == held[i]
  IN  /\ h # NoChange
      /\ Written(i, [severity |-> h.next, since |-> h.clock.since, cycle |-> h.clock.cycle,
                     level |-> h.clock.level, acked |-> h.clock.acked,
                     closed |-> incident[i].closed])

\* The request is lost, or another endpoint moved the incident's version.
DropSeverity(i) ==
  /\ held[i] # NoChange
  /\ held' = [held EXCEPT ![i] = NoChange]
  /\ UNCHANGED <<now, incident, lease, run, tx, fired, faults>>

-------------------------------------------------------------------------------
(* A run: claim the lease, then batch after batch.                          *)

\* Mutant: a lease nobody released is never taken.
LeaseUnowned == lease.owner = "none"

LeaseFree == lease.until <= now

\* claimLease, once the advisory lock has let one claimer at a time through.
\* A run that finds the lease held ends SKIPPED_LOCKED and is not a step.
ClaimLease(p) ==
  /\ run[p] = Idle
  /\ LeaseFree
  /\ lease' = [owner |-> p, until |-> now + LEASE]
  /\ run' = [run EXCEPT ![p] = [pc |-> "scan", began |-> now, touched |-> {},
                                cursor |-> <<Never, Never>>, more |-> TRUE, due |-> {},
                                row |-> NoRow]]
  /\ UNCHANGED <<now, incident, held, tx, fired, faults>>

\* Mutant: the cursor compares the timestamp alone.
AfterSinceOnly(a, b) == a[1] > b[1]

\* The keyset order of the scan: highSeveritySince, then id.
After(a, b) == a[1] > b[1] \/ (a[1] = b[1] /\ a[2] > b[2])

Position(i) == <<incident[i].since, i>>

\* The WHERE clause of the batch read.
Candidates(cursor) ==
  {i \in Incidents : /\ ~incident[i].acked
                     /\ ~incident[i].closed
                     /\ InHighBand(incident[i].severity)
                     /\ incident[i].since # Never
                     /\ After(Position(i), cursor)}

Batch(cursor) ==
  {i \in Candidates(cursor) :
     Cardinality({j \in Candidates(cursor) :
       \/ incident[j].since < incident[i].since
       \/ incident[j].since = incident[i].since /\ j < i}) < BATCH_SIZE}

\* tiersDueFor
TiersDueFor(c) ==
  {l \in DOMAIN Threshold[c.severity] : l > c.level /\ now - c.since >= Threshold[c.severity][l]}

DueItem(i, l) == [on |-> i, severity |-> incident[i].severity, since |-> incident[i].since,
                  cycle |-> incident[i].cycle, level |-> l]

\* The clock and one batch are read outside any transaction.
ReadBatch(p) ==
  /\ run[p].pc = "scan"
  /\ LET batch == Batch(run[p].cursor)
         due   == UNION {{DueItem(i, l) : l \in TiersDueFor(incident[i])} : i \in batch}
         last  == CHOOSE i \in batch : \A j \in batch \ {i} : After(Position(i), Position(j))
     IN  run' = [run EXCEPT
                   ![p].pc     = IF due = {} THEN "next" ELSE "select",
                   ![p].cursor = IF batch = {} THEN @ ELSE Position(last),
                   ![p].more   = Cardinality(batch) = BATCH_SIZE,
                   ![p].due    = due]
  /\ UNCHANGED <<now, incident, held, lease, tx, fired, faults>>

\* The due list is worked off in scan order, levels ascending.
IsNext(d, due) ==
  /\ d \in due
  /\ \A e \in due \ {d} : \/ After(<<e.since, e.on>>, <<d.since, d.on>>)
                          \/ e.on = d.on /\ e.level > d.level

Key(d) == <<d.on, d.cycle, d.level>>

\* currentEscalationLevel as p's transaction sees it.
LevelSeen(p, i) == IF i \in DOMAIN tx[p].levels THEN tx[p].levels[i] ELSE incident[i].level

\* Mutant: the INSERT trusts the cycle of the batch read.
StillCandidateAnyCycle(p, d) ==
  /\ LevelSeen(p, d.on) < d.level
  /\ ~incident[d.on].acked
  /\ ~incident[d.on].closed
  /\ InHighBand(incident[d.on].severity)

\* The WHERE clause of the INSERT ... SELECT.
StillCandidate(p, d) ==
  /\ incident[d.on].cycle = d.cycle
  /\ LevelSeen(p, d.on) < d.level
  /\ ~incident[d.on].acked
  /\ ~incident[d.on].closed
  /\ InHighBand(incident[d.on].severity)

\* Mutant: no unique index behind ON CONFLICT, the counter alone guards.
NeverConflicts(p, k) == FALSE

\* ON CONFLICT DO NOTHING: the key is committed or this transaction's own.
Conflicts(p, k) == fired[k] > 0 \/ k \in tx[p].events

\* Another open transaction inserted the key: wait for its end.
KeyHeld(p, k) == \E q \in Runs \ {p} : k \in tx[q].events

\* The SELECT of the INSERT reads the incident as it is when the statement
\* begins.  No row: already escalated, or no longer a candidate.
SelectRow(p) ==
  /\ run[p].pc = "select"
  /\ \E d \in run[p].due :
       /\ IsNext(d, run[p].due)
       /\ run' = IF StillCandidate(p, d)
                 THEN [run EXCEPT ![p].pc = "insert", ![p].row = incident[d.on]]
                 ELSE [run EXCEPT ![p].due = @ \ {d}]
  /\ UNCHANGED <<now, incident, held, lease, tx, fired, faults>>

\* The event is written from the row selected, as soon as no other transaction
\* holds its key, with its notifications and its audit row.
InsertEvent(p) ==
  /\ run[p].pc = "insert"
  /\ \E d \in run[p].due :
       /\ IsNext(d, run[p].due)
       /\ ~KeyHeld(p, Key(d))
       /\ IF Conflicts(p, Key(d))
          THEN /\ run' = [run EXCEPT ![p].pc = "select", ![p].row = NoRow, ![p].due = @ \ {d}]
               /\ UNCHANGED tx
          ELSE /\ run' = [run EXCEPT ![p].pc = "bump", ![p].row = NoRow]
               /\ tx' = [tx EXCEPT ![p].events = @ \union {Key(d)}]
  /\ UNCHANGED <<now, incident, held, lease, fired, faults>>

\* Mutant: the counter goes to the highest due level at once.
RaisedToHighest(p, d) ==
  CHOOSE l \in Levels : /\ \E e \in run[p].due : e.on = d.on /\ e.level = l
                        /\ \A e \in run[p].due : e.on = d.on => e.level <= l

RaisedTo(p, d) == d.level

\* The updateMany that raises currentEscalationLevel: it asks for the level
\* to be lower and for nothing else.
BumpLevel(p) ==
  /\ run[p].pc = "bump"
  /\ \E d \in run[p].due :
       /\ IsNext(d, run[p].due)
       /\ \A q \in Runs \ {p} : d.on \notin DOMAIN tx[q].levels
       /\ tx' = [tx EXCEPT ![p].levels =
                   IF LevelSeen(p, d.on) < d.level
                   THEN [i \in DOMAIN @ \union {d.on} |-> IF i = d.on THEN RaisedTo(p, d) ELSE @[i]]
                   ELSE @]
       /\ run' = [run EXCEPT ![p].pc = "select", ![p].due = @ \ {d}]
  /\ UNCHANGED <<now, incident, held, lease, fired, faults>>

CommitBatch(p) ==
  /\ run[p].pc = "select"
  /\ run[p].due = {}
  /\ incident' = [i \in Incidents |-> [incident[i] EXCEPT !.level = LevelSeen(p, i)]]
  /\ fired' = [k \in Keys |-> IF k \in tx[p].events THEN fired[k] + 1 ELSE fired[k]]
  /\ tx' = [tx EXCEPT ![p] = NoWrites]
  /\ run' = [run EXCEPT ![p].pc = "next"]
  /\ UNCHANGED <<now, held, lease, faults>>

\* Mutant: releaseLease without its ownerRunId condition.
ReleasedByAnyone(p) == Free

Released(p) == IF lease.owner = p THEN Free ELSE lease

\* A full batch: renew the lease (renewLease) and scan on from the cursor.
NextBatch(p) ==
  /\ run[p].pc = "next"
  /\ run[p].more
  /\ run' = [run EXCEPT ![p].pc = "scan", ![p].due = {}]
  /\ lease' = IF lease.owner = p THEN [lease EXCEPT !.until = now + LEASE] ELSE lease
  /\ UNCHANGED <<now, incident, held, tx, fired, faults>>

\* A short batch was the last: the run is COMPLETED.
Complete(p) ==
  /\ run[p].pc = "next"
  /\ ~run[p].more
  /\ run' = [run EXCEPT ![p] = Idle]
  /\ lease' = Released(p)
  /\ UNCHANGED <<now, incident, held, tx, fired, faults>>

\* A statement throws (two transactions that wait for each other included:
\* the database aborts one), the transaction times out, or the process dies.
\* The open transaction rolls back and the run is over.  The `finally'
\* releases the lease unless the process is gone or the release fails as well;
\* it then stays held until it expires, within the bound on time.
FailRun(p) ==
  /\ run[p] # Idle
  /\ faults < MaxFaults
  /\ faults' = faults + 1
  /\ \/ lease' = Released(p)
     \/ lease.until <= MaxTime /\ UNCHANGED lease
  /\ run' = [run EXCEPT ![p] = Idle]
  /\ tx' = [tx EXCEPT ![p] = NoWrites]
  /\ UNCHANGED <<now, incident, held, fired>>

-------------------------------------------------------------------------------
RunStep(p) ==
  \/ ClaimLease(p) \/ ReadBatch(p) \/ SelectRow(p) \/ InsertEvent(p) \/ BumpLevel(p)
  \/ CommitBatch(p) \/ NextBatch(p) \/ Complete(p)

Next ==
  \/ Tick
  \/ \E i \in Incidents :
       \/ Acknowledge(i) \/ Close(i) \/ ReadSeverity(i) \/ CommitSeverity(i) \/ DropSeverity(i)
  \/ \E p \in Runs :
       \/ ClaimLease(p) \/ ReadBatch(p) \/ SelectRow(p) \/ InsertEvent(p) \/ BumpLevel(p)
       \/ CommitBatch(p) \/ NextBatch(p) \/ Complete(p) \/ FailRun(p)

Spec == Init /\ [][Next]_vars

\* Time passes, and the interval timer of startScheduler keeps a caller coming
\* back after every outcome, failures included; a run under way does not stop
\* between two statements but by FailRun.  Nobody has to answer an incident.
FairSpec == Spec /\ WF_vars(Tick) /\ \A p \in Runs : WF_vars(RunStep(p))
-------------------------------------------------------------------------------
(* Properties.                                                              *)

InMemory(r) ==
  /\ r.pc \in {"scan", "select", "insert", "bump", "next"}
  /\ r.began \in Time
  /\ r.touched \subseteq Incidents
  /\ r.cursor \in (Time \union {Never}) \X (Incidents \union {Never})
  /\ r.more \in BOOLEAN
  /\ r.due \subseteq [on : Incidents, severity : {"HIGH", "CRITICAL"}, since : Time,
                      cycle : 0..MaxCycle, level : Levels]
  /\ r.row = NoRow \/ r.row \in Clocked
  /\ r.row # NoRow <=> r.pc = "insert"

\* With the CHECK high_severity_clock, which every severity change must meet.
TypeOK ==
  /\ now \in Time
  /\ incident \in [Incidents -> Clocked]
  /\ \A i \in Incidents : incident[i].since # Never <=> InHighBand(incident[i].severity)
  /\ \A i \in Incidents : held[i] = NoChange \/
       /\ held[i].next \in SeverityInputs
       /\ held[i].clock \in [since : Time \union {Never}, cycle : 0..MaxCycle,
                             level : Levels \union {0}, acked : BOOLEAN]
  /\ lease \in [owner : Runs, until : Nat] \union {Free}
  /\ \A p \in Runs : run[p] = Idle \/ InMemory(run[p])
  /\ \A p \in Runs : /\ tx[p].events \subseteq Keys
                     /\ tx[p].levels \in [DOMAIN tx[p].levels -> Levels]
                     /\ DOMAIN tx[p].levels \subseteq Incidents
  /\ fired \in [Keys -> Nat]
  /\ faults \in 0..MaxFaults

\* docs/escalation.md, exactly-once escalation: no (incident, cycle, level) has
\* two events, although a run that outlives its lease works beside the next
\* one and although a severity change may set the counter back.
ExactlyOnce == \A k \in Keys : fired[k] <= 1

\* The counter never shows a level the incident was not escalated to, in this
\* cycle or an earlier one.
LevelHasFired ==
  \A i \in Incidents : incident[i].level > 0 =>
    \E c \in 0..MaxCycle : c <= incident[i].cycle /\ fired[<<i, c, incident[i].level>>] > 0

\* An event is only written from a row still on the clock its deadline was
\* computed from, and records a severity the people it notifies are cleared
\* for.  An INSERT that waited for another run may find the incident changed
\* since it read that row: acknowledged, closed, out of the band; but unless a
\* new cycle began, the incident is no more severe than they are cleared for.
EventFitsIncident ==
  [][\A p \in Runs : run[p] # Idle => \A d \in run[p].due :
       Key(d) \in tx'[p].events \ tx[p].events =>
         /\ run[p].row.since = d.since
         /\ SeverityRank(run[p].row.severity) <= SeverityRank(d.severity)
         /\ incident[d.on].cycle = d.cycle =>
              SeverityRank(incident[d.on].severity) <= SeverityRank(d.severity)]_vars

\* A run loses its lease only by ending or once it has expired: no run that was
\* itself overtaken gives away the lease of its successor.
LeaseOutlastsOthers ==
  [][\A p \in Runs : lease.owner = p /\ lease'.owner # p => lease.until <= now \/ run'[p] = Idle]_vars

OnClock(i) == ~incident[i].acked /\ ~incident[i].closed /\ incident[i].since # Never

\* The incident is escalated to level l, or its counter says so.
Reached(i, l) == incident[i].level >= l \/ fired[<<i, incident[i].cycle, l>>] > 0

\* The clock has passed level l of the tiers for the incident's severity by time t.
DueBy(t, i, l) ==
  /\ OnClock(i)
  /\ l \in DOMAIN Threshold[incident[i].severity]
  /\ t - incident[i].since >= Threshold[incident[i].severity][l]

\* A run that completes has left no incident behind: each one no request wrote
\* to meanwhile has reached every level that was due when the run began.
SweepComplete ==
  [][\A p \in Runs : Complete(p) =>
       \A i \in Incidents \ run[p].touched, l \in Levels :
         DueBy(run[p].began, i, l) => Reached(i, l)]_vars

Overdue(i, l) == DueBy(now, i, l) /\ ~Reached(i, l)

\* No incident stays overdue: runs that crash holding the lease, fail, or wait
\* for one another only delay its escalation.
OverdueIsEscalated == \A i \in Incidents, l \in Levels : Overdue(i, l) ~> ~Overdue(i, l)

-------------------------------------------------------------------------------
(* Statements of the repository that the code does not meet.                *)

\* escalation.repository.ts, above findCurrentEvents: for any row of the
\* active escalations, "a matching event always exists".
FeedHasEvent ==
  \A i \in Incidents :
    incident[i].level > 0 /\ ~incident[i].acked /\ ~incident[i].closed
      => fired[<<i, incident[i].cycle, incident[i].level>>] > 0

===============================================================================
