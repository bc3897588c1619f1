----------------------------- MODULE ServerProcess -----------------------------
(***************************************************************************)
(* The processes of the server as far as the escalation job goes: boot,    *)
(* the interval timer with its overlap guard, Run now, graceful shutdown   *)
(* and sudden death; the lease of the job, and the JobRun row each run     *)
(* opens and should close.                                                 *)
(*                                                                         *)
(* What a run does between claiming and releasing is EscalationJob; here   *)
(* it is one state a run stays in for a while and may fail in.  Several    *)
(* processes share the lease, as two do while one replaces the other.      *)
(***************************************************************************)
EXTENDS Naturals, FiniteSets

CONSTANTS Processes, \* the server processes
          Pressed,   \* those of them that are asked to run now
          LEASE,     \* ESCALATION_LEASE_MS, in time units
          MaxFaults, \* bound: statements that throw and processes that die
          MaxStops   \* bound: signals that stop a process

ASSUME PressedAssumption == Pressed \subseteq Processes
ASSUME BoundsAssumption == LEASE \in Nat \ {0} /\ {MaxFaults, MaxStops} \subseteq Nat

Kinds == {"timer", "request"}

\* Whoever calls runEscalationJob; a process serves one Run now at a time here.
Callers == (Processes \X {"timer"}) \union (Pressed \X {"request"})

NoOne == <<>>

VARIABLES server,  \* server[p]: where process p is, and the variables of scheduler.ts
          run,     \* run[c]: what caller c's run is at, and the outcome in its JobRun row
          mutex,   \* the caller whose claim holds the advisory lock
          lease,   \* the JobLease row: its owner, and how much longer it is held
          open,    \* the kinds of run over whose JobRun row has no outcome, and why
          faults, stops

vars == <<server, run, mutex, lease, open, faults, stops>>

Down == [pc |-> "down", timer |-> FALSE, running |-> FALSE, awaits |-> FALSE]

Booted == [pc |-> "up", timer |-> TRUE, running |-> FALSE, awaits |-> FALSE]

Idle == [pc |-> "idle", row |-> "none"]

Outcomes == {"COMPLETED", "SKIPPED_LOCKED", "FAILED"}

Free == [owner |-> NoOne, left |-> 0]

At(c, pc) == run' = [run EXCEPT ![c].pc = pc]

Init ==
  /\ server = [p \in Processes |-> Down]
  /\ run = [c \in Callers |-> Idle]
  /\ mutex = NoOne
  /\ lease = Free
  /\ open = {}
  /\ faults = 0 /\ stops = 0

\* Time passes: a lease runs out.
Tick ==
  /\ lease.left > 0
  /\ lease' = [lease EXCEPT !.left = @ - 1]
  /\ UNCHANGED <<server, run, mutex, open, faults, stops>>

-------------------------------------------------------------------------------
(* Calls of the job.                                                        *)

TimerFires(p) ==
  /\ server[p].timer /\ ~server[p].running
  /\ server' = [server EXCEPT ![p].running = TRUE]
  /\ At(<<p, "timer">>, "start")
  /\ UNCHANGED <<mutex, lease, open, faults, stops>>

\* POST /jobs/escalation/run: answered until the server has closed.
RunNow(p) ==
  /\ p \in Pressed
  /\ server[p].pc \in {"up", "draining"}
  /\ run[<<p, "request">>] = Idle
  /\ At(<<p, "request">>, "start")
  /\ UNCHANGED <<server, mutex, lease, open, faults, stops>>

-------------------------------------------------------------------------------
(* A run (runEscalationJob).                                                *)

Start(c) ==
  /\ run[c].pc = "start"
  /\ run' = [run EXCEPT ![c] = [pc |-> "claim", row |-> "open"]]
  /\ UNCHANGED <<server, mutex, lease, open, faults, stops>>

\* claimLease: no waiting, neither for another claim nor for the lease.
TryAdvisoryXactLock(c) ==
  /\ run[c].pc = "claim"
  /\ IF mutex = NoOne THEN mutex' = c /\ At(c, "update") ELSE At(c, "skip") /\ UNCHANGED mutex
  /\ UNCHANGED <<server, lease, open, faults, stops>>

ClaimLease(c) ==
  /\ run[c].pc = "update"
  /\ IF lease.left = 0
       THEN lease' = [owner |-> c, left |-> LEASE] /\ At(c, "work")
       ELSE At(c, "skip") /\ UNCHANGED lease
  /\ mutex' = NoOne
  /\ UNCHANGED <<server, open, faults, stops>>

\* jobRunRepository.finish: only a row that is still open takes an outcome.
Finished(row, outcome) == IF row = "open" THEN outcome ELSE row

Finish(c, outcome, pc) ==
  run' = [run EXCEPT ![c] = [pc |-> pc, row |-> Finished(run[c].row, outcome)]]

Skip(c) ==
  /\ run[c].pc = "skip"
  /\ Finish(c, "SKIPPED_LOCKED", "over")
  /\ UNCHANGED <<server, mutex, lease, open, faults, stops>>

\* A full batch is done, and more to scan.
RenewLease(c) ==
  /\ run[c].pc = "work" /\ lease.owner = c /\ lease.left < LEASE
  /\ lease' = [lease EXCEPT !.left = LEASE]
  /\ UNCHANGED <<server, run, mutex, open, faults, stops>>

Complete(c) ==
  /\ run[c].pc = "work"
  /\ Finish(c, "COMPLETED", "release")
  /\ UNCHANGED <<server, mutex, lease, open, faults, stops>>

\* The catch block.
Fail(c) ==
  /\ run[c].pc = "failed"
  /\ Finish(c, "FAILED", "release")
  /\ UNCHANGED <<server, mutex, lease, open, faults, stops>>

Released(c) == IF lease.owner = c THEN Free ELSE lease

ReleaseLease(c) ==
  /\ run[c].pc = "release"
  /\ lease' = Released(c)
  /\ At(c, "over")
  /\ UNCHANGED <<server, mutex, open, faults, stops>>

\* A statement throws, having been carried out (the answer is lost) or not.
\* Before the try block, in the catch block and in the release nothing catches
\* it but the caller; the scan, and the finish that ends it, go to the catch block.
Throw(c) ==
  /\ faults < MaxFaults
  /\ faults' = faults + 1
  /\ \/ /\ run[c].pc \in {"start", "claim", "update", "skip"}
        /\ \E row \in {run[c].row} \union
                        (CASE run[c].pc = "start" -> {"open"}
                           [] run[c].pc = "skip"  -> {Finished(run[c].row, "SKIPPED_LOCKED")}
                           [] OTHER -> {}) :
             run' = [run EXCEPT ![c] = [pc |-> "over", row |-> row]]
        /\ \/ UNCHANGED lease
           \/ run[c].pc = "update" /\ lease.left = 0 /\ lease' = [owner |-> c, left |-> LEASE]
     \/ /\ run[c].pc = "work"
        /\ \/ At(c, "failed") \/ Finish(c, "COMPLETED", "failed")
        /\ UNCHANGED lease
     \/ /\ run[c].pc = "failed"
        /\ \/ At(c, "release") \/ Finish(c, "FAILED", "release")
        /\ UNCHANGED lease
     \/ /\ run[c].pc = "release"
        /\ At(c, "over")
        /\ lease' \in {lease, Released(c)}
  /\ mutex' = IF mutex = c THEN NoOne ELSE mutex
  /\ UNCHANGED <<server, open, stops>>

LeftOpen(c, why) == IF run[c].row = "open" THEN {<<c[2], why>>} ELSE {}

\* Mutant: `then' for `finally'.
SettledIfCompleted(c) ==
  IF run[c].row \in {"COMPLETED", "SKIPPED_LOCKED"}
  THEN [server[c[1]] EXCEPT !.running = FALSE, !.awaits = FALSE]
  ELSE [server[c[1]] EXCEPT !.awaits = FALSE]

\* The end of the timer's promise chain, which is what drainScheduler awaits.
Settled(c) == [server[c[1]] EXCEPT !.running = FALSE, !.awaits = FALSE]

\* The caller has its result or its error.
Settle(c) ==
  /\ run[c].pc = "over"
  /\ run' = [run EXCEPT ![c] = Idle]
  /\ open' = open \union LeftOpen(c, "threw")
  /\ server' = IF c[2] = "timer" THEN [server EXCEPT ![c[1]] = Settled(c)] ELSE server
  /\ UNCHANGED <<mutex, lease, faults, stops>>

-------------------------------------------------------------------------------
(* The process (main.ts).                                                   *)

Boot(p) ==
  /\ server[p].pc = "down"
  /\ server' = [server EXCEPT ![p] = Booted]
  /\ UNCHANGED <<run, mutex, lease, open, faults, stops>>

\* Mutant: shutdown drains the scheduler without stopping it.
StoppedByDrain(s) == [s EXCEPT !.pc = "draining", !.awaits = s.running]

\* stopScheduler, and then drainScheduler with the run in flight by now.
Stopped(s) == [s EXCEPT !.pc = "draining", !.timer = FALSE, !.awaits = s.running]

Shutdown(p) ==
  /\ server[p].pc = "up"
  /\ stops < MaxStops
  /\ stops' = stops + 1
  /\ server' = [server EXCEPT ![p] = Stopped(@)]
  /\ UNCHANGED <<run, mutex, lease, open, faults>>

\* server.close: requests under way go on, and nobody waits for them.
CloseServer(p) ==
  /\ server[p].pc = "draining" /\ ~server[p].awaits
  /\ server' = [server EXCEPT ![p].pc = "closing"]
  /\ UNCHANGED <<run, mutex, lease, open, faults, stops>>

\* The process is gone, and with it the runs and transactions it had.
Gone(p, why) ==
  /\ server' = [server EXCEPT ![p] = Down]
  /\ run' = [c \in Callers |-> IF c[1] = p THEN Idle ELSE run[c]]
  /\ mutex' = IF mutex # NoOne /\ mutex[1] = p THEN NoOne ELSE mutex
  /\ open' = open \union UNION {LeftOpen(c, why) : c \in {d \in Callers : d[1] = p}}
  /\ UNCHANGED <<lease, stops>>

\* disconnectPrisma and process.exit.
Exit(p) ==
  /\ server[p].pc = "closing"
  /\ Gone(p, "exit")
  /\ UNCHANGED faults

Die(p) ==
  /\ server[p].pc # "down"
  /\ faults < MaxFaults
  /\ faults' = faults + 1
  /\ Gone(p, "died")

-------------------------------------------------------------------------------
RunStep(c) ==
  \/ Start(c) \/ TryAdvisoryXactLock(c) \/ ClaimLease(c) \/ Skip(c)
  \/ Complete(c) \/ Fail(c) \/ ReleaseLease(c) \/ Settle(c)

Next ==
  \/ Tick
  \/ \E p \in Processes :
       \/ TimerFires(p) \/ RunNow(p)
       \/ Boot(p) \/ Shutdown(p) \/ CloseServer(p) \/ Exit(p) \/ Die(p)
  \/ \E c \in Callers :
       \/ Start(c) \/ TryAdvisoryXactLock(c) \/ ClaimLease(c) \/ Skip(c) \/ RenewLease(c)
       \/ Complete(c) \/ Fail(c) \/ ReleaseLease(c) \/ Settle(c) \/ Throw(c)

Spec == Init /\ [][Next]_vars

\* Time passes; a run under way goes on, and has a last batch; the interval timer
\* keeps firing; a shutdown goes on; and a process that is gone is started again
\* (restart: unless-stopped).  Nobody has to press Run now, or to stop a process.
FairSpec ==
  /\ Spec
  /\ WF_vars(Tick)
  /\ \A c \in Callers : WF_vars(RunStep(c))
  /\ \A p \in Processes :
       WF_vars(TimerFires(p)) /\ WF_vars(Boot(p)) /\ WF_vars(CloseServer(p)) /\ WF_vars(Exit(p))

-------------------------------------------------------------------------------
(* Properties.                                                              *)

\* The variables have their types, the flags of a process fit together, and the
\* timer has a run exactly while the overlap guard is set.
TypeOK ==
  /\ \A p \in Processes :
       /\ server[p] \in [pc : {"down", "up", "draining", "closing"},
                         timer : BOOLEAN, running : BOOLEAN, awaits : BOOLEAN]
       /\ server[p].timer <=> server[p].pc = "up"
       /\ server[p].running <=> run[<<p, "timer">>] # Idle
  /\ \A c \in Callers :
       /\ run[c].pc \in {"idle", "start", "claim", "update", "skip", "work", "failed", "release", "over"}
       /\ run[c].row \in Outcomes \union {"none", "open"}
       /\ run[c].pc \in {"idle", "start"} => run[c].row = "none"
       /\ run[c].pc \in {"claim", "update", "skip", "work"} => run[c].row = "open"
  /\ mutex \in Callers \union {NoOne} /\ (mutex # NoOne => run[mutex].pc = "update")
  /\ lease.owner \in Callers \union {NoOne} /\ lease.left \in 0..LEASE
  /\ open \subseteq Kinds \X {"threw", "exit", "died"}
  /\ faults \in 0..MaxFaults /\ stops \in 0..MaxStops

\* Whoever holds the lease is at work, and every run that is over has its outcome
\* on record, but for what a thrown statement, a dead process, or an exit in the
\* middle of a Run now leaves: a deployment costs a timer's run neither
\* (main.ts:22, "so an in-flight run is not abandoned mid-batch").
StopsLeaveNothingBehind ==
  faults = 0 =>
    /\ open \subseteq {<<"request", "exit">>}
    /\ lease.left > 0 /\ lease.owner[2] = "timer" => run[lease.owner].pc \in {"work", "release"}

\* Escalation goes on for good: once processes no longer die or stop, runs complete
\* again and again, whatever was left behind: a lease that nobody holds, a claim
\* cut off, an overlap guard after an error (scheduler.ts, "wedge running = true forever").
EscalationRecurs ==
  []<>(\E c \in Callers : run[c].pc = "release" /\ run[c].row = "COMPLETED")

===============================================================================
