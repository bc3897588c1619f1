# Incident API: a verification development

TLA+ models of the server in `src/` (Express, Prisma, PostgreSQL), the TLC runs that
check them and the theorems TLAPS proves about them. The server keeps all its state in
the database. What is hard about it is that every handler reads first, decides, and
opens its transaction later, that several instances run the same timer-driven job, and
that READ COMMITTED gives each statement of a transaction its own view.

## The system

| Component | State | Operations | Meets | Must hold |
|---|---|---|---|---|
| Policies (`policy/`, `config/constants.ts`) | none | stage map, clearance, assignment, closure rules | every handler | used on current data |
| Triage endpoints (`triage.service.ts`) | `Incident` row, `AuditEvent` | triage, severity, assign, unassign, acknowledge | each other, closure, clearance changes, the job | version guard; clock runs exactly in the high band; acknowledgement lasts for its cycle |
| Closure endpoints (`closure.service.ts`) | `Incident` row | propose, approve, reject | the same | stage map; cause on record; closed is final |
| Optimistic lock (`ifMatch.middleware.ts`, `updateVersioned`) | `Incident.version` | compare and increment | all writers but the job | no lost update |
| Clearance changes (`admin.service.ts`) | `User.clearanceLevel`, incidents | change, preview, cascade | assignments | all or nothing |
| Roles and status (`admin.service.ts`) | `User.role`, `isActive` | change role, change status | each other | an active administrator remains |
| Escalation job (`escalation.job.ts`) | `JobLease`, `EscalationEvent`, `NotificationLog`, `currentEscalationLevel` | claim, scan, escalate, renew, release | other runs, all endpoints | exactly once per (incident, cycle, level); nobody left behind; goes on after a crash |
| Server processes (`main.ts`, `scheduler.ts`, `jobRun.repository.ts`) | timer, overlap guard, `JobLease`, `JobRun` | boot, tick, Run now, drain, exit | other processes, the job | a stop leaves nothing behind; runs complete again and again |
| Escalation feed (`escalation.service.ts`, `pagination.ts`) | none (cursor at the client) | page, join events | the job, endpoints, clearance changes | no row with a clock lost or repeated by paging |
| Sessions (`auth.service.ts`) | `RefreshToken` | login, refresh, reuse, logout, expiry | each other | one live token per session, unbroken chains |
| Tier administration (`putTiers`, `replaceTierSet`, seed) | `EscalationTier` | replace set, seed | itself, seedings at any time, the job | the table is a valid set, each list a register, unless a seeding falls into a write |
| Investigation notes, timeline, detail view | `InvestigationNote`, `AuditEvent` | add, list, redact, offer | the endpoints, role and clearance changes, late commits | changes of a user effective on the next page; pages exact; offers accepted |
| Audit trail | `AuditEvent` | append, record refusals | every mutation | tells what really changed; refusals bounded |
| Offset lists (`incident.repository.ts`) | none (page at the client) | count and page | every write, clearance changes | misses and repeats have a cause |
| Analytics, summary | none | aggregate | | all reports of a period agree |
| Notifications (`notification.service.ts`, `recipientsFor`) | `NotificationLog` | notify, list with unread count, mark read | job, user changes, regradings | the right people are told; answers agree with their badge and reader |
| Images, rate limits, HTTP layer | none of their own, or external | reads, I/O | | see "Not modelled" |

## Modules

    IncidentPolicy            rules of policy/, severity clock (applySeverityChange)
      IncidentOperations      guard and written columns of each endpoint, on one row
        IncidentWorkflow      abstract: each operation happens at one instant
        IncidentLifecycle     detailed: read, later transaction, version guard
          IncidentLifecycle_proofs
      EscalationJob           lease, scan, batch transactions, against the endpoints
        EscalationJob_proofs
      EscalationFeed          the paged feed, against the job and the endpoints
        EscalationFeed_proofs
      Notifications           whom a run tells, and what a recipient then reads
        Notifications_proofs
      CaseFile                detail view, notes, timeline, refusals of one incident
        CaseFile_proofs
      IncidentLists           the offset lists, page after page
        Analytics             reports over the same table
          IncidentLists_proofs  of both
    TierRegister              abstract: one tier list per severity, written whole
      TierSets                detailed: DELETE, INSERT, unique index, seeding, old runs
        TierSets_proofs
    AdminUsers                role and status changes, locking count
    AuthSession               refresh-token rotation
    ServerProcess             boot, timer, Run now, lease, job rows, shutdown, death
      Platform_proofs         of these three
    MC*                       instances for TLC (symmetry sets, tier tables)

**IncidentLifecycle** has one `Read...` and one `Commit...` action per endpoint. The read
half is everything up to `withTransaction`: visibility, role, stage and clearance checks
on the row as it is then; the request then holds that row (`seen`) and the client's
version (`expected`). The commit half is the transaction: the guarded UPDATE with the
columns computed from `seen`, the new version, the audit rows. `StaleVersion` is the
UPDATE that matches no row, `Lost` the crash. `ReadClearance`, `CommitClearance` and
`StaleClearance` are `changeClearance` with its list of affected incidents. Columns are
reduced to what guards read: `clockSet` for `highSeveritySince` not null, `acked`, and
`rca` for the two texts of a closure. `audit[i]` holds the rows of the last transaction
only; that suffices for a statement about each transaction.

**IncidentWorkflow** is what these endpoints promise together, without requests,
snapshots or versions. `IncidentOperations` is shared: the detailed module applies it with
`seen` and the current row, the abstract one with the same row twice. The two can only
agree if the version guard makes them equal.

**EscalationJob** takes the job's transaction statement by statement (`SelectRow`, `InsertEvent`,
`BumpLevel`, `CommitBatch`), because READ COMMITTED lets other transactions commit
between them; `tx[p]` is what only p's transaction sees. `INSERT ... SELECT ... ON CONFLICT` is
two steps: its row comes from the snapshot the statement begins with (`SelectRow`, `row`), and if
another open transaction holds the key it waits; PostgreSQL does not look at the incident again
when that one rolls back, so the event is written from the row selected. Row locks and the unique index
are guards: `Locked`, `KeyHeld`, `Conflicts`. The endpoints exclude each other by version
(that is the Refinement theorem), so they are single steps here, but for the severity
change: it writes `currentEscalationLevel` back as read, and the job raises that column
without moving the version, so its two halves are kept (`ReadSeverity`, `CommitSeverity`).
Every other write moves the version and thereby drops a change still held.

**EscalationFeed** has one action per step of a page request: authentication (which reads
the clearance), page query, event query with the answer. A row with a level and no
`highSeveritySince` is possible (an incident lowered to MEDIUM between event and counter) and is
treated as the database does: it sorts last in its level (`Sooner`), it is neither after nor at a
cursor of its level (`PastCursor`), and a page that would need a cursor made of it is answered 500
(`AnswerFails`), after which the reader may ask again. `walk` also notes which
incidents were off the reader's list, had no clock or moved up (`ahead`) or down (`behind`) since the
walk began; these two fields are history, only the properties read them. The job is its
transaction's INSERT and its commit, one event per transaction; that a batch commits
several at once gives the reader no state the model lacks. A severity change within the
band may write back any level the incident had earlier in the cycle, which covers its
stale read.

**AdminUsers** (`UsersSpec`) splits a request into read, the start and end of `SELECT ... FOR UPDATE`,
and the UPDATE. **AuthSession** (`SessionsSpec`) splits refresh into read, conditional UPDATE, INSERT and
commit, and revocation into the start of the UPDATE (the rows that match then) and its
end (those that still match once unlocked). Neither meets the other or ServerProcess; their names
differ so that one module can extend all three.

**CaseFile** is what users read and write about one incident besides its columns. The
endpoints are single steps with one audit row each, which the Refinement theorem allows; a
row's time is read before its transaction, so it may enter the log behind rows already
there. `client` is one reader: a detail view with what it offers (`ComputeActions`), or a walk
over timeline or notes with `Authenticate`, `Gate` and `QueryPage` for each page. The actor of a
request is the user's row when it authenticates; administrators change roles and clearances
meanwhile (`ChangeRole`, `ChangeClearance` with its unassignment), and an assignment or a raise
may have found a profile the user no longer has. `due`, `shown`, `held` (the profiles the reader
had during the request) and `could` (read notes with one of them) are history for the properties. `req` holds notes and refusals between
their reads and their transaction. `Accepts` states the guards of the endpoints from
IncidentOperations, so that `OfferedIsAccepted` compares two parts of the code.

**Notifications** is the run of EscalationJob seen from its recipients: `ReadHigh` and
`ReadCritical` are the two reads of `recipientsFor`, `ReadBatch` the batch with any of its
incidents due, `InsertEvent` and `BumpLevel` the transaction, after whose UPDATE the row is locked
(`locked`), `CommitBatch` what others then see. One level per cycle stands for all, which share
recipients and fate. `always` and `ever` are history: who was entitled throughout the run, and at
some moment of it. `walk` is one recipient's list; `FindNotificationsPage` and `AskForCount` are
the two queries of `Promise.all`, `torn` notes a write between them, `held` the highest clearance
of the reader since the request began.

**TierRegister** says what the tier table promises whatever interleaves: one list per
severity, written whole; a PUT that no other overtook replaces the set, one that was
overtaken adds its lists beside the other's or fails. A seeding changes single tiers at any time,
and the PUTs under way then (`Disturbed`) promise less: they bring their tiers in, and leave
nothing beside them but tiers they found. **TierSets** implements it with the
refinement mapping `Register` (INSTANCE ... WITH): DELETE sees the rows committed when it
starts and waits on deleted ones (`LockedBy`), INSERT meets the unique index (`KeyTaken`). Any
number of seedings run beside the server: each `Upsert` is a transaction of its own, keeps
the identity of a row it updates, and waits for a PUT that has deleted it. Nothing in the repository
keeps the two apart: `docker-compose.yml:50-54` orders only the first start of `api` after
`migrate-seed`, a second `docker compose up` seeds beside the running server, `npm run db:seed` runs
at any time, and `Dockerfile` and `scripts/start.sh` start the server without any seed. The
minutes of a seeding are any positive numbers (`config/env.ts:24-29`). A run of the job reads
the set once (`StartRun`) and escalates one watched incident with it later. Three history variables
serve the properties: `table` is "mixed" once a seeding fell into somebody else's write or did not
fit what it found, and "whole" again after a PUT with no seeding during it; `clean` marks such a
PUT; `trusted` says that no run has read a table that was not whole.

**IncidentLists** walks the five offset lists. A request reads the clearance, counts, then
finds its page; every ordering the database may return for equal keys is possible
(`Orders`). History in `walk`: the rows `due`, those ever `tied`, how often each was
`shown`, and whether rows `left` or `came` or a write fell between count and page (`torn`).
**Analytics** defines every report over the same table and adds no action; the Prisma path
(`AnalyticsPeriodWhere`) and the SQL path (`RawWhere`) are kept apart as in the code.

**ServerProcess** has the variables of `scheduler.ts` per process, the run of each caller
(timer, Run now) with the outcome in its JobRun row, the lease and the advisory lock.
EscalationJob is the inside of the state `work`. `Throw` lets any statement of a run fail,
carried out or not; `Die` ends a process at any point; `Shutdown`, `CloseServer`, `Exit` are
the lines of `shutdown`. `open` collects the kinds of runs over without an outcome.

## Runs

| Run | Instance | What it shows |
|---|---|---|
| `lifecycle` | 1 incident, 2 requests, 1 admin's PATCH, 2 investigators, 3 severities, versions to 4 | the safety of every endpoint under interleaving; refinement of IncidentWorkflow |
| `escalation` | 1 incident, 2 runs, 2 levels, lease 1, time 0..2, 2 cycles, 1 failure | overlapping runs, expired leases, an INSERT waiting for a key, regrading during a batch |
| `escalation_sweep` | 2 incidents, batches of 1, 1 level, time 0..3, 1 crash | keyset scan is complete; nothing stays overdue (liveness) |
| `escalation_feed` | 3 incidents, pages of 2, 2 levels, 2 writes, severities from MEDIUM, clearances 3 and 4 | paging loses and repeats no row with a clock |
| `admin_users` | 3 users, 2 roles, 3 requests | the locking count |
| `auth_session` | 4 tokens, 2 sessions, 3 requests | rotation, reuse, logout, expiry |
| `case_file` | 1 incident, 1 user with three profiles, 1 manager, 2 requests, pages of 1, 3 audit rows, 2 writes, time 0..1 | pages, gates under changing users, refusals, offers |
| `tier_sets` | 2 severities, 3 tiers to ask for, 2 PUTs, 2 seedings of 2 tiers with rising or falling minutes, time 0..2 | what keeps the table a valid set, and that it implements the register |
| `incident_lists` | 3 incidents, two created at once, pages of 1, 2 writes, 6 reads, 4 report queries | what offset paging may do, and that reports agree |
| `notifications` | 2 managers, 2 incidents, pages of 1, 2 batches, 2 writes | who is notified, what the list and its badge say |
| `server_process` | 2 processes, Run now on one, lease 2, 1 stop, 2 faults | clean stops; escalation recurs (liveness) |

One more run expects a violation and carries a finding (below).

**Bounds.** *lifecycle*: two requests and a PATCH are every pair, and one triple, of
operations between whose halves another can commit; incidents only meet in the cascade,
which treats each alike and whose all-or-nothing part is in the proof for any number.
Four versions reach every stage from REPORTED on; on a closed incident requests are not
bounded. `MaxLag = 0` there loses nothing: a client copy older than the row read can never
match later, since versions only grow. Clearances 2
and 4 are below and above the high band; severities MEDIUM, HIGH, CRITICAL give all
four clock rules. *escalation*: time 2 with lease 1 lets a lease expire within a run; two
levels one unit apart make several levels due at once; cycle 2 is a restart. The run p1/p2
pair is symmetric. *escalation_sweep*: two incidents entering the band at one time meet at
the batch boundary, and CRITICAL is due before HIGH. *escalation_feed*: three rows on pages of
two put a page boundary between rows with equal keys and leave a page to come; two writes
suffice to move an incident over the cursor and back, or to lower it to MEDIUM under an open
event and commit the level. *admin_users*: two requests must count
while a third changes what they count. *auth_session*: a chain of four tokens, or two
sessions of two, with three requests. *case_file*: three rows on pages of one give a page boundary
between rows of one time and room for a row committed behind the cursor; the user is an
investigator cleared for MEDIUM, one cleared for HIGH, or an administrator, so that a change opens or closes
either gate, and two writes are a change of the user and one of the incident within a request. *tier_sets*:
two PUTs are one that is overtaken or waits and one that does not, two seedings one that runs alone and one
that falls into it or into a PUT; their minutes fit each other or not, and no valid set has level 2 of
HIGH without level 1. The invariant of the proof was also checked with three PUTs and one seeding. *incident_lists*: two rows share a sort key and a third does not;
two writes can move a row into and out of the pages read; the queries end at a midnight, on a day,
with and without filters. *notifications*: clearances 3 and 4 are
enough for HIGH but only one for CRITICAL; two writes are a regrading and a user change within one
run, two batches let a key be met again; the second incident makes a second page. *server_process*: two processes are one and its replacement; lease 2
lets a renewal and an expiry fall into one run; the second fault can hit the recovery from the first.

Runs that stop at a bound say `CHECK_DEADLOCK FALSE`; `escalation_feed`, where the reader
can always begin again, does not.

**Fairness**, in two runs. `FairSpec` of EscalationJob (`escalation_sweep`): weak fairness of
`Tick`, as clocks run, and of each caller's `RunStep`, because `startScheduler` sets an
interval timer that calls the job again after every outcome (`scheduler.ts:12-50`, errors
are caught and logged) and a run's own statements follow each other. No fairness is assumed
of people: nobody has to acknowledge or close. Faults are bounded by `MaxFaults`; without an
end to crashes nothing would be escalated. With time bounded, `OverdueIsEscalated` says that
what is overdue within the bound is escalated, answered or taken off the clock in the end.
`FairSpec` of ServerProcess (`server_process`): weak fairness of time, of a run's own next
statement (and of its end: a scan is finite), of the timer, of a shutdown once begun, and of
`Boot`, since docker-compose restarts the container (`restart: unless-stopped`). Nobody has to
press Run now or stop a process, and no run is assumed to succeed in claiming. Faults and stops
are finite; `EscalationRecurs` says that runs complete again and again whatever those left behind.

## Theorems

All hold for every value of the constants that satisfies the named ASSUMEs of the modules:
finite sets of users, incidents, requests and tiers, null values outside their sets, natural
bounds, a page size of at least 1. No assumption says how many of anything there are.
Each module with an inductive invariant calls it `IInv` and proves it as `Invariance` (in
Platform_proofs also `UsersIInv`, `SessionsIInv`). Every invariant and action property that a run
expects to hold is a theorem.

* **IncidentLifecycle_proofs.** The inductive invariant is
  `TypeOK /\ SnapshotCurrent /\ DecisionSound`. SnapshotCurrent (a row whose version is
  still the one read is the row read) is inductive because every write increments;
  DecisionSound (what is held passed its handler's checks on the row it holds) is needed
  to turn that into "the checks hold now". `CommitIsAtomic` and `CascadeIsAtomic` then
  make every commit one of ten operations on the current row, from which stage map,
  finality, acknowledgement, clock, closure gate, the audit rows (`AuditTellsTheChange`) and
  the refinement follow without looking at requests again.
* **EscalationJob_proofs.** `ExactlyOnce` from `PendingIsNew`: a key in an open
  transaction is neither committed nor in another open one. The proof uses neither lease
  nor counter; they are not what makes escalation exactly-once. The other properties come
  from `IInv`: a clock runs exactly in the high band, and a due item whose cycle is still the
  row's describes it (`Clocks`, `DueIsSound`), as does the row an INSERT has selected, however long it
  waits (`RowIsSound`; for `EventFitsIncident`); a counter, whether in the row
  or in what a severity change read and will write back, has its event, and so has one about to be
  committed (`LevelsFired`, `WritesAreSound`, for `LevelHasFired`); and an incident due since before
  the run that nobody wrote to has reached its level, or is in the run's transaction or its list, or
  lies ahead of its cursor (`NothingLost`, for `SweepComplete`). `LeaseOutlastsOthers` follows from
  the conditional UPDATE itself, which compares owner and expiry.
* **EscalationFeed_proofs.** `Owed`: an incident that stayed on the list with its clock running and
  did not move up lies past the cursor until it has been shown, or is among the page's rows with its
  event. It needs three facts of other parts of the code: a severity that rises starts over at level 0,
  so what stays listed is still readable with the clearance the request began with; events
  are never deleted; and a cursor always has a timestamp (`CursorFacts`), since a page that would end on a
  row without one fails and leaves the cursor as it was. `Settled`: what has been shown and has
  not moved down does not lie past the cursor. Completeness (`NobodyMissed`) is the first at the last page,
  `ShownOnce` the second when a page is read; both rest on the order being total and strict, and on a
  page being the beginning of what matches.
* **CaseFile_proofs.** `Marked`: the log stays sorted by time, so wherever late rows put the
  cursor, what was due and lies before it has been shown once and what lies behind it never
  (`WalkExact`). `Spaced`: there is an assignment of the refusals' rows to the server's slots in
  which two rows of one user and one slot are more than a window apart, since the second request
  in a slot checked after the first had ended; `DenialsBounded` is counting slots. `ClientOK`: the
  actor a request holds is among the profiles its reader has had since it authenticated, so what the
  query or the redaction allows that actor was allowed during that request (`EffectiveNextRequest`).
  The rest is the offers' own conditions (`OfferedIsAccepted`).
* **TierSets_proofs.** A clean PUT under way has seen all the rows there are of a severity or none of
  them (`WholeOrNone`), what it leaves is part of what another PUT under way leaves or the other way round
  (`Nested`), and keys are unique: hence its DELETE by id removes a whole list, or the INSERT
  meets level 1 of another's list and fails. That gives a valid table while it is "whole", and the
  refinement of TierRegister step by step, with disturbed PUTs held to less. A seeding that has the table
  to itself takes it from one valid set to another through sets that are valid but for what it still brings
  (`NoGaps`, `SeededSoFar`); the seed is not assumed to be valid, nor its minutes to increase.
  `RunIsSound` carries the table a trusted run has read to the levels it fires (`NoLevelSkipped`).
* **Notifications_proofs.** `Between`: what a run has read as recipients holds everyone entitled
  throughout it so far, and only people entitled at some moment of it; recipients for CRITICAL are
  in that sense recipients for HIGH. `EventsFit`: an event not committed yet is new, and the severity it
  records is that of the batch or lower. The two give `RightPeopleAreTold`. `LogFits`: nobody has two
  rows of one event, and none is newer than the batch now, so the rows a commit adds are new ones.
  For the reader, a result is what its query would still give until something is written
  (`ResultStands`), two results of an untorn request agree (`Agreed`), and no row held is above the
  clearance of the request, which is at most the highest the reader had meanwhile (`ItemsFit`).
* **IncidentLists_proofs.** The lists have no tie-break, so a page is an interval of any of several
  orders. A row that shares its key with none has the same place in all of them: the number of rows
  before it (`PlaceIsCount`). `PlaceFits`, for each such row that is due: not shown yet, it has as many rows
  before it as the pages so far have had room for, unless a row left; shown, it has fewer, unless one
  came. A write moves one row and notes it, a new clearance likewise (`PlaceStays`), and a page shows
  exactly the rows whose number it spans (`PageHasRow`); at the last page by a total that still holds
  no number is left (`LastPageReaches`). The reports: both WHERE clauses select the same incidents
  (`PathsAgree`), and the sum over their groups counts them (`SumOfGroups`). A sum is a fold, a
  recursive function; that it counts is shown without an induction rule, by the counting function
  being a solution of the recursion and by a smallest set of groups on which two solutions would differ.
* **Platform_proofs.** AdminUsers: `UsersTypeOK /\ CountStands` is inductive: a counted row is
  locked, so no commit changes it. A counting demotion leaves one of at least two it locked.
  AuthSession: one live token, unbroken chains and "a token being rotated stays live" are
  inductive only together, with the fact that an id not issued yet is blank. ServerProcess:
  as long as no fault has happened, a lease a timer's run holds is one it is
  at work under (`LeaseIsWorked`), rows left open are of a Run now cut by an exit (`OnRecord`), and
  `running` tells whether the timer's run is under way (`Flags`), which is what draining waits for.

Before it was proved, each invariant was checked by TLC on the instances of the runs and on
variants of them (other page sizes, windows, numbers of requests and seedings).

Model-checked only: `OverdueIsEscalated` and `EscalationRecurs`, since liveness under fairness and
ENABLED are out of the prover's reach. `ClosureHasCause`, `StageFollowsMap`,
`ClosedIsFinal`, `CountStands` and `MarkedStaysLive` are proved and not part of a run.

## Findings

1. `escalation_feed_event`: the counter UPDATE can land on a new cycle that has no such
   event (`escalation.job.ts:245`); the feed then hides the incident, and the level never
   fires in that cycle.

Other disagreements between code and text, without a run of their own. The models reach
the first eleven (add the stated condition as an invariant or action property to see it fail):

* AuthSession: a refresh that loses the race for its token revokes the session and throws in one
  transaction, which rolls the revocation back (`auth.service.ts:119`, `ThrowReuse`); the comment at 117
  has it treated "exactly like reuse", whose revocation stays.
* Notifications: recipients are read once per run (`escalation.job.ts:107`), so someone whose
  clearance is lowered before the INSERT is still notified; `docs/escalation.md:76-78` has nobody
  notified about an incident they could not open. The list hides such a row.
* IncidentLifecycle: POST /triage accepts an incident under investigation and returns it to
  TRIAGE with its assignee (`triage.service.ts:99`); `docs/api.md:211` has a 409.
* IncidentLifecycle: an assignment that read the investigator before a clearance change survives it
  (`admin.service.ts:120`); the comment at 105 has every stranded incident unassigned.
* EscalationJob: lowering CRITICAL to HIGH can set the escalation level back to the one read before
  the job raised it (`triage.service.ts:136`); `docs/escalation.md:63` has it preserved.
* AdminUsers: whether to count administrators is decided on a stale read
  (`admin.service.ts:84`), so the last one can go; `docs/api.md:589` refuses with LAST_ADMIN.
* TierSets: a seeding upserts its tiers one by one over a live table
  (`prisma/seed/escalationTiers.seed.ts:14`), which `prisma/seed/index.ts:10` calls "safe to run on every
  `docker compose up`". If it upserts HIGH 1, a PUT then replaces the set by CRITICAL 1 alone, and
  it goes on with HIGH 2, the table has level 2 without level 1, which `admin.contract.ts:130` rejects,
  and a run fires 2 without 1. Likewise minutes put by a PUT between two upserts, or configured
  out of order (`env.ts:24-29` checks each alone), leave thresholds that do not increase. `TiersValid`
  and `NoLevelSkipped` therefore claim nothing after such a write (`table = "mixed"`) until a PUT
  with no seeding during it has replaced the set.
* EscalationFeed: `incident.types.ts:73` declares `highSeveritySince` of a feed row non-null, "activeEscalationWhere's
  currentEscalationLevel > 0 implies it". Lowering to MEDIUM between event and counter UPDATE
  leaves a level without it. Such a row is skipped after a cursor of its level
  (`pagination.ts:114-123`), and a page that ends on it is answered 500 (`escalation.service.ts:44`), the
  next attempt too as long as the row is there. `NobodyMissed` is about rows with a clock.
* EscalationJob: `docs/escalation.md:32-36` and the comment at `escalation.job.ts:207-209` have the INSERT's
  WHERE clause close the race with an acknowledgement, down to "one statement". An INSERT that
  waits for the key of another run whose transaction then rolls back writes its event from the row it
  selected before the wait, so an acknowledgement, closure or regrading committed in between does not
  stop it; and from the INSERT on, the window is the rest of the batch's transaction.
* CaseFile: whether the author and length of notes are redacted is decided at the gate
  (`timeline.service.ts:32`) and not when the page is read; `docs/api.md:341` has a viewer without note access
  never see them. One who has lost it in between does (`EffectiveNextRequest` bounds it by the request).
* Notifications: an incident lowered from CRITICAL to HIGH between batch and INSERT has an event of
  severity HIGH that only those cleared for CRITICAL are told of, short of `docs/escalation.md:76`;
  `RightPeopleAreTold` therefore promises completeness by the severity of the batch.
* Every audit row of one pass over several levels names the level of the batch read as its from-value
  (`escalation.job.ts:239`).
* Run now is not drained: a shutdown waits for the timer's run alone (`scheduler.ts:49`) and the
  exit may cut another one, leaving lease and JobRun row (`StopsLeaveNothingBehind` excludes it).
* `toRepositoryFilters` (`incident.service.ts:147-159`) drops the free-text filter `q`, which
  `docs/api.md:184` documents and `buildWhere` implements.
* `incident.repository.ts:101` and `docs/query-plans.md:18-19` have count and page always
  consistent in one transaction; READ COMMITTED gives each its own snapshot (`torn`). No offset list has
  a tie-break in its ORDER BY, so rows with equal keys may be missed or repeated (`tied`).
* "Replace the tier set atomically" holds per severity only (TierRegister).
* `docs/escalation.md` says a lowered incident "keeps being judged against the tier thresholds it
  was already being judged against", but `tiersDueFor` takes those of its current severity.
* `docs/api.md:611` lists SELF_MODIFICATION_FORBIDDEN for PATCH status, which does not check it.
* `incident.repository.ts:20-22` says that a rolled-back creation burns no reference, but a
  sequence does not roll back.
* `escalation.service.ts:33-34` explains a row without event by a change between the two
  queries, which finding 1 outlives.

## Modelling decisions

* A transaction is one step wherever its statements could only meet others through rows
  it has locked from its first statement on (all of IncidentLifecycle); it is split where
  not (job, locking count, rotation).
* Where a handler reads an incident and then a user, outside a transaction, both reads are
  one step; the gap that matters, before the transaction, is kept.
* Requests refused before their transaction change nothing and are not steps.
* Incidents exist from the start as `create` writes them (in EscalationFeed: in their
  first cycle, escalated to any level). Roles are fixed in IncidentLifecycle,
  tiers and recipients in EscalationJob.
* An If-Match of a version the client was never given is outside the model.
* Two transactions that wait for each other are aborted by the database: `Lost` and
  `FailRun` cover that outcome.
* `ThrowReuse` of AuthSession is one step although it is an UPDATE and an exception: what it
  updates is rolled back and was never visible.
* Notifications has one run at a time, so that no INSERT waits for the key of another: its
  `InsertEvent` is one step, and EscalationJob has the two.
* CaseFile takes one incident and one reader, who is neither deactivated nor signed out; a note and its NOTE_ADDED row share time and fate
  and are one row. The incident endpoints exclude each other by version and are single steps.
* In TierSets INSERT and commit are one step: until its INSERT a PUT holds the rows it has deleted,
  and nothing it has written is visible.
* In ServerProcess a second signal, which would run `shutdown` again, is left out, as is a request that
  arrives after the server has closed.

## Not modelled

Registration details, password hashing and JWTs (library calls whose outcome is the actor
of an action); the list of users and
the administrators' audit search and run diagnostics (single statements); medians of
acknowledgement times and the CSV export; rate limits, image storage and its orphans
(external); reference numbers (a sequence); parsing, validation other than the tier set's, and
formatting (their results are the inputs). `PROJECT.json` lists each with its reason.

## Plan

Done: policies and operations, lifecycle with its abstract specification and refinement,
job, feed, users, sessions, and their core theorems; notes, timeline, refusals and offers; tier
sets with their register; offset lists and reports; server processes; notifications.

Also done: theorems for every safety property the runs check, among them the refinements.

Next, in order of what can go wrong unnoticed: *assignments and roles*, that is AdminUsers composed
with the assignee column of IncidentLifecycle (a role change leaves assignments as they are,
`admin.service.ts:90`); and the order in which a batch and a cascade lock incidents
(`escalation.job.ts:245`), as a deadlock the database resolves.
