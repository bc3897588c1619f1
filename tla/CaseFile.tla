-------------------------------- MODULE CaseFile --------------------------------
(***************************************************************************)
(* What signed-in users read and write about one incident besides its      *)
(* columns: the detail view with the actions it offers, investigation      *)
(* notes, the timeline page after page, and the ACCESS_DENIED rows that    *)
(* refused reads leave.                                                    *)
(*                                                                         *)
(* The incident endpoints are single steps here (IncidentLifecycle shows   *)
(* that they may be), one audit row each.  Everything below reads the      *)
(* incident first and uses what it read later, and nothing but the         *)
(* endpoints is guarded by the version.  Administrators change roles and   *)
(* clearances meanwhile; a page request knows the actor as authenticated.  *)
(***************************************************************************)
EXTENDS IncidentOperations, SequencesExt, FiniteSets

CONSTANTS Users,          \* the users
          ProfilesOf,     \* ProfilesOf[u]: the roles and clearances administrators give u
          SeverityInputs, \* the severities the incident is given
          Requests,       \* the writes the server has room for besides the endpoints
          PageSize,       \* the pageSize of the reader's requests
          Window,         \* DENIAL_DEDUPE_WINDOW_MS
          MaxTime,        \* bound: clocks go this far
          MaxEvents,      \* bound: how many audit rows there get to be
          MaxWrites       \* bound: how often the incident and its users are changed

Roles == {"REPORTER", "TRIAGE_MANAGER", "INVESTIGATOR", "ADMIN"}

Profiles == [role : Roles, clearance : 1..4]

ASSUME PeopleAssumption == NoUser \notin Users /\ ProfilesOf \in [Users -> SUBSET Profiles]

ASSUME SizesAssumption ==
  /\ PageSize \in Nat \ {0}
  /\ {Window, MaxTime, MaxEvents, MaxWrites} \subseteq Nat
  /\ IsFiniteSet(Requests)
  /\ SeverityInputs \subseteq Severities

VARIABLES user,      \* user[u]: User.role and User.clearanceLevel
          changes,   \* how often that was changed
          row,       \* the incident's columns
          version,   \* its version
          log,       \* its AuditEvent rows, in the order of the timeline
          now,       \* the clock of the server
          req,       \* req[r]: a note or a refusal on its way into the log
          client     \* what one client is at: a walk over pages, or a detail view

vars == <<user, changes, row, version, log, now, req, client>>

NoRequest == [op |-> "none"]

Idle == [pc |-> "idle"]

-------------------------------------------------------------------------------
(* The log.  occurredAt is read from the clock before the transaction that  *)
(* inserts the row, so rows may arrive out of order; ids are random, so a   *)
(* row may take any place among those of its own time.                      *)

Times == 0..MaxTime

EventTypes == {"CHANGE", "NOTE_ADDED", "ACCESS_DENIED"}

\* A row, and what the client's walk has made of it: `due' if it has been on the
\* reader's list at every page so far, how often it was `shown', and whether the
\* cursor is its position.
Event == [type : EventTypes, by : Users \union {NoUser}, at : Times,
          due : BOOLEAN, shown : 0..2, cursor : BOOLEAN]

Unmarked(e) == [e EXCEPT !.due = FALSE, !.shown = 0, !.cursor = FALSE]

\* createAuditEvent: the row goes to some place of ORDER BY occurredAt DESC, id DESC.
CreateAuditEvent(type, by, at) ==
  /\ Len(log) < MaxEvents
  /\ \E place \in 1..(Len(log) + 1) :
       /\ \A j \in 1..(place - 1) : log[j].at >= at
       /\ \A j \in place..Len(log) : log[j].at <= at
       /\ log' = InsertAt(log, place, [type |-> type, by |-> by, at |-> at,
                                       due |-> FALSE, shown |-> 0, cursor |-> FALSE])

-------------------------------------------------------------------------------
(* Policies (clearance.policy.ts, note.policy.ts, incident.mapper.ts).      *)

\* p is a profile, of user u where the user matters.
CanView(p) == CanViewSeverity(p.clearance, row.severity)

CanReadNotes(u, p, seen) ==
  /\ CanViewSeverity(p.clearance, seen.severity)
  /\ p.role = "ADMIN" \/ seen.assignee = u

CanWriteNotes(u, p, seen) ==
  /\ CanReadNotes(u, p, seen)
  /\ seen.stage \in {"INVESTIGATION", "PENDING_CLOSURE"}

CanManage(p) == p.role \in {"TRIAGE_MANAGER", "ADMIN"}

\* Mutant: approval offered by the stage of the investigation.
ComputeActionsEarly(u, p, seen) ==
  [triage      |-> CanManage(p) /\ CanTransition(seen.stage, "TRIAGE"),
   assign      |-> CanManage(p) /\ seen.stage # "CLOSED",
   acknowledge |-> CanManage(p) /\ InHighBand(seen.severity) /\ ~seen.acked /\ seen.stage # "CLOSED",
   readNotes   |-> CanReadNotes(u, p, seen),
   addNote     |-> CanWriteNotes(u, p, seen),
   propose     |-> (p.role = "ADMIN" \/ seen.assignee = u) /\ CanTransition(seen.stage, "PENDING_CLOSURE"),
   approve     |-> CanManage(p) /\ seen.rca]

\* The actions a detail view offers.
ComputeActions(u, p, seen) ==
  [triage      |-> CanManage(p) /\ CanTransition(seen.stage, "TRIAGE"),
   assign      |-> CanManage(p) /\ seen.stage # "CLOSED",
   acknowledge |-> CanManage(p) /\ InHighBand(seen.severity) /\ ~seen.acked /\ seen.stage # "CLOSED",
   readNotes   |-> CanReadNotes(u, p, seen),
   addNote     |-> CanWriteNotes(u, p, seen),
   propose     |-> (p.role = "ADMIN" \/ seen.assignee = u) /\ CanTransition(seen.stage, "PENDING_CLOSURE"),
   approve     |-> CanManage(p) /\ seen.stage = "PENDING_CLOSURE" /\ seen.rca]

\* What the endpoints behind them accept.
Accepts(u, p, seen) ==
  [triage      |-> CanManage(p) /\ MayTriage(seen),
   assign      |-> CanManage(p) /\ MayAssign(seen),
   acknowledge |-> CanManage(p) /\ MayAcknowledge(seen),
   readNotes   |-> CanReadNotes(u, p, seen),
   addNote     |-> CanWriteNotes(u, p, seen),
   propose     |-> MayPropose(seen, p.role = "ADMIN", u),
   approve     |-> CanManage(p) /\ MayApprove(seen)]

-------------------------------------------------------------------------------
TypeOK ==
  /\ \A u \in Users : user[u] \in ProfilesOf[u]
  /\ changes \in 0..MaxWrites
  /\ row.stage \in Stages /\ row.severity \in SeverityInputs
  /\ row.assignee \in Users \union {NoUser}
  /\ version \in 0..MaxWrites
  /\ \A j \in DOMAIN log : log[j] \in Event
  /\ \A j, k \in DOMAIN log : j < k => log[j].at >= log[k].at
  /\ now \in Times
  /\ \A r \in Requests :
       req[r] = NoRequest \/ req[r].op = "note" \/ (req[r].op = "denial" /\ req[r].by \in Users)
  /\ \/ client = Idle
     \/ client.pc \in {"between", "authenticated", "gated", "done"} /\ client.by \in Users
     \/ client.pc = "viewing" /\ client.by \in Users /\ client.version \in 0..version

\* Whom an assignment finds fit for it.  User rows are looked up before the
\* transaction and not guarded by the version, so the profile found need not be
\* the one the user has by now: any of those given to the user will do here.
MayInvestigate(u, severity) ==
  \E p \in ProfilesOf[u] : p.role = "INVESTIGATOR" /\ CanAssignInvestigator(p.clearance, severity)

\* An incident just created, or triaged and assigned since.  Its audit rows so far
\* are older than all that come, and left out.
StartRows ==
  {NewRow(s) : s \in SeverityInputs}
    \union {Assigned(Triaged(NewRow(p[1])), Triaged(NewRow(p[1])), p[2]) :
              p \in {q \in SeverityInputs \X Users : MayInvestigate(q[2], q[1])}}

Init ==
  /\ user \in {f \in [Users -> UNION {ProfilesOf[u] : u \in Users}] :
                \A u \in Users : f[u] \in ProfilesOf[u]}
  /\ changes = 0
  /\ row \in StartRows
  /\ version = 0
  /\ log = <<>>
  /\ now = 0
  /\ req = [r \in Requests |-> NoRequest]
  /\ client = Idle

-------------------------------------------------------------------------------
(* The incident endpoints, each with the row it reads, writes and audits.   *)

\* History of a page request, from its authentication to its query: the profiles
\* `held' by the reader, and whether with one of them the reader `could' read
\* notes at some moment.
Watched(users, new) ==
  IF client.pc \in {"authenticated", "gated"}
  THEN LET held == client.held \union {users[client.by]}
       IN  [client EXCEPT !.held = held,
                          !.could = @ \/ \E p \in held : CanReadNotes(client.by, p, new)]
  ELSE client

NextVersion == version + 1

Becomes(users, new) ==
  /\ row' = new
  /\ version' = NextVersion
  /\ \E at \in 0..now : CreateAuditEvent("CHANGE", NoUser, at)
  /\ client' = Watched(users, new)
  /\ UNCHANGED <<now, req>>

MayWrite == version + changes < MaxWrites

Write(new) == MayWrite /\ Becomes(user, new) /\ UNCHANGED <<user, changes>>

\* What a severity change finds of its assignee: stranded, or nobody to drop.
Dropped(next) ==
  IF row.assignee = NoUser THEN {NoUser}
  ELSE {IF MustUnassignOnRaise(p.clearance, next) THEN row.assignee ELSE NoUser :
          p \in ProfilesOf[row.assignee]}

ChangeSeverity(next) ==
  /\ MayChangeSeverity(row, next)
  /\ \E dropped \in Dropped(next) : Write(SeverityChanged(row, row, next, dropped))

AssignInvestigator(who) ==
  /\ MayAssign(row)
  /\ MayInvestigate(who, row.severity)
  /\ Write(Assigned(row, row, who))

Edit ==
  \/ MayTriage(row) /\ Write(Triaged(row))
  \/ \E next \in SeverityInputs : ChangeSeverity(next)
  \/ \E who \in Users : AssignInvestigator(who)
  \/ MayUnassign(row) /\ Write(Unassigned(row, row))
  \/ MayAcknowledge(row) /\ Write(Acknowledged(row))
  \/ \E u \in Users : MayPropose(row, user[u].role = "ADMIN", u) /\ Write(Proposed(row))
  \/ MayApprove(row) /\ Write(Approved(row))
  \/ MayReject(row) /\ Write(Rejected(row))

-------------------------------------------------------------------------------
(* admin.service.ts, for one user.                                          *)

SetProfile(u, p) ==
  /\ MayWrite
  /\ changes' = changes + 1
  /\ user' = [user EXCEPT ![u] = p]

Alone(u, p) == client' = Watched([user EXCEPT ![u] = p], row) /\ UNCHANGED <<row, version, log, now, req>>

ChangeRole(u, p) ==
  /\ p.role # user[u].role /\ p.clearance = user[u].clearance
  /\ SetProfile(u, p)
  /\ Alone(u, p)

\* A lowered clearance takes the incident away from an assignee it strands, in
\* the same transaction, unless it was assigned after the list of those was read.
ChangeClearance(u, p) ==
  /\ p.clearance # user[u].clearance /\ p.role = user[u].role
  /\ SetProfile(u, p)
  /\ \/ Alone(u, p)
     \/ /\ p.clearance < user[u].clearance
        /\ row.assignee = u /\ row.stage # "CLOSED"
        /\ MustUnassignOnRaise(p.clearance, row.severity)
        /\ Becomes([user EXCEPT ![u] = p], Unassigned(row, row))

Tick ==
  /\ now < MaxTime
  /\ now' = now + 1
  /\ UNCHANGED <<user, changes, row, version, log, req, client>>

\* GET /incidents/:id: the client sees the columns, the version and what is offered.
GetById(u) ==
  /\ client.pc \in {"idle", "viewing"}
  /\ CanView(user[u])
  /\ client' = [pc |-> "viewing", by |-> u, actor |-> user[u], version |-> version,
                offers |-> ComputeActions(u, user[u], row)]
  /\ UNCHANGED <<user, changes, row, version, log, now, req>>

-------------------------------------------------------------------------------
(* Notes.                                                                   *)

\* addNote up to its transaction: both gates on the row it reads.
BeginNote(r, u) ==
  /\ req[r] = NoRequest
  /\ CanWriteNotes(u, user[u], row)
  /\ req' = [req EXCEPT ![r] = [op |-> "note", from |-> now]]
  /\ UNCHANGED <<user, changes, row, version, log, now, client>>

\* The transaction: the note and its NOTE_ADDED row, with no look at the incident.
\* One row stands for both, since they share their time and their fate.
CommitNote(r) ==
  /\ req[r].op = "note"
  /\ \E at \in req[r].from..now : CreateAuditEvent("NOTE_ADDED", NoUser, at)
  /\ req' = [req EXCEPT ![r] = NoRequest]
  /\ UNCHANGED <<user, changes, row, version, now, client>>

-------------------------------------------------------------------------------
(* Refusals: loadForActorOrThrow answers 403 and leaves recordDenial behind. *)

Refuse(r, u) ==
  /\ req[r] = NoRequest
  /\ ~CanView(user[u])
  /\ req' = [req EXCEPT ![r] = [op |-> "denial", by |-> u, at |-> now, checked |-> FALSE]]
  /\ UNCHANGED <<user, changes, row, version, log, now, client>>

\* Mutant: occurredAt later than `since', where the code has it no earlier.
RecentAccessDeniedStrictly(u, at) ==
  \E j \in DOMAIN log : log[j].type = "ACCESS_DENIED" /\ log[j].by = u /\ log[j].at > at - Window

FindRecentAccessDenied(u, at) ==
  \E j \in DOMAIN log : log[j].type = "ACCESS_DENIED" /\ log[j].by = u /\ log[j].at >= at - Window

CheckDenial(r) ==
  /\ req[r].op = "denial" /\ ~req[r].checked
  /\ req' = [req EXCEPT ![r] = IF FindRecentAccessDenied(req[r].by, req[r].at)
                               THEN NoRequest ELSE [@ EXCEPT !.checked = TRUE]]
  /\ UNCHANGED <<user, changes, row, version, log, now, client>>

CreateAccessDenied(r) ==
  /\ req[r].op = "denial" /\ req[r].checked
  /\ CreateAuditEvent("ACCESS_DENIED", req[r].by, req[r].at)
  /\ req' = [req EXCEPT ![r] = NoRequest]
  /\ UNCHANGED <<user, changes, row, version, now, client>>

\* The process dies, or the statement fails: no note, no row of the refusal.
Lose(r) ==
  /\ req[r] # NoRequest
  /\ req' = [req EXCEPT ![r] = NoRequest]
  /\ UNCHANGED <<user, changes, row, version, log, now, client>>

-------------------------------------------------------------------------------
(* A walk: one request per page, which authenticates, passes a gate, and    *)
(* then runs its query.                                                     *)

Lists == {"notes", "timeline"}

BeginWalk(u, list) ==
  /\ client.pc = "idle"
  /\ client' = [pc |-> "between", by |-> u, list |-> list, first |-> TRUE,
                actor |-> user[u], held |-> {}, canSee |-> FALSE, could |-> FALSE]
  /\ UNCHANGED <<user, changes, row, version, log, now, req>>

\* The client turns to something else: the marks of its walk mean nothing now.
Leave ==
  /\ client.pc \in {"viewing", "done"}
  /\ client' = Idle
  /\ log' = [j \in DOMAIN log |-> Unmarked(log[j])]
  /\ UNCHANGED <<user, changes, row, version, now, req>>

\* Mutant: the actor of the walk's first request serves for all.
ActorOfFirstPage == IF client.first THEN user[client.by] ELSE client.actor

\* req.actor: role and clearance as in the user's row when the request begins.
Actor == user[client.by]

Authenticate ==
  /\ client.pc = "between"
  /\ client' = [client EXCEPT !.pc = "authenticated", !.actor = Actor, !.held = {user[client.by]},
                              !.could = CanReadNotes(client.by, user[client.by], row)]
  /\ UNCHANGED <<user, changes, row, version, log, now, req>>

\* getByIdForActor, then assertReadAccess for notes.
MayPage ==
  CanView(client.actor) /\ (client.list = "notes" => CanReadNotes(client.by, client.actor, row))

\* timeline.service.ts decides on redaction before it reads the page.
Gate ==
  /\ client.pc = "authenticated" /\ MayPage
  /\ client' = [client EXCEPT !.pc = "gated",
                              !.canSee = CanReadNotes(client.by, client.actor, row)]
  /\ UNCHANGED <<user, changes, row, version, log, now, req>>

\* A refusal ends the walk.
GateRefuses ==
  /\ client.pc = "authenticated" /\ ~MayPage
  /\ client' = Idle
  /\ log' = [j \in DOMAIN log |-> Unmarked(log[j])]
  /\ UNCHANGED <<user, changes, row, version, now, req>>

\* noteScopeWhere: both gates again in the query, of the actor the request holds
\* and the incident as it is by then.
NoteScopeWhere == CanReadNotes(client.by, client.actor, row)

\* Mutant: the tie-break on the id left out.
CursorWhereNoTie(j) ==
  client.first \/ \E c \in DOMAIN log : log[c].cursor /\ log[j].at < log[c].at

\* Mutant: `lte' for `lt', so that a page begins with the row before it.
CursorWhereInclusive(j) ==
  \/ client.first
  \/ \E c \in DOMAIN log :
       /\ log[c].cursor
       /\ log[j].at < log[c].at \/ (log[j].at = log[c].at /\ c <= j)

\* occurredAtIdCursorWhere and createdAtIdCursorWhere, on the row at place j.
CursorWhere(j) ==
  \/ client.first
  \/ \E c \in DOMAIN log :
       /\ log[c].cursor
       /\ log[j].at < log[c].at \/ (log[j].at = log[c].at /\ c < j)

\* Whether the row at place j is on the reader's list, the cursor left aside.
Listed(j) ==
  IF client.list = "notes"
  THEN log[j].type = "NOTE_ADDED" /\ NoteScopeWhere
  ELSE client.actor.role = "ADMIN" \/ log[j].type # "ACCESS_DENIED"

\* findTimelinePage and findNotesPage: the places of the rows of a page, and
\* whether the one row fetched beyond it was there.
Matching == {j \in DOMAIN log : Listed(j) /\ CursorWhere(j)}

Page == {j \in Matching : Cardinality({k \in Matching : k < j}) < PageSize}

HasMore == Page # Matching

QueryPage ==
  /\ client.pc = "gated"
  /\ client' = [client EXCEPT !.pc = IF HasMore THEN "between" ELSE "done", !.first = FALSE,
                              !.held = {}, !.canSee = FALSE, !.could = FALSE]
  /\ log' = [j \in DOMAIN log |->
               [log[j] EXCEPT !.due    = Listed(j) /\ (client.first \/ @),
                              !.shown  = IF j \in Page THEN @ + 1 ELSE @,
                              !.cursor = HasMore /\ j = Max(Page)]]
  /\ UNCHANGED <<user, changes, row, version, now, req>>

-------------------------------------------------------------------------------
Next ==
  \/ Edit \/ Tick \/ Authenticate \/ Gate \/ GateRefuses \/ QueryPage \/ Leave
  \/ \E u \in Users : \/ GetById(u) \/ \E list \in Lists : BeginWalk(u, list)
                      \/ \E p \in ProfilesOf[u] : ChangeRole(u, p) \/ ChangeClearance(u, p)
  \/ \E r \in Requests :
       \/ \E u \in Users : BeginNote(r, u) \/ Refuse(r, u)
       \/ CommitNote(r) \/ CheckDenial(r) \/ CreateAccessDenied(r) \/ Lose(r)

Spec == Init /\ [][Next]_vars

-------------------------------------------------------------------------------
(* Properties.                                                              *)

\* A finished walk has shown every row that was committed when its first page
\* was read and was on the reader's list at each of its pages, whatever was
\* committed meanwhile and with whatever time, and no row twice.
\* (occurredAtIdCursorWhere, createdAtIdCursorWhere, the one row fetched ahead)
WalkExact ==
  /\ \A j \in DOMAIN log : log[j].shown < 2
  /\ client.pc = "done" => \A j \in DOMAIN log : log[j].due => log[j].shown = 1

\* "A clearance or role change is effective on the target user's very next
\* request" (authenticate.middleware.ts): whatever a page shows is allowed to a
\* profile the reader had during that very request.  A note needs one that may
\* read notes of the incident as it is when the page is read, a refusal one of an
\* administrator, and the author and length of a note on the timeline one that
\* could read notes at some moment of the request, as redaction is decided
\* before the page is read.
EffectiveNextRequest ==
  [][\A j \in DOMAIN log :
       client.pc = "gated" /\ client'.pc # "gated" /\ log'[j].shown > log[j].shown =>
         IF client.list = "notes"
         THEN \E p \in client.held : CanReadNotes(client.by, p, row)
         ELSE /\ log[j].type = "ACCESS_DENIED" => \E p \in client.held : p.role = "ADMIN"
              /\ log[j].type = "NOTE_ADDED" /\ client.canSee => client.could]_vars

\* However often refused users ask, the refusals of one user within the window
\* leave no more rows than there were requests at once: the deduplication
\* races, but each request in flight slips through at most once.
\* (recordDenial, "cannot use it for unbounded write amplification")
DenialsBounded ==
  \A u \in Users, t \in Times :
    Cardinality({j \in DOMAIN log : /\ log[j].type = "ACCESS_DENIED" /\ log[j].by = u
                                    /\ log[j].at \in t..(t + Window)}) <= Cardinality(Requests)

\* An action the detail view offers is accepted, as long as the incident has
\* the version the view showed and the user the profile it was shown to: the
\* affordances of incident.mapper.ts never offer what the endpoints' own checks
\* refuse.
OfferedIsAccepted ==
  client.pc = "viewing" /\ client.version = version /\ client.actor = user[client.by] =>
    \A a \in DOMAIN client.offers : client.offers[a] => Accepts(client.by, client.actor, row)[a]
===============================================================================
