------------------------------- MODULE AdminUsers -------------------------------
(***************************************************************************)
(* PATCH /admin/users/:id/role and /status (admin.service.ts changeRole    *)
(* and changeStatus), many at a time.  A request authenticates its actor   *)
(* and reads the target outside the transaction; only if the target it     *)
(* read was an active admin who is to lose that does its transaction       *)
(* count the active admins, with SELECT ... FOR UPDATE.                    *)
(*                                                                         *)
(* At READ COMMITTED that SELECT works on the rows that matched when it    *)
(* started, waits for each that another transaction holds, and keeps those *)
(* that still match.  Clearance changes are in IncidentLifecycle.          *)
(***************************************************************************)
EXTENDS FiniteSets, Naturals

CONSTANTS Users,      \* user ids
          OtherRoles, \* the roles but ADMIN, among which nothing here tells
          Requests    \* the admin requests the server has room for

ASSUME UsersAssumption == IsFiniteSet(Users)

ASSUME RolesAssumption == "ADMIN" \notin OtherRoles

VARIABLES user,       \* user[u]: role and isActive of table User
          req         \* req[r]: a request between its read and its commit

usersVars == <<user, req>>

Roles == {"ADMIN"} \union OtherRoles

NoRequest == [pc |-> "none"]

IsActiveAdmin(row) == row.role = "ADMIN" /\ row.active

ActiveAdmins == {u \in Users : IsActiveAdmin(user[u])}

UsersTypeOK ==
  /\ user \in [Users -> [role : Roles, active : BOOLEAN]]
  /\ DOMAIN req = Requests
  /\ \A r \in Requests :
       \/ req[r] = NoRequest
       \/ /\ req[r].pc \in {"read", "counting", "counted"}
          /\ req[r].target \in Users
          /\ req[r].seen \in [role : Roles, active : BOOLEAN]
          /\ req[r].next \in [role : Roles, active : BOOLEAN]
          /\ req[r].next # req[r].seen
          /\ req[r].admins \subseteq Users

\* The seed creates an active admin; POST /auth/register never does.
UsersInit ==
  /\ user \in [Users -> [role : Roles, active : {TRUE}]]
  /\ ActiveAdmins # {}
  /\ req = [r \in Requests |-> NoRequest]

\* Mutant: without the early return of a request that changes nothing.
AlwaysChanges(target, next) == TRUE

\* changeRole and changeStatus answer a no-op at once, without a transaction.
Changes(target, next) == next # user[target]

Accept(r, target, next) ==
  /\ req[r] = NoRequest
  /\ Changes(target, next)
  /\ req' = [req EXCEPT ![r] = [pc |-> "read", target |-> target, seen |-> user[target],
                                next |-> next, admins |-> {}]]
  /\ UNCHANGED user

\* assertNotSelf, loadTargetOrThrow.
ReadForRole(r) ==
  \E actor \in ActiveAdmins : \E target \in Users \ {actor}, role \in Roles :
    Accept(r, target, [user[target] EXCEPT !.role = role])

\* changeStatus: an admin may deactivate themselves.
ReadForStatus(r) ==
  \E actor \in ActiveAdmins, target \in Users, active \in BOOLEAN :
    Accept(r, target, [user[target] EXCEPT !.active = active])

\* The `if' before activeAdminIdsForUpdate, on the target as it was read.
MustCount(q) == IsActiveAdmin(q.seen) /\ ~IsActiveAdmin(q.next)

\* FOR UPDATE starts: the active admins as of now.
StartCount(r) ==
  /\ req[r].pc = "read"
  /\ MustCount(req[r])
  /\ req' = [req EXCEPT ![r].pc = "counting", ![r].admins = ActiveAdmins]
  /\ UNCHANGED user

\* The rows r's transaction has locked.
Holds(r) == IF req[r].pc = "counted" THEN req[r].admins ELSE {}

LockedByOthers(r) == UNION {Holds(q) : q \in Requests \ {r}}

\* FOR UPDATE returns: every row is ours, and only those that still match.
FinishCount(r) ==
  /\ req[r].pc = "counting"
  /\ req[r].admins \cap LockedByOthers(r) = {}
  /\ req' = [req EXCEPT ![r].pc = "counted", ![r].admins = @ \cap ActiveAdmins]
  /\ UNCHANGED user

\* Mutant: one admin too few is taken for enough.
LastAdminOffByOne(q) == Cardinality(q.admins) < 1

LastAdmin(q) == Cardinality(q.admins) <= 1 /\ q.target \in q.admins

\* LastAdminError: 409, the transaction rolls back.
Refuse(r) ==
  /\ req[r].pc = "counted"
  /\ LastAdmin(req[r])
  /\ req' = [req EXCEPT ![r] = NoRequest]
  /\ UNCHANGED user

\* The UPDATE names one column; the other keeps its current value.
NewRow(q) ==
  [role   |-> IF q.next.role # q.seen.role THEN q.next.role ELSE user[q.target].role,
   active |-> IF q.next.active # q.seen.active THEN q.next.active ELSE user[q.target].active]

\* The UPDATE waits for whoever holds the row, and commits.
Commit(r) ==
  LET q == req[r]
  IN  /\ \/ q.pc = "read" /\ ~MustCount(q)
         \/ q.pc = "counted" /\ ~LastAdmin(q)
      /\ q.target \notin LockedByOthers(r)
      /\ user' = [user EXCEPT ![q.target] = NewRow(q)]
      /\ req' = [req EXCEPT ![r] = NoRequest]

\* The connection or the server dies: the transaction rolls back.
Lost(r) ==
  /\ req[r] # NoRequest
  /\ req' = [req EXCEPT ![r] = NoRequest]
  /\ UNCHANGED user

UsersNext ==
  \E r \in Requests :
    \/ ReadForRole(r) \/ ReadForStatus(r) \/ StartCount(r) \/ FinishCount(r)
    \/ Refuse(r) \/ Commit(r) \/ Lost(r)

UsersSpec == UsersInit /\ [][UsersNext]_usersVars

-------------------------------------------------------------------------------
(* Properties.                                                              *)

\* A request that holds the count holds all of it: the rows it locked are
\* active admins until it ends.
CountStands ==
  \A r \in Requests : req[r].pc = "counted" => req[r].admins \subseteq ActiveAdmins

\* activeAdminIdsForUpdate: "two concurrent demotions cannot both succeed".  A
\* demotion or deactivation that locked its target among the active admins
\* leaves another one, whatever the others did between its count and its UPDATE.
CountedKeepsAnAdmin ==
  [][\A r \in Requests :
       Commit(r) /\ req[r].pc = "counted" /\ req[r].target \in req[r].admins
         => ActiveAdmins' # {}]_usersVars
===============================================================================
