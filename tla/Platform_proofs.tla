---------------------------- MODULE Platform_proofs ----------------------------
(***************************************************************************)
(* Theorems of the parts that know nothing of incidents: AdminUsers, for   *)
(* any finite set of users; AuthSession, for any tokens and sessions;      *)
(* ServerProcess, for any processes, lease length and bounds; each for any *)
(* number of requests.  The three share neither state nor operations.      *)
(*                                                                         *)
(* Users: the rows a request counted stay locked until it ends, so no      *)
(* other request's UPDATE can reach them (CountStands).  A request that    *)
(* passes the check with its target among at least two such rows leaves    *)
(* one of them behind.                                                     *)
(*                                                                         *)
(* Sessions: a rotation finds its token live and keeps its row locked, so  *)
(* the token is live until the rotation commits; it then gives way to one  *)
(* successor in the same step.  A session so never has more than the one   *)
(* live token its login issued.                                            *)
(*                                                                         *)
(* Processes: the inductive invariant adds to the types what makes a stop  *)
(* clean.  A draining process waits exactly while its timer's run is under *)
(* way, so a closing one has none (Flags); and while nothing has thrown or *)
(* died, a run that is over has its outcome (OnRecord) and a lease that is *)
(* held by a timer's run is worked under (LeaseIsWorked).                  *)
(***************************************************************************)
EXTENDS AdminUsers, AuthSession, ServerProcess, FiniteSetTheorems, TLAPS

-------------------------------------------------------------------------------
(* Users.                                                                   *)

UserRow == [role : Roles, active : BOOLEAN]

\* UsersTypeOK and CountStands are inductive together.
UsersIInv == UsersTypeOK /\ CountStands

LEMMA UsersInitInv == UsersInit => UsersIInv
<1> SUFFICES ASSUME UsersInit PROVE UsersIInv
  OBVIOUS
<1>1. user \in [Users -> [role : Roles, active : BOOLEAN]]
  BY Zenon DEF UsersInit
<1>2. DOMAIN req = Requests /\ \A r \in Requests : req[r] = NoRequest
  BY DEF UsersInit
<1> QED
  BY <1>1, <1>2 DEF UsersIInv, UsersTypeOK, CountStands, NoRequest

\* A step that leaves the user rows alone and turns one request into nothing
\* or into a well-formed request, counted only on what is true now.
LEMMA UsersRequestStep ==
  ASSUME UsersIInv, NEW r \in Requests, NEW q, user' = user, req' = [req EXCEPT ![r] = q],
         \/ q = NoRequest
         \/ /\ q.pc \in {"read", "counting", "counted"}
            /\ q.target \in Users /\ q.seen \in UserRow /\ q.next \in UserRow
            /\ q.next # q.seen /\ q.admins \subseteq Users
            /\ q.pc = "counted" => q.admins \subseteq ActiveAdmins
  PROVE  UsersIInv'
<1>1. /\ DOMAIN req' = Requests /\ req'[r] = q
      /\ \A x \in Requests \ {r} : req'[x] = req[x]
  BY DEF UsersIInv, UsersTypeOK
<1>2. ActiveAdmins' = ActiveAdmins
  BY DEF ActiveAdmins
<1>3. UsersTypeOK'
  BY <1>1 DEF UsersIInv, UsersTypeOK, UserRow
<1>4. CountStands'
  BY <1>1, <1>2 DEF UsersIInv, CountStands, NoRequest
<1> QED
  BY <1>3, <1>4 DEF UsersIInv

\* Both read halves hold a change of a row to a row.
LEMMA AcceptStep ==
  ASSUME UsersIInv, NEW r \in Requests, NEW target \in Users, NEW next \in UserRow,
         Accept(r, target, next)
  PROVE  UsersIInv'
<1> DEFINE q == [pc |-> "read", target |-> target, seen |-> user[target],
                 next |-> next, admins |-> {}]
<1>1. user' = user /\ req' = [req EXCEPT ![r] = q]
  BY DEF Accept
<1>2. user[target] \in UserRow /\ next # user[target]
  BY DEF Accept, Changes, UsersIInv, UsersTypeOK, UserRow
<1>3. /\ q.pc = "read" /\ q.target \in Users /\ q.seen \in UserRow /\ q.next \in UserRow
      /\ q.next # q.seen /\ q.admins \subseteq Users
  BY <1>2
<1> HIDE DEF q
<1> QED
  BY <1>1, <1>3, UsersRequestStep

LEMMA ReadStep ==
  ASSUME UsersIInv, NEW r \in Requests, ReadForRole(r) \/ ReadForStatus(r)
  PROVE  UsersIInv'
<1>1. ASSUME NEW target \in Users, NEW role \in Roles
      PROVE  [user[target] EXCEPT !.role = role] \in UserRow
  BY DEF UsersIInv, UsersTypeOK, UserRow
<1>2. ASSUME NEW target \in Users, NEW active \in BOOLEAN
      PROVE  [user[target] EXCEPT !.active = active] \in UserRow
  <2>1. user[target] \in [role : Roles, active : BOOLEAN]
    BY DEF UsersIInv, UsersTypeOK
  <2> QED
    BY <2>1, Zenon DEF UserRow
<1>3. CASE ReadForRole(r)
  <2>1. PICK target \in Users, role \in Roles :
          Accept(r, target, [user[target] EXCEPT !.role = role])
    BY <1>3, Zenon DEF ReadForRole
  <2> QED
    BY <1>1, <2>1, AcceptStep
<1>4. CASE ReadForStatus(r)
  <2>1. PICK target \in Users, active \in BOOLEAN :
          Accept(r, target, [user[target] EXCEPT !.active = active])
    BY <1>4, Zenon DEF ReadForStatus
  <2> DEFINE next == [user[target] EXCEPT !.active = active]
  <2>2. next \in UserRow /\ Accept(r, target, next)
    BY <1>2, <2>1
  <2> HIDE DEF next
  <2> QED
    BY <2>2, AcceptStep
<1> QED
  BY <1>3, <1>4

\* Counting: FOR UPDATE keeps only rows that are active admins now.
LEMMA CountStep ==
  ASSUME UsersIInv, NEW r \in Requests, StartCount(r) \/ FinishCount(r)
  PROVE  UsersIInv'
<1>1. req[r].pc \in {"read", "counting"} /\ req[r] # NoRequest
  BY DEF StartCount, FinishCount, NoRequest
<1>2. /\ req[r].target \in Users /\ req[r].seen \in UserRow /\ req[r].next \in UserRow
      /\ req[r].next # req[r].seen /\ req[r].admins \subseteq Users
  BY <1>1 DEF UsersIInv, UsersTypeOK, UserRow
<1>3. ActiveAdmins \subseteq Users
  BY DEF ActiveAdmins
<1>4. CASE StartCount(r)
  <2> DEFINE q == [req[r] EXCEPT !.pc = "counting", !.admins = ActiveAdmins]
  <2>1. req' = [req EXCEPT ![r] = q] /\ user' = user
    BY <1>4 DEF StartCount
  <2>2. /\ q.pc = "counting" /\ q.target = req[r].target /\ q.seen = req[r].seen
        /\ q.next = req[r].next /\ q.admins = ActiveAdmins
    BY <1>2 DEF UsersIInv, UsersTypeOK
  <2> HIDE DEF q
  <2> QED
    BY <1>2, <1>3, <2>1, <2>2, UsersRequestStep
<1>5. CASE FinishCount(r)
  <2> DEFINE q == [req[r] EXCEPT !.pc = "counted", !.admins = @ \cap ActiveAdmins]
  <2>1. req' = [req EXCEPT ![r] = q] /\ user' = user
    BY <1>5 DEF FinishCount
  <2>2. /\ q.pc = "counted" /\ q.target = req[r].target /\ q.seen = req[r].seen
        /\ q.next = req[r].next /\ q.admins = req[r].admins \cap ActiveAdmins
    BY <1>2 DEF UsersIInv, UsersTypeOK
  <2> HIDE DEF q
  <2> QED
    BY <1>2, <1>3, <2>1, <2>2, UsersRequestStep
<1> QED
  BY <1>4, <1>5

\* The ends that write no row.
LEMMA EndStep ==
  ASSUME UsersIInv, NEW r \in Requests, Refuse(r) \/ Lost(r)
  PROVE  UsersIInv'
<1>1. user' = user /\ req' = [req EXCEPT ![r] = NoRequest]
  BY DEF Refuse, Lost
<1> QED
  BY <1>1, UsersRequestStep

LEMMA NewRowIsRow ==
  ASSUME NEW q, q.target \in Users, q.seen \in UserRow, q.next \in UserRow,
         user \in [Users -> UserRow]
  PROVE  NewRow(q) \in UserRow
<1> DEFINE role   == IF q.next.role # q.seen.role THEN q.next.role ELSE user[q.target].role
           active == IF q.next.active # q.seen.active
                       THEN q.next.active ELSE user[q.target].active
<1>1. user[q.target] \in UserRow
  OBVIOUS
<1>2. role \in Roles
  BY <1>1 DEF UserRow
<1>3. active \in BOOLEAN
  <2>1. q.next.active \in BOOLEAN /\ user[q.target].active \in BOOLEAN
    BY <1>1, Zenon DEF UserRow
  <2> QED
    BY <2>1, Zenon
<1>4. NewRow(q) = [role |-> role, active |-> active]
  BY Zenon DEF NewRow
<1>5. \A a \in Roles, b \in BOOLEAN : [role |-> a, active |-> b] \in UserRow
  BY DEF UserRow
<1> HIDE DEF role, active
<1> QED
  BY <1>2, <1>3, <1>4, <1>5, Zenon

\* What a commit needs and does, by the invariant.
LEMMA CommitShape ==
  ASSUME UsersIInv, NEW r \in Requests, Commit(r)
  PROVE  /\ req[r].target \in Users
         /\ req' = [req EXCEPT ![r] = NoRequest]
         /\ user' \in [Users -> UserRow]
         /\ \A u \in Users \ {req[r].target} : user'[u] = user[u]
         /\ \A x \in Requests \ {r} :
              req[x].pc = "counted" => req[r].target \notin req[x].admins
<1> DEFINE q == req[r]
           row == NewRow(q)
<1>1. req[r] # NoRequest
  BY DEF Commit, NoRequest
<1>2. q.target \in Users /\ q.seen \in UserRow /\ q.next \in UserRow
  BY <1>1 DEF UsersIInv, UsersTypeOK, UserRow
<1>3. user \in [Users -> UserRow]
  BY DEF UsersIInv, UsersTypeOK, UserRow
<1>4. row \in UserRow
  BY <1>2, <1>3, NewRowIsRow
<1>5. /\ q.target \notin LockedByOthers(r)
      /\ user' = [user EXCEPT ![q.target] = row]
      /\ req' = [req EXCEPT ![r] = NoRequest]
  BY DEF Commit
<1>6. ASSUME NEW x \in Requests \ {r}, req[x].pc = "counted"
      PROVE  q.target \notin req[x].admins
  BY <1>5, <1>6 DEF LockedByOthers, Holds
<1> HIDE DEF row
<1> QED
  BY <1>2, <1>3, <1>4, <1>5, <1>6

LEMMA CommitStep ==
  ASSUME UsersIInv, NEW r \in Requests, Commit(r)
  PROVE  UsersIInv'
<1>1. /\ DOMAIN req' = Requests /\ req'[r] = NoRequest
      /\ \A x \in Requests \ {r} : req'[x] = req[x]
  BY CommitShape DEF UsersIInv, UsersTypeOK
<1>2. UsersTypeOK'
  BY <1>1, CommitShape DEF UsersIInv, UsersTypeOK, UserRow
<1>3. ASSUME NEW x \in Requests, req'[x].pc = "counted"
      PROVE  req'[x].admins \subseteq ActiveAdmins'
  <2>1. x # r /\ req'[x] = req[x]
    BY <1>1, <1>3 DEF NoRequest
  <2>2. req[x].admins \subseteq ActiveAdmins /\ req[r].target \notin req[x].admins
    BY <1>3, <2>1, CommitShape DEF UsersIInv, CountStands
  <2>3. \A u \in req[x].admins : u \in Users /\ user'[u] = user[u] /\ IsActiveAdmin(user[u])
    BY <2>2, CommitShape DEF ActiveAdmins
  <2> QED
    BY <2>1, <2>3, Zenon DEF ActiveAdmins
<1>4. CountStands'
  BY <1>3 DEF CountStands
<1> QED
  BY <1>2, <1>4 DEF UsersIInv

LEMMA UsersStepInv == UsersIInv /\ [UsersNext]_usersVars => UsersIInv'
<1> SUFFICES ASSUME UsersIInv, [UsersNext]_usersVars PROVE UsersIInv'
  OBVIOUS
<1>1. CASE UNCHANGED usersVars
  BY <1>1 DEF usersVars, UsersIInv, UsersTypeOK, CountStands, ActiveAdmins
<1>2. CASE UsersNext
  <2>1. PICK r \in Requests :
          \/ ReadForRole(r) \/ ReadForStatus(r) \/ StartCount(r) \/ FinishCount(r)
          \/ Refuse(r) \/ Commit(r) \/ Lost(r)
    BY <1>2, Zenon DEF UsersNext
  <2> QED
    BY <2>1, ReadStep, CountStep, EndStep, CommitStep
<1> QED
  BY <1>1, <1>2

THEOREM UsersInvariance == UsersSpec => []UsersIInv
BY UsersInitInv, UsersStepInv, PTL DEF UsersSpec

\* The rows and the requests in flight are well formed, and a request that
\* changes nothing never gets as far as a transaction (changeRole and
\* changeStatus return early).
THEOREM UsersTypeCorrect == UsersSpec => []UsersTypeOK
<1>1. UsersIInv => UsersTypeOK
  BY DEF UsersIInv
<1> QED
  BY <1>1, UsersInvariance, PTL

\* What activeAdminIdsForUpdate counted stays an active admin until the
\* counting transaction ends.
THEOREM CountsStand == UsersSpec => []CountStands
<1>1. UsersIInv => CountStands
  BY DEF UsersIInv
<1> QED
  BY <1>1, UsersInvariance, PTL

\* A set of two or more has a member besides any given one.
LEMMA AnotherMember ==
  ASSUME NEW S, IsFiniteSet(S), NEW t \in S, ~(Cardinality(S) <= 1)
  PROVE  \E u \in S : u # t
<1> SUFFICES ASSUME S = {t} PROVE FALSE
  OBVIOUS
<1>1. Cardinality(S) = 1
  BY FS_Singleton
<1> QED
  BY <1>1

\* A demotion or deactivation that counted its target (activeAdminIdsForUpdate)
\* leaves an active admin behind, however many others run at the same time.
THEOREM CountedLeavesAnAdmin == UsersSpec => CountedKeepsAnAdmin
<1>1. ASSUME UsersIInv, [UsersNext]_usersVars
      PROVE  [\A r \in Requests :
                Commit(r) /\ req[r].pc = "counted" /\ req[r].target \in req[r].admins
                  => ActiveAdmins' # {}]_usersVars
  <2> SUFFICES ASSUME NEW r \in Requests, Commit(r), req[r].pc = "counted",
                      req[r].target \in req[r].admins
               PROVE  ActiveAdmins' # {}
    BY Zenon
  <2> DEFINE q == req[r]
  <2>1. ~LastAdmin(q)
    BY DEF Commit
  <2>2. q.admins \subseteq ActiveAdmins /\ ActiveAdmins \subseteq Users
    BY <1>1 DEF UsersIInv, CountStands, ActiveAdmins
  <2>3. IsFiniteSet(q.admins)
    BY <2>2, FS_Subset, UsersAssumption
  <2>4. ~(Cardinality(q.admins) <= 1)
    BY <2>1 DEF LastAdmin
  <2>5. PICK u \in q.admins : u # q.target
    BY <2>3, <2>4, AnotherMember
  <2>6. u \in Users /\ user'[u] = user[u] /\ IsActiveAdmin(user[u])
    BY <1>1, <2>2, <2>5, CommitShape DEF ActiveAdmins
  <2>7. u \in ActiveAdmins'
    BY <2>6, Zenon DEF ActiveAdmins
  <2> QED
    BY <2>7
<1> QED
  BY <1>1, UsersInvariance, PTL DEF UsersSpec, CountedKeepsAnAdmin

-------------------------------------------------------------------------------
(* Sessions.                                                                *)

\* A token not issued yet is blank, and one that is belongs to a session.
BlankUntilIssued ==
  \A t \in Tokens : IF Issued(t) THEN token[t].session \in Sessions ELSE token[t] = Absent

SessionsIInv ==
  /\ SessionsTypeOK
  /\ BlankUntilIssued
  /\ OneLivePerSession
  /\ ChainsUnbroken
  /\ MarkedStaysLive

\* The request a handler may leave behind: well formed, and a rotation only on
\* a live token nobody else is rotating.
IsCall(r, q) ==
  \/ q = NoCall
  \/ /\ q.pc \in {"read", "marked", "lost", "expiring"}
     /\ q.on \in Tokens
     /\ q.pc = "marked" =>
          IsLive(q.on) /\ \A x \in Calls \ {r} : call[x].pc = "marked" => call[x].on # q.on
  \/ q.pc = "revoking" /\ q.session \in Sessions /\ q.targets \subseteq Tokens

LEMMA SessionsInitInv == SessionsInit => SessionsIInv
BY NullAssumption
   DEF SessionsInit, SessionsIInv, SessionsTypeOK, BlankUntilIssued, OneLivePerSession, ChainsUnbroken,
       MarkedStaysLive, Issued, IsLive, LiveIn, Absent, Row, NoCall

\* A step that only moves one request on.
LEMMA SessionsRequestStep ==
  ASSUME SessionsIInv, NEW r \in Calls, NEW q, IsCall(r, q), Becomes(r, q)
  PROVE  SessionsIInv'
<1>1. /\ DOMAIN call' = Calls /\ call'[r] = q
      /\ \A x \in Calls \ {r} : call'[x] = call[x]
      /\ token' = token /\ expired' = expired
  BY DEF Becomes, SessionsIInv, SessionsTypeOK
<1>2. SessionsTypeOK'
  BY <1>1 DEF SessionsIInv, SessionsTypeOK, IsCall
<1>3. BlankUntilIssued' /\ OneLivePerSession' /\ ChainsUnbroken'
  BY <1>1 DEF SessionsIInv, BlankUntilIssued, OneLivePerSession, ChainsUnbroken, Issued, IsLive, LiveIn
<1>4. MarkedStaysLive'
  BY <1>1 DEF SessionsIInv, MarkedStaysLive, IsLive, IsCall, NoCall
<1> QED
  BY <1>2, <1>3, <1>4 DEF SessionsIInv

\* Every step of a handler that writes no token.
LEMMA HandlerStep ==
  ASSUME SessionsIInv, NEW r \in Calls,
         \/ ReadLive(r) \/ ReadExpired(r) \/ ReadRevoked(r) \/ Mark(r) \/ LoseRace(r)
         \/ ThrowReuse(r) \/ Logout(r) \/ LostCall(r)
  PROVE  SessionsIInv'
<1>1. ASSUME NEW t \in Tokens, NEW pc \in {"read", "expiring", "lost"},
             Becomes(r, [pc |-> pc, on |-> t])
      PROVE  SessionsIInv'
  BY <1>1, SessionsRequestStep DEF IsCall
<1>2. ASSUME NEW t \in Tokens, Issued(t), StartRevoke(r, token[t].session)
      PROVE  SessionsIInv'
  <2>1. token[t].session \in Sessions
    BY <1>2 DEF SessionsIInv, BlankUntilIssued
  <2> QED
    BY <1>2, <2>1, SessionsRequestStep DEF IsCall, StartRevoke, LiveIn
<1>3. CASE Becomes(r, NoCall)
  BY <1>3, SessionsRequestStep DEF IsCall
<1>4. CASE ReadLive(r) \/ ReadExpired(r)
  BY <1>1, <1>4 DEF ReadLive, ReadExpired, SessionsIInv, SessionsTypeOK
<1>5. CASE ReadRevoked(r) \/ Logout(r)
  BY <1>2, <1>5 DEF ReadRevoked, Logout, Known, Issued
<1>6. CASE Mark(r)
  <2>1. call[r].on \in Tokens
    BY <1>6 DEF Mark, SessionsIInv, SessionsTypeOK, NoCall
  <2>2. ASSUME NEW x \in Calls \ {r}, call[x].pc = "marked"
        PROVE  call[x].on # call[r].on
    BY <1>6, <2>2 DEF Mark, HeldByOthers, HoldsToken
  <2> QED
    BY <1>6, <2>1, <2>2, SessionsRequestStep DEF Mark, Rotates, IsCall
<1>7. CASE LoseRace(r)
  <2>1. call[r].on \in Tokens
    BY <1>7 DEF LoseRace, SessionsIInv, SessionsTypeOK, NoCall
  <2> QED
    BY <1>1, <1>7, <2>1 DEF LoseRace
<1>8. CASE ThrowReuse(r) \/ LostCall(r)
  BY <1>3, <1>8 DEF ThrowReuse, LostCall
<1> QED
  BY <1>4, <1>5, <1>6, <1>7, <1>8

LEMMA LoginStep == SessionsIInv /\ Login => SessionsIInv'
<1> SUFFICES ASSUME SessionsIInv, Login PROVE SessionsIInv'
  OBVIOUS
<1>1. PICK t \in Tokens, s \in Sessions :
        /\ ~Issued(t)
        /\ \A u \in Tokens : token[u].session # s
        /\ token' = [token EXCEPT ![t] = Issue(s)]
        /\ UNCHANGED <<expired, call>>
  BY DEF Login
<1>2. /\ token'[t] = Issue(s)
      /\ \A u \in Tokens \ {t} : token'[u] = token[u]
      /\ token' \in [Tokens -> Row]
  BY <1>1 DEF SessionsIInv, SessionsTypeOK, Row, Issue
<1>3. token[t] = Absent
  BY <1>1 DEF SessionsIInv, BlankUntilIssued
<1>4. SessionsTypeOK'
  BY <1>1, <1>2 DEF SessionsIInv, SessionsTypeOK
<1>5. BlankUntilIssued'
  BY <1>2 DEF SessionsIInv, BlankUntilIssued, Issued, Issue
<1>6. OneLivePerSession'
  BY <1>1, <1>2 DEF SessionsIInv, OneLivePerSession, LiveIn, IsLive, Issue
<1>7. ChainsUnbroken'
  BY <1>1, <1>2, <1>3, NullAssumption
     DEF SessionsIInv, SessionsTypeOK, Row, ChainsUnbroken, Issued, Issue, Absent
<1>8. MarkedStaysLive'
  BY <1>1, <1>2, <1>3 DEF SessionsIInv, SessionsTypeOK, MarkedStaysLive, IsLive, Absent, NoCall
<1> QED
  BY <1>4, <1>5, <1>6, <1>7, <1>8 DEF SessionsIInv

\* revokedAt set on tokens no rotation holds.
LEMMA RevokeStep ==
  ASSUME SessionsIInv, NEW r \in Calls, RevokeExpired(r) \/ FinishRevoke(r)
  PROVE  SessionsIInv'
<1>1. PICK ts : /\ ts \cap HeldByOthers(r) = {}
                /\ token' = Revoked(ts)
                /\ call' = [call EXCEPT ![r] = NoCall]
                /\ UNCHANGED expired
  <2>1. CASE RevokeExpired(r)
    <3>1. {call[r].on} \cap HeldByOthers(r) = {}
      BY <2>1 DEF RevokeExpired
    <3> QED
      BY <2>1, <3>1 DEF RevokeExpired
  <2>2. CASE FinishRevoke(r)
    BY <2>2 DEF FinishRevoke
  <2> QED
    BY <2>1, <2>2
<1>2. /\ DOMAIN call' = Calls /\ call'[r] = NoCall
      /\ \A x \in Calls \ {r} : call'[x] = call[x]
  BY <1>1 DEF SessionsIInv, SessionsTypeOK
<1>3. /\ token' \in [Tokens -> Row]
      /\ \A t \in Tokens : \/ token'[t] = token[t]
                           \/ /\ t \in ts /\ IsLive(t)
                              /\ token'[t].state = "revoked"
                              /\ token'[t].session = token[t].session
                              /\ token'[t].next = token[t].next
  BY <1>1 DEF Revoked, SessionsIInv, SessionsTypeOK, Row
<1>4. SessionsTypeOK'
  BY <1>1, <1>2, <1>3 DEF SessionsIInv, SessionsTypeOK
<1>5. BlankUntilIssued'
  BY <1>3 DEF SessionsIInv, BlankUntilIssued, Issued, IsLive
<1>6. OneLivePerSession'
  BY <1>3 DEF SessionsIInv, OneLivePerSession, LiveIn, IsLive
<1>7. ChainsUnbroken'
  BY <1>3 DEF SessionsIInv, SessionsTypeOK, Row, ChainsUnbroken, Issued, IsLive
<1>8. ASSUME NEW x \in Calls, call'[x].pc = "marked"
      PROVE  IsLive(call[x].on)' /\ x # r /\ call'[x] = call[x]
  <2>1. x # r /\ call'[x] = call[x]
    BY <1>2, <1>8 DEF NoCall
  <2>2. call[x].on \in Tokens /\ IsLive(call[x].on)
    BY <1>8, <2>1 DEF SessionsIInv, SessionsTypeOK, MarkedStaysLive, NoCall
  <2>3. call[x].on \notin ts
    BY <1>1, <1>8, <2>1 DEF HeldByOthers, HoldsToken
  <2> QED
    BY <1>3, <2>1, <2>2, <2>3 DEF IsLive
<1>9. MarkedStaysLive'
  BY <1>8 DEF SessionsIInv, MarkedStaysLive, IsLive
<1> QED
  BY <1>4, <1>5, <1>6, <1>7, <1>9 DEF SessionsIInv

\* The successor takes the place of the token that was held live.
LEMMA RotateStep ==
  ASSUME SessionsIInv, NEW r \in Calls, Rotate(r)
  PROVE  SessionsIInv'
<1> DEFINE t == call[r].on
<1>1. PICK new \in Tokens :
        /\ ~Issued(new)
        /\ token' = Rotated(t, new)
        /\ call' = [call EXCEPT ![r] = NoCall]
        /\ UNCHANGED expired
  BY DEF Rotate
<1>2. /\ t \in Tokens /\ IsLive(t)
      /\ \A x \in Calls \ {r} : call[x].pc = "marked" => call[x].on # t
  BY DEF Rotate, SessionsIInv, SessionsTypeOK, MarkedStaysLive, NoCall
<1>3. /\ token[new] = Absent /\ new # t
      /\ token[t] \in Row /\ token[t].session \in Sessions
  BY <1>1, <1>2 DEF SessionsIInv, SessionsTypeOK, BlankUntilIssued, Issued, IsLive
<1>4. /\ token' \in [Tokens -> Row]
      /\ token'[new] = Issue(token[t].session)
      /\ token'[t].state = "revoked" /\ token'[t].next = new
      /\ token'[t].session = token[t].session
      /\ \A u \in Tokens \ {t, new} : token'[u] = token[u]
  BY <1>1, <1>2, <1>3 DEF Rotated, SessionsIInv, SessionsTypeOK, Row, Issue
<1>5. /\ DOMAIN call' = Calls /\ call'[r] = NoCall
      /\ \A x \in Calls \ {r} : call'[x] = call[x]
  BY <1>1 DEF SessionsIInv, SessionsTypeOK
<1> HIDE DEF t
<1>6. SessionsTypeOK'
  BY <1>1, <1>4, <1>5 DEF SessionsIInv, SessionsTypeOK
<1>7. BlankUntilIssued'
  BY <1>3, <1>4 DEF SessionsIInv, BlankUntilIssued, Issued, Issue
<1>8. OneLivePerSession'
  BY <1>2, <1>3, <1>4 DEF SessionsIInv, OneLivePerSession, LiveIn, IsLive, Issue
<1>9. ASSUME NEW u \in Tokens, token'[u].next # NoToken
      PROVE  /\ token'[u].state = "revoked"
             /\ Issued(token[u].next)'
             /\ token'[token'[u].next].session = token'[u].session
             /\ \A x \in Tokens \ {u} : token'[x].next # token'[u].next
  <2>1. \A x \in Tokens \ {t, new} : token'[x].next # new
    BY <1>1, <1>4, NullAssumption DEF SessionsIInv, ChainsUnbroken, SessionsTypeOK, Row, Issued
  <2>2. token'[new].next = NoToken
    BY <1>4 DEF Issue
  <2>3. CASE u = t
    BY <1>4, <2>1, <2>2, <2>3, NullAssumption DEF Issued, Issue
  <2>4. CASE u # t /\ u # new
    <3>1. token'[u] = token[u] /\ token[u].next \in Tokens
      BY <1>4, <1>9, <2>4 DEF SessionsIInv, SessionsTypeOK, Row
    <3>2. /\ token[u].state = "revoked" /\ Issued(token[u].next)
          /\ token[token[u].next].session = token[u].session
          /\ \A x \in Tokens \ {u} : token[x].next # token[u].next
      BY <1>9, <3>1 DEF SessionsIInv, ChainsUnbroken
    <3>3. token[u].next # new
      BY <1>1, <3>2
    <3>4. /\ Issued(token[u].next)'
          /\ token'[token[u].next].session = token[token[u].next].session
      BY <1>4, <3>1, <3>2, <3>3 DEF Issued
    <3>5. ASSUME NEW x \in Tokens \ {u} PROVE token'[x].next # token[u].next
      BY <1>4, <1>9, <2>2, <3>1, <3>2, <3>3
    <3> QED
      BY <3>1, <3>2, <3>4, <3>5
  <2> QED
    BY <1>9, <2>2, <2>3, <2>4
<1>10. ChainsUnbroken'
  BY <1>9 DEF ChainsUnbroken, Issued
<1>11. ASSUME NEW x \in Calls, call'[x].pc = "marked"
       PROVE  IsLive(call[x].on)' /\ x # r /\ call'[x] = call[x]
  <2>1. x # r /\ call'[x] = call[x]
    BY <1>5, <1>11 DEF NoCall
  <2>2. call[x].on \in Tokens /\ IsLive(call[x].on)
    BY <1>11, <2>1 DEF SessionsIInv, SessionsTypeOK, MarkedStaysLive, NoCall
  <2>3. call[x].on # t /\ call[x].on # new
    BY <1>1, <1>2, <1>11, <2>1, <2>2 DEF Issued, IsLive
  <2> QED
    BY <1>4, <2>1, <2>2, <2>3 DEF IsLive
<1>12. MarkedStaysLive'
  BY <1>11 DEF SessionsIInv, MarkedStaysLive, IsLive
<1> QED
  BY <1>6, <1>7, <1>8, <1>10, <1>12 DEF SessionsIInv

LEMMA SessionsStepInv == SessionsIInv /\ [SessionsNext]_sessionsVars => SessionsIInv'
<1> SUFFICES ASSUME SessionsIInv, [SessionsNext]_sessionsVars PROVE SessionsIInv'
  OBVIOUS
<1>1. ASSUME UNCHANGED <<token, call>>, expired' \subseteq Tokens PROVE SessionsIInv'
  BY <1>1 DEF SessionsIInv, SessionsTypeOK, BlankUntilIssued, OneLivePerSession, ChainsUnbroken,
              MarkedStaysLive, Issued, IsLive, LiveIn
<1>2. CASE UNCHANGED sessionsVars
  BY <1>1, <1>2 DEF sessionsVars, SessionsIInv, SessionsTypeOK
<1>3. CASE Expire
  BY <1>1, <1>3 DEF Expire, SessionsIInv, SessionsTypeOK
<1>4. ASSUME NEW r \in Calls,
             \/ ReadLive(r) \/ ReadExpired(r) \/ ReadRevoked(r) \/ Mark(r) \/ LoseRace(r)
             \/ ThrowReuse(r) \/ Rotate(r) \/ RevokeExpired(r) \/ Logout(r) \/ FinishRevoke(r)
             \/ LostCall(r)
      PROVE  SessionsIInv'
  BY <1>4, HandlerStep, RotateStep, RevokeStep
<1> QED
  BY <1>2, <1>3, <1>4, LoginStep DEF SessionsNext

THEOREM SessionsInvariance == SessionsSpec => []SessionsIInv
BY SessionsInitInv, SessionsStepInv, PTL DEF SessionsSpec

\* Tokens and requests in flight are well formed; logout acts on a token that
\* exists only.
THEOREM SessionsTypeCorrect == SessionsSpec => []SessionsTypeOK
<1>1. SessionsIInv => SessionsTypeOK
  BY DEF SessionsIInv
<1> QED
  BY <1>1, SessionsInvariance, PTL

\* A session never has two live tokens: the promise of markRefreshTokenRotated.
THEOREM OneTokenIsLive == SessionsSpec => []OneLivePerSession
<1>1. SessionsIInv => OneLivePerSession
  BY DEF SessionsIInv
<1> QED
  BY <1>1, SessionsInvariance, PTL

\* Marking a token and inserting its successor are one: every successor exists,
\* in the same session, of one token only.
THEOREM ChainsStayUnbroken == SessionsSpec => []ChainsUnbroken
<1>1. SessionsIInv => ChainsUnbroken
  BY DEF SessionsIInv
<1> QED
  BY <1>1, SessionsInvariance, PTL

\* The row lock of a rotation under way keeps its token live and its own.
THEOREM RotationHoldsItsToken == SessionsSpec => []MarkedStaysLive
<1>1. SessionsIInv => MarkedStaysLive
  BY DEF SessionsIInv
<1> QED
  BY <1>1, SessionsInvariance, PTL

-------------------------------------------------------------------------------
(* Processes.                                                               *)

Server == [pc : {"down", "up", "draining", "closing"},
           timer : BOOLEAN, running : BOOLEAN, awaits : BOOLEAN]

RunState == [pc : {"idle", "start", "claim", "update", "skip", "work", "failed", "release", "over"},
             row : Outcomes \union {"none", "open"}]

Typed ==
  /\ server \in [Processes -> Server]
  /\ run \in [Callers -> RunState]
  /\ mutex \in Callers \union {NoOne}
  /\ lease \in [owner : Callers \union {NoOne}, left : 0..LEASE]
  /\ open \subseteq Kinds \X {"threw", "exit", "died"}
  /\ faults \in 0..MaxFaults /\ stops \in 0..MaxStops

\* The JobRun row of a run, by how far the run has come.
RowFits(r) ==
  /\ r.pc \in {"idle", "start"} => r.row = "none"
  /\ r.pc \in {"claim", "update", "skip", "work"} => r.row = "open"

RowsFit == \A c \in Callers : RowFits(run[c])

\* How the flags of a process fit together and with the run of its timer.
Flags ==
  \A p \in Processes :
    /\ server[p].timer <=> server[p].pc = "up"
    /\ server[p].running <=> run[<<p, "timer">>] # Idle
    /\ server[p].pc = "draining" => server[p].awaits = server[p].running
    /\ server[p].pc \in {"down", "closing"} => ~server[p].running

MutexIsUsed == mutex # NoOne => run[mutex].pc = "update"

\* A run nothing went wrong in has its outcome when it is over.
Clean(r) == r.pc # "failed" /\ (r.pc \in {"release", "over"} => r.row # "open")

OnRecord == faults = 0 => (\A c \in Callers : Clean(run[c])) /\ open \subseteq {<<"request", "exit">>}

LeaseIsWorked ==
  /\ lease.left > 0 => lease.owner \in Callers
  /\ faults = 0 /\ lease.left > 0 /\ lease.owner[2] = "timer"
       => run[lease.owner].pc \in {"work", "release"}

IInv == Typed /\ RowsFit /\ Flags /\ MutexIsUsed /\ OnRecord /\ LeaseIsWorked

-------------------------------------------------------------------------------
\* A caller is a process and what asked it.
LEMMA CallerParts ==
  /\ \A c \in Callers : c[1] \in Processes /\ c[2] \in Kinds /\ c = <<c[1], c[2]>>
  /\ \A p \in Processes : <<p, "timer">> \in Callers
  /\ \A p \in Pressed : p \in Processes /\ <<p, "request">> \in Callers
  /\ NoOne \notin Callers
  BY PressedAssumption DEF Callers, Kinds, NoOne

\* The flags a settled run and a shutdown leave.
LEMMA ServerParts ==
  ASSUME NEW s \in Server
  PROVE  /\ [s EXCEPT !.running = FALSE, !.awaits = FALSE]
              = [pc |-> s.pc, timer |-> s.timer, running |-> FALSE, awaits |-> FALSE]
         /\ [s EXCEPT !.pc = "draining", !.timer = FALSE, !.awaits = s.running]
              = [pc |-> "draining", timer |-> FALSE, running |-> s.running, awaits |-> s.running]
<1> DEFINE t == [s EXCEPT !.running = FALSE, !.awaits = FALSE]
           u == [s EXCEPT !.pc = "draining", !.timer = FALSE, !.awaits = s.running]
<1>1. t \in Server /\ t.pc = s.pc /\ t.timer = s.timer /\ t.running = FALSE /\ t.awaits = FALSE
  BY DEF Server
<1>2. u \in Server /\ u.pc = "draining" /\ u.timer = FALSE /\ u.running = s.running /\ u.awaits = s.running
  BY DEF Server
<1> HIDE DEF t, u
<1>3. /\ t = [pc |-> s.pc, timer |-> s.timer, running |-> FALSE, awaits |-> FALSE]
      /\ u = [pc |-> "draining", timer |-> FALSE, running |-> s.running, awaits |-> s.running]
  BY <1>1, <1>2 DEF Server
<1> QED
  BY <1>3 DEF t, u

\* Idle, by its program counter.
LEMMA IdleIsIdle ==
  ASSUME Typed, RowsFit, NEW c \in Callers
  PROVE  run[c] = Idle <=> run[c].pc = "idle"
<1>1. run[c] \in RunState /\ RowFits(run[c])
  BY DEF Typed, RowsFit
<1> QED
  BY <1>1 DEF RunState, RowFits, Idle

\* The initial states satisfy the invariant.
LEMMA InvariantInit == Init => IInv
<1> SUFFICES ASSUME Init PROVE IInv
  OBVIOUS
<1>1. Idle \in RunState /\ Down \in Server /\ RowFits(Idle) /\ Clean(Idle)
  BY DEF Idle, RunState, Down, Server, RowFits, Clean
<1>2. Typed
  BY <1>1, BoundsAssumption DEF Init, Typed, Free
<1>3. Flags
  BY CallerParts DEF Init, Flags, Down
<1> QED
  BY <1>1, <1>2, <1>3 DEF Init, IInv, RowsFit, MutexIsUsed, OnRecord, LeaseIsWorked, Free

\* A step of a run that has begun and does not settle: what remains to be shown of it.
Moves(c, r) ==
  /\ run[c] # Idle /\ r \in RunState /\ r # Idle /\ RowFits(r)
  /\ run' = [run EXCEPT ![c] = r]
  /\ UNCHANGED <<server, open, stops>>
  /\ faults' \in 0..MaxFaults /\ (faults' = 0 => faults = 0 /\ Clean(r))
  /\ \/ mutex' = mutex /\ mutex # c
     \/ mutex' = NoOne
     \/ mutex' = c /\ r.pc = "update"

LEMMA MoveKeeps ==
  ASSUME IInv, NEW c \in Callers, NEW r, Moves(c, r),
         lease' \in [owner : Callers \union {NoOne}, left : 0..LEASE], LeaseIsWorked'
  PROVE  IInv'
<1>0. Typed /\ RowsFit /\ Flags /\ MutexIsUsed /\ OnRecord
  BY DEF IInv
<1>1. run'[c] = r /\ \A d \in Callers \ {c} : run'[d] = run[d]
  BY <1>0 DEF Moves, Typed
<1>2. Typed'
  BY <1>0 DEF Moves, Typed
<1>3. RowsFit'
  BY <1>0, <1>1 DEF Moves, RowsFit
<1>4. Flags'
  <2>1. \A d \in Callers : run'[d] # Idle <=> run[d] # Idle
    BY <1>1 DEF Moves
  <2> QED
    BY <1>0, <2>1, CallerParts DEF Moves, Flags
<1>5. MutexIsUsed'
  BY <1>0, <1>1 DEF Moves, MutexIsUsed, Typed
<1>6. OnRecord'
  BY <1>0, <1>1 DEF Moves, OnRecord
<1> QED
  BY <1>2, <1>3, <1>4, <1>5, <1>6 DEF IInv

\* A step that only moves the program counter.
LEMMA AtEffect ==
  ASSUME Typed, NEW c \in Callers, NEW pc, At(c, pc)
  PROVE  run' = [run EXCEPT ![c] = [pc |-> pc, row |-> run[c].row]]
<1>1. run[c] = [pc |-> run[c].pc, row |-> run[c].row]
  BY DEF Typed, RunState
<1>2. run' = [run EXCEPT ![c] = [run[c] EXCEPT !.pc = pc]]
  BY DEF At
<1>3. [run[c] EXCEPT !.pc = pc] = [pc |-> pc, row |-> run[c].row]
  BY <1>1
<1> QED
  BY <1>2, <1>3

\* A run that moves and leaves the lease alone, without leaving work or release early.
LEMMA LeaseStays ==
  ASSUME IInv, NEW c \in Callers, NEW r, Moves(c, r), lease' = lease,
         run[c].pc \in {"work", "release"} => r.pc \in {"work", "release"} \/ faults' # 0
  PROVE  IInv'
<1>1. run'[c] = r /\ \A d \in Callers \ {c} : run'[d] = run[d]
  BY DEF IInv, Moves, Typed
<1>2. LeaseIsWorked'
  BY <1>1 DEF IInv, LeaseIsWorked, Moves
<1> QED
  BY <1>2, MoveKeeps DEF IInv, Typed

\* The steps of a run between its start and its end.
LEMMA RunStepKeeps ==
  ASSUME IInv, NEW c \in Callers,
         \/ Start(c) \/ TryAdvisoryXactLock(c) \/ ClaimLease(c) \/ Skip(c) \/ RenewLease(c)
         \/ Complete(c) \/ Fail(c) \/ ReleaseLease(c)
  PROVE  IInv'
<1>0. /\ Typed /\ RowsFit /\ MutexIsUsed /\ OnRecord /\ LeaseIsWorked
      /\ run[c] \in RunState /\ RowFits(run[c]) /\ (run[c] = Idle <=> run[c].pc = "idle")
      /\ (faults = 0 => Clean(run[c])) /\ faults \in 0..MaxFaults
      /\ (mutex = c => run[c].pc = "update")
  BY IdleIsIdle, CallerParts DEF IInv, Typed, RowsFit, OnRecord, MutexIsUsed
<1> DEFINE To(pc) == [pc |-> pc, row |-> run[c].row]
           Over(outcome, pc) == [pc |-> pc, row |-> Finished(run[c].row, outcome)]
<1>1. CASE Start(c)
  <2>1. Moves(c, [pc |-> "claim", row |-> "open"]) /\ lease' = lease /\ run[c].pc = "start"
    BY <1>0, <1>1 DEF Start, Moves, RunState, Idle, RowFits, Clean
  <2> QED
    BY <2>1, LeaseStays
<1>2. CASE TryAdvisoryXactLock(c)
  <2>1. run[c].pc = "claim" /\ run[c].row = "open" /\ lease' = lease
        /\ UNCHANGED <<server, open, faults, stops>>
    BY <1>0, <1>2 DEF TryAdvisoryXactLock, RowFits
  <2>2. \/ At(c, "update") /\ mutex' = c
        \/ At(c, "skip") /\ mutex' = mutex
    BY <1>2 DEF TryAdvisoryXactLock
  <2>3. \A pc \in {"update", "skip"} :
          To(pc) \in RunState /\ To(pc) # Idle /\ RowFits(To(pc)) /\ Clean(To(pc)) /\ To(pc).pc = pc
    BY <1>0, <2>1 DEF RunState, Idle, RowFits, Clean
  <2>4. CASE At(c, "update") /\ mutex' = c
    <3>1. Moves(c, To("update"))
      BY <1>0, <2>1, <2>3, <2>4, AtEffect DEF Moves
    <3> QED
      BY <2>1, <3>1, LeaseStays
  <2>5. CASE At(c, "skip") /\ mutex' = mutex
    <3>1. Moves(c, To("skip"))
      BY <1>0, <2>1, <2>3, <2>5, AtEffect DEF Moves
    <3> QED
      BY <2>1, <3>1, LeaseStays
  <2> QED
    BY <2>2, <2>4, <2>5
<1>3. CASE ClaimLease(c)
  <2>1. run[c].pc = "update" /\ run[c].row = "open" /\ mutex' = NoOne
        /\ UNCHANGED <<server, open, faults, stops>>
    BY <1>0, <1>3 DEF ClaimLease, RowFits
  <2>2. \/ At(c, "work") /\ lease' = [owner |-> c, left |-> LEASE]
        \/ At(c, "skip") /\ lease' = lease
    BY <1>3 DEF ClaimLease
  <2>3. \A pc \in {"work", "skip"} :
          To(pc) \in RunState /\ To(pc) # Idle /\ RowFits(To(pc)) /\ Clean(To(pc)) /\ To(pc).pc = pc
    BY <1>0, <2>1 DEF RunState, Idle, RowFits, Clean
  <2>4. CASE At(c, "work") /\ lease' = [owner |-> c, left |-> LEASE]
    <3>1. Moves(c, To("work"))
      BY <1>0, <2>1, <2>3, <2>4, AtEffect DEF Moves
    <3>2. lease' \in [owner : Callers \union {NoOne}, left : 0..LEASE]
      BY <2>4, BoundsAssumption
    <3>3. run'[c] = To("work")
      BY <1>0, <3>1 DEF Moves, Typed
    <3>4. LeaseIsWorked'
      BY <2>4, <3>3 DEF LeaseIsWorked
    <3> QED
      BY <3>1, <3>2, <3>4, MoveKeeps
  <2>5. CASE At(c, "skip") /\ lease' = lease
    <3>1. Moves(c, To("skip"))
      BY <1>0, <2>1, <2>3, <2>5, AtEffect DEF Moves
    <3> QED
      BY <2>1, <2>5, <3>1, LeaseStays
  <2> QED
    BY <2>2, <2>4, <2>5
<1>4. CASE Skip(c)
  <2>1. Moves(c, Over("SKIPPED_LOCKED", "over")) /\ lease' = lease /\ run[c].pc = "skip"
    BY <1>0, <1>4 DEF Skip, Finish, Finished, Moves, RunState, Outcomes, Idle, RowFits, Clean
  <2> QED
    BY <2>1, LeaseStays
<1>5. CASE RenewLease(c)
  <2>1. /\ run[c].pc = "work" /\ lease.owner = c /\ lease' = [lease EXCEPT !.left = LEASE]
        /\ UNCHANGED <<server, run, mutex, open, faults, stops>>
    BY <1>5 DEF RenewLease
  <2>2. lease' = [owner |-> c, left |-> LEASE]
    BY <1>0, <2>1 DEF Typed
  <2>3. Typed' /\ LeaseIsWorked'
    BY <1>0, <2>1, <2>2, BoundsAssumption DEF Typed, LeaseIsWorked
  <2> QED
    BY <2>1, <2>3 DEF IInv, RowsFit, Flags, MutexIsUsed, OnRecord
<1>6. CASE Complete(c)
  <2>1. Moves(c, Over("COMPLETED", "release")) /\ lease' = lease
    BY <1>0, <1>6 DEF Complete, Finish, Finished, Moves, RunState, Outcomes, Idle, RowFits, Clean
  <2> QED
    BY <2>1, LeaseStays
<1>7. CASE Fail(c)
  <2>1. Moves(c, Over("FAILED", "release")) /\ lease' = lease
    BY <1>0, <1>7 DEF Fail, Finish, Finished, Moves, RunState, Outcomes, Idle, RowFits, Clean
  <2> QED
    BY <2>1, LeaseStays
<1>8. CASE ReleaseLease(c)
  <2>1. /\ run[c].pc = "release" /\ lease' = Released(c) /\ At(c, "over")
        /\ UNCHANGED <<server, mutex, open, faults, stops>>
    BY <1>8 DEF ReleaseLease
  <2>2. To("over") \in RunState /\ To("over") # Idle /\ RowFits(To("over"))
        /\ (faults = 0 => Clean(To("over")))
    BY <1>0, <2>1 DEF RunState, Idle, RowFits, Clean
  <2>3. Moves(c, To("over"))
    BY <1>0, <2>1, <2>2, AtEffect DEF Moves
  <2>4. lease' \in [owner : Callers \union {NoOne}, left : 0..LEASE]
    BY <1>0, <2>1, BoundsAssumption DEF Released, Free, Typed
  <2>5. \A d \in Callers \ {c} : run'[d] = run[d]
    BY <1>0, <2>3 DEF Moves, Typed
  <2>6. LeaseIsWorked'
    BY <1>0, <2>1, <2>5 DEF LeaseIsWorked, Released, Free
  <2> QED
    BY <2>3, <2>4, <2>6, MoveKeeps
<1> QED
  BY <1>1, <1>2, <1>3, <1>4, <1>5, <1>6, <1>7, <1>8

\* A statement that throws leaves a fault on record, and the lease with the run it
\* was given to, or with nobody.
LEMMA ThrowKeeps ==
  ASSUME IInv, NEW c \in Callers, Throw(c)
  PROVE  IInv'
<1>0. /\ Typed /\ RowsFit /\ MutexIsUsed /\ LeaseIsWorked /\ run[c] \in RunState /\ RowFits(run[c])
      /\ (run[c] = Idle <=> run[c].pc = "idle") /\ faults \in 0..MaxFaults /\ MaxFaults \in Nat
  BY IdleIsIdle, BoundsAssumption DEF IInv, Typed, RowsFit
<1>1. /\ faults < MaxFaults /\ faults' = faults + 1
      /\ mutex' = IF mutex = c THEN NoOne ELSE mutex
      /\ UNCHANGED <<server, open, stops>>
  BY DEF Throw
<1>2. faults' \in 0..MaxFaults /\ faults' # 0
  BY <1>0, <1>1
<1>3. run[c].pc # "idle" /\ \E r \in RunState : r.pc # "idle" /\ RowFits(r) /\ run' = [run EXCEPT ![c] = r]
  <2>1. CASE /\ run[c].pc \in {"start", "claim", "update", "skip"}
             /\ \E row \in {run[c].row} \union
                             (CASE run[c].pc = "start" -> {"open"}
                                [] run[c].pc = "skip"  -> {Finished(run[c].row, "SKIPPED_LOCKED")}
                                [] OTHER -> {}) :
                  run' = [run EXCEPT ![c] = [pc |-> "over", row |-> row]]
    <3>1. PICK row \in Outcomes \union {"none", "open"} :
            run' = [run EXCEPT ![c] = [pc |-> "over", row |-> row]]
      BY <1>0, <2>1 DEF RunState, Finished, Outcomes
    <3>2. [pc |-> "over", row |-> row] \in RunState /\ RowFits([pc |-> "over", row |-> row])
      BY DEF RunState, RowFits
    <3> QED
      BY <2>1, <3>1, <3>2
  <2>2. CASE /\ run[c].pc \in {"work", "failed", "release"}
             /\ \E pc \in {"failed", "release", "over"} : At(c, pc)
    <3>1. PICK pc \in {"failed", "release", "over"} : At(c, pc)
      BY <2>2
    <3>2. run' = [run EXCEPT ![c] = [pc |-> pc, row |-> run[c].row]]
      BY <1>0, <3>1, AtEffect
    <3>3. [pc |-> pc, row |-> run[c].row] \in RunState /\ RowFits([pc |-> pc, row |-> run[c].row])
      BY <1>0 DEF RunState, RowFits
    <3> QED
      BY <2>2, <3>2, <3>3
  <2>3. CASE /\ run[c].pc \in {"work", "failed"}
             /\ \E o \in Outcomes, pc \in {"failed", "release"} : Finish(c, o, pc)
    <3>1. PICK o \in Outcomes, pc \in {"failed", "release"} : Finish(c, o, pc)
      BY <2>3
    <3> DEFINE r == [pc |-> pc, row |-> Finished(run[c].row, o)]
    <3>2. r \in RunState /\ RowFits(r) /\ r.pc # "idle" /\ run' = [run EXCEPT ![c] = r]
      BY <1>0, <3>1 DEF Finish, Finished, RunState, RowFits
    <3> QED
      BY <2>3, <3>2
  <2> QED
    BY <2>1, <2>2, <2>3, Zenon DEF Throw, Outcomes
<1>4. PICK r \in RunState : r.pc # "idle" /\ RowFits(r) /\ run' = [run EXCEPT ![c] = r]
  BY <1>3
<1>5. Moves(c, r)
  <2>1. run[c] # Idle
    BY <1>0, <1>3
  <2>2. r # Idle
    BY <1>4 DEF Idle
  <2>3. (mutex' = mutex /\ mutex # c) \/ mutex' = NoOne
    BY <1>1
  <2> QED
    BY <1>1, <1>2, <1>4, <2>1, <2>2, <2>3 DEF Moves
<1>6. lease' \in {lease, Free, [owner |-> c, left |-> LEASE]}
  BY DEF Throw, Released
<1>7. lease' \in [owner : Callers \union {NoOne}, left : 0..LEASE]
  BY <1>0, <1>6, BoundsAssumption DEF Free, Typed
<1>8. LeaseIsWorked'
  BY <1>0, <1>2, <1>6 DEF LeaseIsWorked, Free
<1> QED
  BY <1>5, <1>7, <1>8, MoveKeeps

-------------------------------------------------------------------------------
\* The timer and Run now begin a run where there was none.
LEMMA BeginKeeps ==
  ASSUME IInv, NEW c \in Callers, run[c] = Idle, At(c, "start"),
         UNCHANGED <<mutex, lease, open, faults, stops>>,
         server' \in [Processes -> Server], Flags'
  PROVE  IInv'
<1>0. Typed /\ RowsFit /\ MutexIsUsed /\ OnRecord /\ LeaseIsWorked
  BY DEF IInv
<1> DEFINE r == [pc |-> "start", row |-> "none"]
<1>1. run' = [run EXCEPT ![c] = r]
  BY <1>0, AtEffect DEF Idle
<1>2. r \in RunState /\ RowFits(r) /\ Clean(r)
  BY DEF RunState, RowFits, Clean
<1>3. run'[c] = r /\ \A d \in Callers \ {c} : run'[d] = run[d]
  BY <1>0, <1>1 DEF Typed
<1>4. run[c].pc = "idle"
  BY DEF Idle
<1> HIDE DEF r
<1>5. Typed'
  BY <1>0, <1>1, <1>2 DEF Typed
<1>6. RowsFit' /\ OnRecord'
  BY <1>0, <1>2, <1>3 DEF RowsFit, OnRecord
<1>7. MutexIsUsed' /\ LeaseIsWorked'
  BY <1>0, <1>3, <1>4 DEF MutexIsUsed, LeaseIsWorked, Typed
<1> QED
  BY <1>5, <1>6, <1>7 DEF IInv

LEMMA TimerKeeps ==
  ASSUME IInv, NEW p \in Processes, TimerFires(p)
  PROVE  IInv'
<1>0. Typed /\ Flags /\ server[p] \in Server /\ <<p, "timer">> \in Callers
  BY CallerParts DEF IInv, Typed
<1>1. /\ server[p].timer /\ ~server[p].running /\ At(<<p, "timer">>, "start")
      /\ server' = [server EXCEPT ![p].running = TRUE]
      /\ UNCHANGED <<mutex, lease, open, faults, stops>>
  BY DEF TimerFires
<1>2. run[<<p, "timer">>] = Idle /\ server[p].pc = "up"
  BY <1>0, <1>1 DEF Flags
<1>3. /\ server' \in [Processes -> Server]
      /\ server'[p].pc = "up" /\ server'[p].timer = server[p].timer /\ server'[p].running
      /\ \A q \in Processes \ {p} : server'[q] = server[q]
  BY <1>0, <1>1, <1>2 DEF Typed, Server
<1>4. run' = [run EXCEPT ![<<p, "timer">>] = [pc |-> "start", row |-> run[<<p, "timer">>].row]]
  BY <1>0, <1>1, AtEffect
<1>5. /\ run'[<<p, "timer">>] # Idle
      /\ \A q \in Processes \ {p} : run'[<<q, "timer">>] = run[<<q, "timer">>]
  BY <1>0, <1>4 DEF Typed, Idle
<1>6. Flags'
  BY ZenonT(60), <1>0, <1>1, <1>2, <1>3, <1>5 DEF Flags
<1> QED
  BY <1>0, <1>1, <1>2, <1>3, <1>6, BeginKeeps

LEMMA RunNowKeeps ==
  ASSUME IInv, NEW p \in Processes, RunNow(p)
  PROVE  IInv'
<1>0. Typed /\ Flags
  BY DEF IInv
<1>1. /\ <<p, "request">> \in Callers /\ run[<<p, "request">>] = Idle /\ At(<<p, "request">>, "start")
      /\ UNCHANGED <<server, mutex, lease, open, faults, stops>>
  BY CallerParts DEF RunNow
<1>2. run' = [run EXCEPT ![<<p, "request">>] = [pc |-> "start", row |-> run[<<p, "request">>].row]]
  BY <1>0, <1>1, AtEffect
<1>3. \A q \in Processes : run'[<<q, "timer">>] = run[<<q, "timer">>]
  BY <1>0, <1>1, <1>2, CallerParts DEF Typed
<1>4. Flags'
  BY <1>0, <1>1, <1>3 DEF Flags
<1>5. server' \in [Processes -> Server]
  BY <1>0, <1>1 DEF Typed
<1> QED
  BY <1>1, <1>4, <1>5, BeginKeeps

LEMMA TickKeeps ==
  ASSUME IInv, Tick
  PROVE  IInv'
<1>0. Typed /\ LeaseIsWorked
  BY DEF IInv
<1>1. /\ lease.left > 0 /\ lease' = [owner |-> lease.owner, left |-> lease.left - 1]
      /\ UNCHANGED <<server, run, mutex, open, faults, stops>>
  BY <1>0 DEF Tick, Typed
<1>2. Typed'
  BY <1>0, <1>1, BoundsAssumption DEF Typed
<1>3. LeaseIsWorked'
  <2>1. lease'.left > 0 => lease.left > 0
    BY <1>1
  <2> QED
    BY <1>0, <1>1, <2>1 DEF LeaseIsWorked
<1> QED
  BY <1>1, <1>2, <1>3 DEF IInv, RowsFit, Flags, MutexIsUsed, OnRecord

-------------------------------------------------------------------------------
\* The caller has its answer: the timer's guard is cleared with its run, and only a
\* run something went wrong in leaves its row open.
LEMMA SettleKeeps ==
  ASSUME IInv, NEW c \in Callers, Settle(c)
  PROVE  IInv'
<1>0. Typed /\ RowsFit /\ Flags /\ MutexIsUsed /\ OnRecord /\ LeaseIsWorked /\ c[1] \in Processes
  BY CallerParts DEF IInv
<1>1. /\ run[c].pc = "over" /\ run' = [run EXCEPT ![c] = Idle]
      /\ open' = open \union LeftOpen(c, "threw")
      /\ server' = IF c[2] = "timer" THEN [server EXCEPT ![c[1]] = Settled(c)] ELSE server
      /\ UNCHANGED <<mutex, lease, faults, stops>>
  BY DEF Settle
<1>2. run'[c] = Idle /\ \A d \in Callers \ {c} : run'[d] = run[d]
  BY <1>0, <1>1 DEF Typed
<1>3. Idle \in RunState /\ RowFits(Idle) /\ Clean(Idle)
  BY DEF Idle, RunState, RowFits, Clean
<1>4. Settled(c) = [pc |-> server[c[1]].pc, timer |-> server[c[1]].timer, running |-> FALSE, awaits |-> FALSE]
  <2>1. server[c[1]] \in Server
    BY <1>0 DEF Typed
  <2> QED
    BY <2>1, ServerParts DEF Settled
<1>5. Settled(c) \in Server
  BY <1>0, <1>4 DEF Typed, Server
<1>6. Typed'
  <2>1. server' \in [Processes -> Server]
    BY <1>0, <1>1, <1>5 DEF Typed
  <2>2. open' \subseteq Kinds \X {"threw", "exit", "died"}
    BY <1>0, <1>1, CallerParts DEF Typed, LeftOpen
  <2>3. run' \in [Callers -> RunState]
    BY <1>0, <1>1, <1>3 DEF Typed
  <2> QED
    BY <1>0, <1>1, <2>1, <2>2, <2>3 DEF Typed
<1>7. RowsFit'
  BY <1>0, <1>2, <1>3 DEF RowsFit
<1>8. Flags'
  <2>1. CASE c[2] = "timer"
    <3>1. c = <<c[1], "timer">>
      BY <2>1, CallerParts
    <3>2. /\ server'[c[1]] = Settled(c) /\ run'[<<c[1], "timer">>] = Idle
          /\ \A q \in Processes \ {c[1]} : server'[q] = server[q] /\ run'[<<q, "timer">>] = run[<<q, "timer">>]
      BY <1>0, <1>1, <1>2, <2>1, <3>1, CallerParts DEF Typed
    <3>3. /\ server'[c[1]].pc = server[c[1]].pc /\ server'[c[1]].timer = server[c[1]].timer
          /\ server'[c[1]].running = FALSE /\ server'[c[1]].awaits = FALSE
      BY <1>4, <3>2
    <3>4. server'[c[1]].pc = "draining" => server'[c[1]].awaits = server'[c[1]].running
      BY <3>3
    <3> SUFFICES ASSUME NEW q \in Processes PROVE Flags!(q)'
      BY DEF Flags
    <3> QED
      BY <1>0, <3>2, <3>3, <3>4 DEF Flags
  <2>2. CASE c[2] # "timer"
    <3>1. server' = server /\ \A q \in Processes : run'[<<q, "timer">>] = run[<<q, "timer">>]
      BY <1>1, <1>2, <2>2, CallerParts
    <3> QED
      BY <1>0, <3>1 DEF Flags
  <2> QED
    BY <2>1, <2>2
<1>9. MutexIsUsed'
  BY <1>0, <1>1, <1>2 DEF MutexIsUsed, Typed
<1>10. OnRecord'
  <2>1. faults = 0 => LeftOpen(c, "threw") = {}
    BY <1>0, <1>1 DEF OnRecord, Clean, LeftOpen
  <2> QED
    BY <1>0, <1>1, <1>2, <1>3, <2>1 DEF OnRecord
<1>11. LeaseIsWorked'
  BY <1>0, <1>1, <1>2 DEF LeaseIsWorked
<1> QED
  BY <1>6, <1>7, <1>8, <1>9, <1>10, <1>11 DEF IInv

-------------------------------------------------------------------------------
\* Boot, shutdown and close change the flags of one process and nothing else.
LEMMA FlagsStep ==
  ASSUME IInv, NEW p \in Processes, NEW s \in Server,
         server' = [server EXCEPT ![p] = s],
         s.timer <=> s.pc = "up",
         s.running <=> server[p].running,
         s.pc = "draining" => s.awaits = s.running,
         s.pc \in {"down", "closing"} => ~s.running,
         stops' \in 0..MaxStops,
         UNCHANGED <<run, mutex, lease, open, faults>>
  PROVE  IInv'
<1>0. Typed /\ Flags
  BY DEF IInv
<1>1. server'[p] = s /\ \A q \in Processes \ {p} : server'[q] = server[q]
  BY <1>0 DEF Typed
<1>2. Typed'
  BY <1>0 DEF Typed
<1>3. Flags'
  BY ZenonT(60), <1>0, <1>1 DEF Flags
<1> QED
  BY <1>2, <1>3 DEF IInv, RowsFit, MutexIsUsed, OnRecord, LeaseIsWorked

LEMMA ProcessKeeps ==
  ASSUME IInv, NEW p \in Processes, Boot(p) \/ Shutdown(p) \/ CloseServer(p)
  PROVE  IInv'
<1>0. Typed /\ Flags /\ server[p] \in Server
  BY DEF IInv, Typed
<1> DEFINE f == server[p]
<1>1. CASE Boot(p)
  <2>1. server' = [server EXCEPT ![p] = Booted] /\ f.pc = "down" /\ stops' \in 0..MaxStops
        /\ UNCHANGED <<run, mutex, lease, open, faults>>
    BY <1>0, <1>1 DEF Boot, Typed
  <2>2. ~f.running
    BY <1>0, <2>1 DEF Flags
  <2>3. Booted \in Server /\ Booted.timer /\ Booted.pc = "up" /\ ~Booted.running
    BY DEF Booted, Server
  <2> QED
    BY <2>1, <2>2, <2>3, FlagsStep
<1>2. CASE Shutdown(p)
  <2> DEFINE s == [pc |-> "draining", timer |-> FALSE, running |-> f.running, awaits |-> f.running]
  <2>1. Stopped(f) = s
    BY <1>0, ServerParts DEF Stopped
  <2>2. server' = [server EXCEPT ![p] = s] /\ UNCHANGED <<run, mutex, lease, open, faults>>
    BY <1>2, <2>1 DEF Shutdown
  <2>3. stops' \in 0..MaxStops
    BY <1>0, <1>2, BoundsAssumption DEF Shutdown, Typed
  <2>4. s \in Server
    BY <1>0 DEF Server
  <2>5. s.pc = "draining" /\ ~s.timer /\ s.running = f.running /\ s.awaits = s.running
    OBVIOUS
  <2> QED
    BY <2>2, <2>3, <2>4, <2>5, FlagsStep
<1>3. CASE CloseServer(p)
  <2> DEFINE s == [pc |-> "closing", timer |-> f.timer, running |-> f.running, awaits |-> f.awaits]
  <2>1. [f EXCEPT !.pc = "closing"] = s
    BY <1>0 DEF Server
  <2>2. f.pc = "draining" /\ ~f.awaits /\ stops' \in 0..MaxStops
        /\ server' = [server EXCEPT ![p] = s] /\ UNCHANGED <<run, mutex, lease, open, faults>>
    BY <1>0, <1>3, <2>1 DEF CloseServer, Typed
  <2>3. ~f.running /\ ~f.timer
    BY <1>0, <2>2 DEF Flags
  <2>4. s \in Server
    BY <1>0 DEF Server
  <2>5. s.pc = "closing" /\ ~s.timer /\ ~s.running
    BY <2>3
  <2> QED
    BY <2>2, <2>3, <2>4, <2>5, FlagsStep
<1> QED
  BY <1>1, <1>2, <1>3

\* A process that goes, by its own exit or not: an exit finds no timer's run to leave.
LEMMA GoneKeeps ==
  ASSUME IInv, NEW p \in Processes, Exit(p) \/ Die(p)
  PROVE  IInv'
<1>0. Typed /\ RowsFit /\ Flags /\ MutexIsUsed /\ OnRecord /\ LeaseIsWorked /\ Down \in Server
  BY DEF IInv, Down, Server
<1>1. PICK why \in {"exit", "died"} :
        /\ Gone(p, why)
        /\ \/ why = "exit" /\ server[p].pc = "closing" /\ faults' = faults
           \/ faults' \in 0..MaxFaults /\ faults' # 0
  BY <1>0, BoundsAssumption DEF Exit, Die, Typed
<1>2. /\ server' = [server EXCEPT ![p] = Down]
      /\ run' = [c \in Callers |-> IF c[1] = p THEN Idle ELSE run[c]]
      /\ mutex' = IF mutex # NoOne /\ mutex[1] = p THEN NoOne ELSE mutex
      /\ open' = open \union UNION {LeftOpen(c, why) : c \in {d \in Callers : d[1] = p}}
      /\ UNCHANGED <<lease, stops>>
  BY <1>1 DEF Gone
<1>3. Idle \in RunState /\ RowFits(Idle) /\ Clean(Idle)
  BY DEF Idle, RunState, RowFits, Clean
<1>4. /\ \A c \in Callers : run'[c] \in RunState /\ run'[c] \in {Idle, run[c]}
      /\ \A c \in Callers : c[1] # p => run'[c] = run[c]
      /\ \A c \in Callers : c[1] = p => run'[c] = Idle
  BY <1>0, <1>2, <1>3 DEF Typed
<1>5. open' \subseteq Kinds \X {"threw", "exit", "died"}
  <2>1. \A c \in Callers : LeftOpen(c, why) \subseteq Kinds \X {"threw", "exit", "died"}
    BY CallerParts DEF LeftOpen
  <2> QED
    BY <1>0, <1>2, <2>1 DEF Typed
<1>6. Typed'
  BY <1>0, <1>1, <1>2, <1>4, <1>5 DEF Typed
<1>7. RowsFit'
  BY <1>0, <1>3, <1>4 DEF RowsFit
<1>8. Flags'
  <2>1. server'[p] = Down /\ \A q \in Processes \ {p} : server'[q] = server[q]
    BY <1>0, <1>2 DEF Typed
  <2>2. /\ run'[<<p, "timer">>] = Idle
        /\ \A q \in Processes \ {p} : run'[<<q, "timer">>] = run[<<q, "timer">>]
    BY <1>4, CallerParts
  <2>3. server'[p].pc = "down" /\ server'[p].timer = FALSE /\ server'[p].running = FALSE
    BY <2>1 DEF Down
  <2> QED
    BY ZenonT(60), <1>0, <2>1, <2>2, <2>3 DEF Flags
<1>9. MutexIsUsed'
  BY <1>0, <1>2, <1>4 DEF MutexIsUsed, Typed
<1>10. CASE why = "exit" /\ server[p].pc = "closing" /\ faults' = faults
  <2>1. run[<<p, "timer">>] = Idle
    BY <1>0, <1>10 DEF Flags
  <2>2. \A c \in Callers : c[1] = p => LeftOpen(c, why) \subseteq {<<"request", "exit">>}
    <3> SUFFICES ASSUME NEW c \in Callers, c[1] = p
                 PROVE  LeftOpen(c, why) \subseteq {<<"request", "exit">>}
      OBVIOUS
    <3>1. CASE c[2] = "request"
      BY <1>10, <3>1 DEF LeftOpen
    <3>2. CASE c[2] = "timer"
      <4>1. run[c] = Idle
        BY <2>1, <3>2, CallerParts
      <4> QED
        BY <4>1 DEF LeftOpen, Idle
    <3> QED
      BY <3>1, <3>2, CallerParts DEF Kinds
  <2>3. OnRecord'
    BY <1>0, <1>2, <1>3, <1>4, <1>10, <2>2 DEF OnRecord
  <2>4. LeaseIsWorked'
    <3> SUFFICES ASSUME faults = 0, lease.left > 0, lease.owner[2] = "timer"
                 PROVE  run'[lease.owner] = run[lease.owner]
      BY <1>0, <1>2, <1>10 DEF LeaseIsWorked
    <3>1. lease.owner \in Callers /\ run[lease.owner].pc \in {"work", "release"}
      BY <1>0 DEF LeaseIsWorked
    <3>2. lease.owner[1] # p
      <4>1. SUFFICES ASSUME lease.owner[1] = p PROVE run[lease.owner] = Idle
        BY <3>1 DEF Idle
      <4> QED
        BY <2>1, <3>1, <4>1, CallerParts
    <3> QED
      BY <1>4, <3>1, <3>2
  <2> QED
    BY <1>6, <1>7, <1>8, <1>9, <2>3, <2>4 DEF IInv
<1>11. CASE faults' # 0
  <2>1. OnRecord' /\ LeaseIsWorked'
    BY <1>0, <1>2, <1>11 DEF OnRecord, LeaseIsWorked
  <2> QED
    BY <1>6, <1>7, <1>8, <1>9, <2>1 DEF IInv
<1> QED
  BY <1>1, <1>10, <1>11

-------------------------------------------------------------------------------
LEMMA InvariantStep == IInv /\ [Next]_vars => IInv'
<1> SUFFICES ASSUME IInv, [Next]_vars PROVE IInv'
  OBVIOUS
<1>1. CASE Tick
  BY <1>1, TickKeeps
<1>2. ASSUME NEW p \in Processes,
             \/ TimerFires(p) \/ RunNow(p)
             \/ Boot(p) \/ Shutdown(p) \/ CloseServer(p) \/ Exit(p) \/ Die(p)
      PROVE  IInv'
  BY <1>2, TimerKeeps, RunNowKeeps, ProcessKeeps, GoneKeeps
<1>3. ASSUME NEW c \in Callers,
             \/ Start(c) \/ TryAdvisoryXactLock(c) \/ ClaimLease(c) \/ Skip(c) \/ RenewLease(c)
             \/ Complete(c) \/ Fail(c) \/ ReleaseLease(c) \/ Settle(c) \/ Throw(c)
      PROVE  IInv'
  BY <1>3, RunStepKeeps, SettleKeeps, ThrowKeeps
<1>4. CASE UNCHANGED vars
  BY <1>4 DEF vars, IInv, Typed, RowsFit, Flags, MutexIsUsed, OnRecord, LeaseIsWorked
<1> QED
  BY <1>1, <1>2, <1>3, <1>4 DEF Next

\* The types, the flags of every process, the rows of the runs and the lease keep
\* fitting together, whatever throws, dies, stops or is restarted.
THEOREM Invariance == Spec => []IInv
<1> QED
  BY InvariantInit, InvariantStep, PTL DEF Spec

\* The variables have their types, and the timer of a process has a run exactly
\* while its overlap guard is set (scheduler.ts, running).
THEOREM TypeCorrect == Spec => []TypeOK
<1>1. IInv => TypeOK
  BY BoundsAssumption DEF IInv, Typed, Server, RunState, RowsFit, RowFits, Flags, MutexIsUsed, TypeOK
<1> QED
  BY <1>1, Invariance, PTL

\* While nothing throws and no process dies, stops cost no timer's run its outcome and
\* leave no lease held by a timer's run that is not at work: at most a Run now is cut
\* off by the exit (main.ts, shutdown).
THEOREM NothingIsLeftBehind == Spec => []StopsLeaveNothingBehind
<1>1. IInv => StopsLeaveNothingBehind
  BY DEF IInv, OnRecord, LeaseIsWorked, StopsLeaveNothingBehind
<1> QED
  BY <1>1, Invariance, PTL

===============================================================================
