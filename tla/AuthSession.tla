------------------------------ MODULE AuthSession ------------------------------
(***************************************************************************)
(* Login sessions as chains of refresh tokens (auth.service.ts).  A login  *)
(* issues the first token of a session; POST /auth/refresh turns one into  *)
(* its successor; logout and the reuse of a rotated token revoke what is   *)
(* live in the session.  Any number of these run at once.                  *)
(*                                                                         *)
(* A refresh reads the token outside its transaction; the transaction's    *)
(* conditional UPDATE takes the row lock and holds it until the successor  *)
(* is inserted and both commit.  An UPDATE works on the rows that matched  *)
(* when it started, waits for each that a transaction holds, and skips     *)
(* those that no longer match.  What a token's text is, and the access     *)
(* tokens, are left out.                                                   *)
(***************************************************************************)

CONSTANTS Tokens,     \* refresh token ids
          Sessions,   \* session ids
          Calls,      \* the requests the server has room for
          NoToken,    \* the null of replacedById
          NoSession   \* the session of a token not issued yet

ASSUME NullAssumption == NoToken \notin Tokens /\ NoSession \notin Sessions

VARIABLES token,      \* token[t]: table RefreshToken
          expired,    \* the tokens past their expiresAt
          call        \* call[r]: a request between two of its steps

sessionsVars == <<token, expired, call>>

Row == [state   : {"absent", "live", "revoked"},
        session : Sessions \union {NoSession},
        next    : Tokens \union {NoToken}]

Absent == [state |-> "absent", session |-> NoSession, next |-> NoToken]

NoCall == [pc |-> "none"]

Issued(t) == token[t].state # "absent"

IsLive(t) == token[t].state = "live"

LiveIn(s) == {t \in Tokens : IsLive(t) /\ token[t].session = s}

SessionsTypeOK ==
  /\ token \in [Tokens -> Row]
  /\ expired \subseteq Tokens
  /\ DOMAIN call = Calls
  /\ \A r \in Calls :
       \/ call[r] = NoCall
       \/ call[r].pc \in {"read", "marked", "lost", "expiring"} /\ call[r].on \in Tokens
       \/ /\ call[r].pc = "revoking"
          /\ call[r].session \in Sessions
          /\ call[r].targets \subseteq Tokens

SessionsInit ==
  /\ token = [t \in Tokens |-> Absent]
  /\ expired = {}
  /\ call = [r \in Calls |-> NoCall]

-------------------------------------------------------------------------------
(* login and register: issueSession.                                        *)

Issue(s) == [state |-> "live", session |-> s, next |-> NoToken]

Login ==
  \E t \in Tokens, s \in Sessions :
    /\ ~Issued(t)
    /\ \A u \in Tokens : token[u].session # s
    /\ token' = [token EXCEPT ![t] = Issue(s)]
    /\ UNCHANGED <<expired, call>>

\* Time passes a token's expiresAt.
Expire ==
  \E t \in Tokens \ expired :
    /\ IsLive(t)
    /\ expired' = expired \union {t}
    /\ UNCHANGED <<token, call>>

-------------------------------------------------------------------------------
(* Row locks.                                                               *)

\* The token whose row r's open transaction has updated.
HoldsToken(r) == IF call[r].pc = "marked" THEN {call[r].on} ELSE {}

HeldByOthers(r) == UNION {HoldsToken(q) : q \in Calls \ {r}}

Becomes(r, q) == call' = [call EXCEPT ![r] = q] /\ UNCHANGED <<token, expired>>

-------------------------------------------------------------------------------
(* refresh.                                                                 *)

\* The row was live and in time when it was read.
ReadLive(r) ==
  \E t \in Tokens \ expired :
    /\ call[r] = NoCall
    /\ IsLive(t)
    /\ Becomes(r, [pc |-> "read", on |-> t])

ReadExpired(r) ==
  \E t \in expired :
    /\ call[r] = NoCall
    /\ IsLive(t)
    /\ Becomes(r, [pc |-> "expiring", on |-> t])

\* revokeSession starts: the live tokens of the session as of now.
StartRevoke(r, s) == Becomes(r, [pc |-> "revoking", session |-> s, targets |-> LiveIn(s)])

\* The token was rotated or revoked before: reuse.  A revoked token stays
\* revoked, so the read may be taken together with the UPDATE it leads to.
ReadRevoked(r) ==
  \E t \in Tokens :
    /\ call[r] = NoCall
    /\ token[t].state = "revoked"
    /\ StartRevoke(r, token[t].session)

\* Mutant: rotation without `revokedAt: null' in its WHERE clause.
RotatesAny(t) == TRUE

\* markRefreshTokenRotated: WHERE id = ... AND revokedAt IS NULL.
Rotates(t) == IsLive(t)

Mark(r) ==
  /\ call[r].pc = "read"
  /\ call[r].on \notin HeldByOthers(r)
  /\ Rotates(call[r].on)
  /\ Becomes(r, [pc |-> "marked", on |-> call[r].on])

\* The UPDATE counts no row.
LoseRace(r) ==
  /\ call[r].pc = "read"
  /\ call[r].on \notin HeldByOthers(r)
  /\ ~Rotates(call[r].on)
  /\ Becomes(r, [pc |-> "lost", on |-> call[r].on])

\* revokeSession in the transaction, and the throw that rolls it back: once the
\* rows are free, the request ends and what it updated is as it was.
ThrowReuse(r) ==
  /\ call[r].pc = "lost"
  /\ LiveIn(token[call[r].on].session) \cap HeldByOthers(r) = {}
  /\ Becomes(r, NoCall)

\* Mutant: replacedById written to the successor's row.
RotatedLinkSwapped(t, new) ==
  [token EXCEPT ![t].state = "revoked",
                ![new] = [Issue(token[t].session) EXCEPT !.next = t]]

\* The presented token revoked and linked to its successor, which is live.
Rotated(t, new) ==
  [token EXCEPT ![t].state = "revoked", ![t].next = new,
                ![new] = Issue(token[t].session)]

\* createRefreshToken and the commit.
Rotate(r) ==
  \E new \in Tokens :
    /\ call[r].pc = "marked"
    /\ ~Issued(new)
    /\ token' = Rotated(call[r].on, new)
    /\ call' = [call EXCEPT ![r] = NoCall]
    /\ UNCHANGED expired

\* revokedAt set on those of `ts' where it still is null.
Revoked(ts) == [t \in Tokens |-> IF t \in ts /\ IsLive(t)
                                 THEN [token[t] EXCEPT !.state = "revoked"] ELSE token[t]]

\* revokeRefreshTokenById.
RevokeExpired(r) ==
  /\ call[r].pc = "expiring"
  /\ call[r].on \notin HeldByOthers(r)
  /\ token' = Revoked({call[r].on})
  /\ call' = [call EXCEPT ![r] = NoCall]
  /\ UNCHANGED expired

-------------------------------------------------------------------------------
(* logout, with a refresh token or with the session of an access token.     *)

\* Mutant: logout without the `if (row)'.
KnownOrNot(t) == TRUE

Known(t) == Issued(t)

Logout(r) ==
  /\ call[r] = NoCall
  /\ \E t \in Tokens : Known(t) /\ StartRevoke(r, token[t].session)

\* revokeSession ends, for reuse and for logout.
FinishRevoke(r) ==
  /\ call[r].pc = "revoking"
  /\ call[r].targets \cap HeldByOthers(r) = {}
  /\ token' = Revoked(call[r].targets)
  /\ call' = [call EXCEPT ![r] = NoCall]
  /\ UNCHANGED expired

\* The server or the connection dies: an open transaction rolls back.
LostCall(r) == call[r] # NoCall /\ Becomes(r, NoCall)

SessionsNext ==
  \/ Login
  \/ Expire
  \/ \E r \in Calls :
       \/ ReadLive(r) \/ ReadExpired(r) \/ ReadRevoked(r) \/ Mark(r) \/ LoseRace(r)
       \/ ThrowReuse(r) \/ Rotate(r) \/ RevokeExpired(r) \/ Logout(r) \/ FinishRevoke(r)
       \/ LostCall(r)

SessionsSpec == SessionsInit /\ [][SessionsNext]_sessionsVars

-------------------------------------------------------------------------------
(* Properties.                                                              *)

\* markRefreshTokenRotated leaves no window "for two concurrent refreshes to
\* both believe they won": a session never has two live tokens, whatever
\* refreshes, logouts and crashes overlap.
OneLivePerSession == \A s \in Sessions : \A t, u \in LiveIn(s) : t = u

\* A rotation is whole: a token's successor is a token of the same session, no
\* two tokens share one, and a token that has one is revoked.
ChainsUnbroken ==
  \A t \in Tokens : token[t].next # NoToken =>
    /\ token[t].state = "revoked"
    /\ Issued(token[t].next)
    /\ token[token[t].next].session = token[t].session
    /\ \A u \in Tokens \ {t} : token[u].next # token[t].next

\* While a rotation is under way nobody else revokes or rotates its token: the
\* successor it is about to insert continues a live chain.
MarkedStaysLive ==
  \A r \in Calls : call[r].pc = "marked" =>
    /\ IsLive(call[r].on)
    /\ \A q \in Calls \ {r} : call[q].pc = "marked" => call[q].on # call[r].on
===============================================================================
