------------------------- MODULE Notifications_proofs -------------------------
(***************************************************************************)
(* Theorems of Notifications, for any users, incidents, page size and      *)
(* number of runs.                                                         *)
(*                                                                         *)
(* Who is told: between its two reads of recipients and its commit a run   *)
(* has, for each severity, no fewer recipients than were entitled all      *)
(* along and no more than were entitled at some moment (Between); and an   *)
(* event is of the severity of the batch or a lower one, since a raise     *)
(* starts a cycle the INSERT does not accept (DueFits, EventsFit).         *)
(*                                                                         *)
(* What is answered: until something is written, the result a request has  *)
(* is what its query would still give, so that the other one agrees with   *)
(* it (ResultStands).                                                      *)
(***************************************************************************)
EXTENDS Notifications, FiniteSetTheorems, TLAPS

UserRow == [role : Roles, active : BOOLEAN, clearance : Clearances]

Item == [row : Row, severity : Severities]

WalkState ==
  [pc : {"asking"}, cursor : {NoCursor} \union {<<n>> : n \in Row}, actor : Clearances,
   held : Clearances, results : SUBSET {"page", "count"}, items : SUBSET Item,
   more : BOOLEAN, unread : Nat, torn : BOOLEAN]

Typed ==
  /\ user \in [Users -> UserRow]
  /\ incident \in [Incidents -> Clocked]
  /\ fired \subseteq Incidents \X Nat
  /\ log \subseteq Row /\ IsFiniteSet(log)
  /\ batches \in 0..MaxRuns /\ moves \in 0..MaxMoves
  /\ run \in Runs \union {NoRun}
  /\ tx \subseteq Event /\ IsFiniteSet(tx)
  /\ walk \in WalkState \union {NoWalk}

\* The rows have their events; no two are of one event, or of one batch and incident,
\* and one recipient.
LogFits ==
  /\ \A n \in log : <<n.on, n.cycle>> \in fired /\ n.createdAt <= batches
  /\ \A m, n \in log : m.to = n.to /\ m.on = n.on /\ m.cycle = n.cycle => m = n
  /\ \A m, n \in log : m.to = n.to /\ m.on = n.on /\ m.createdAt = n.createdAt => m = n

\* A due incident still has the severity of the batch, or a lower one, if it has the
\* same cycle and is in the band.
DueFits(d) ==
  /\ d.cycle <= incident[d.on].cycle
  /\ d.cycle = incident[d.on].cycle /\ InHighBand(incident[d.on].severity)
       => SeverityRank(incident[d.on].severity) <= SeverityRank(d.batch)

\* Each incident of a batch is due once, then fired once.
EventsFit ==
  /\ \A d \in run.due : DueFits(d)
  /\ \A d, e \in run.due : d.on = e.on => d = e
  /\ \A d \in run.due, e \in tx : d.on # e.on
  /\ \A e, f \in tx : e.on = f.on => e = f
  /\ \A e \in tx : /\ <<e.on, e.cycle>> \notin fired
                   /\ SeverityRank(e.severity) <= SeverityRank(e.batch)

\* The recipients lie between those entitled all along and those entitled at some moment.
Between ==
  /\ \A s \in BandSeverities :
       /\ run.always[s] \subseteq Entitled(s) /\ Entitled(s) \subseteq run.ever[s]
       /\ run.recipients[s] \subseteq run.ever[s]
       /\ run.pc # "critical" \/ s = "HIGH" => run.always[s] \subseteq run.recipients[s]
  /\ run.recipients.CRITICAL \subseteq run.ever.HIGH

RunFits ==
  /\ run = NoRun => tx = {}
  /\ run # NoRun => /\ EventsFit /\ Between
                    /\ run.pc \in {"critical", "scan"} => tx = {} /\ run.due = {} /\ batches < MaxRuns
                    /\ run.pc \in {"insert", "bump"} => \A n \in log : n.createdAt < batches

\* What the page query gives now.
Rest == {n \in OwnNotificationsWhere : PastCursor(n)}

FirstOf(S) == {n \in S : Cardinality({m \in S : Precedes(m, n)}) < PageSize}

Unread(items) == {n \in items : ~n.row.read}

ItemsFit ==
  /\ walk.actor <= walk.held
  /\ IsFiniteSet(walk.items) /\ Cardinality(walk.items) <= PageSize
  /\ \A n \in walk.items : n.row.to = Reader /\ CanViewSeverity(walk.actor, n.severity)

\* A result is what its query would still give, as long as nothing was written.
ResultStands ==
  /\ walk.results = {"page"} /\ ~walk.torn =>
       /\ walk.items = {ToNotificationItem(n) : n \in FirstOf(Rest)}
       /\ walk.more <=> FirstOf(Rest) # Rest
  /\ walk.results = {"count"} /\ ~walk.torn => walk.unread = CountUnread

Agreed ==
  walk.results = {"page", "count"} /\ ~walk.torn =>
    /\ Cardinality(Unread(walk.items)) <= walk.unread
    /\ walk.cursor = NoCursor /\ ~walk.more => Cardinality(Unread(walk.items)) = walk.unread

WalkFits == walk # NoWalk => ItemsFit /\ ResultStands /\ Agreed

IInv == Typed /\ LogFits /\ RunFits /\ WalkFits

-------------------------------------------------------------------------------
(* Severities, and who is entitled.                                         *)

LEMMA RankFacts ==
  /\ \A s \in Severities : SeverityRank(s) \in 1..4
  /\ \A s \in Severities : InHighBand(s) <=> s \in BandSeverities
  /\ SeverityRank("HIGH") = 3 /\ SeverityRank("CRITICAL") = 4
  /\ BandSeverities \subseteq Severities
<1>1. /\ SeverityRank("LOW") = 1 /\ SeverityRank("MEDIUM") = 2
      /\ SeverityRank("HIGH") = 3 /\ SeverityRank("CRITICAL") = 4
  BY DEF SeverityRank
<1> QED
  BY <1>1 DEF Severities, BandSeverities, InHighBand, HIGH_BAND_RANK

LEMMA UserParts ==
  ASSUME Typed, NEW u \in Users
  PROVE  /\ user[u] \in UserRow /\ user[u].role \in Roles /\ user[u].active \in BOOLEAN
         /\ user[u].clearance \in Clearances /\ user[u].clearance \in Int
<1>1. user[u] \in UserRow
  BY DEF Typed
<1>2. user[u].role \in Roles /\ user[u].active \in BOOLEAN
  BY <1>1 DEF UserRow
<1>3. user[u].clearance \in Clearances
  BY <1>1 DEF UserRow
<1>4. \A c \in Clearances : c \in Int
  BY NotificationsAssumption
<1>5. user[u].clearance \in Int
  BY <1>3, <1>4, Zenon
<1> QED
  BY <1>1, <1>2, <1>3, <1>5, Zenon

\* The query of the job finds who is entitled, and who is for CRITICAL is for HIGH.
LEMMA EntitledFacts ==
  ASSUME Typed
  PROVE  /\ \A s \in BandSeverities : RecipientsFor(s) = Entitled(s) /\ Entitled(s) \subseteq Users
         /\ Entitled("CRITICAL") \subseteq Entitled("HIGH")
<1>1. ASSUME NEW s \in BandSeverities, NEW u \in Users
      PROVE  u \in RecipientsFor(s) <=> u \in Entitled(s)
  <2>1. user[u].role \in Roles /\ user[u].clearance \in Int /\ SeverityRank(s) \in Int
    BY UserParts, RankFacts
  <2> QED
    BY <2>1 DEF RecipientsFor, Entitled, Roles, CanViewSeverity
<1>2. ASSUME NEW u \in Entitled("CRITICAL") PROVE u \in Entitled("HIGH")
  <2>1. u \in Users /\ user[u].clearance \in Int
    BY <1>2, UserParts DEF Entitled
  <2> QED
    BY <1>2, <2>1, RankFacts DEF Entitled, CanViewSeverity
<1>3. \A s \in BandSeverities : Entitled(s) \subseteq Users /\ RecipientsFor(s) \subseteq Users
  BY DEF Entitled, RecipientsFor
<1> QED
  BY <1>1, <1>2, <1>3

\* A run that is not idle has the fields of one, and goes by its pc.
LEMMA RunShape ==
  ASSUME Typed
  PROVE  /\ run # NoRun => run \in Runs
         /\ run.pc \in {"critical", "scan", "insert", "bump"} => run # NoRun
         /\ walk # NoWalk => walk \in WalkState /\ walk.pc = "asking"
         /\ walk.pc = "asking" => walk # NoWalk
  BY DEF Typed, NoRun, NoWalk, WalkState

-------------------------------------------------------------------------------
(* The order of the list, and its pages.                                    *)

Own == {n \in log : n.to = Reader}

LEMMA RowParts ==
  ASSUME Typed, NEW n \in log
  PROVE  n \in Row /\ n.createdAt \in Nat /\ n.on \in Nat /\ n.on \in Incidents /\ n.read \in BOOLEAN
  BY NotificationsAssumption DEF Typed, Row

\* The order is strict, and total on the rows of one recipient.
LEMMA OrderFacts ==
  ASSUME Typed, LogFits, NEW a \in Own, NEW b \in Own
  PROVE  /\ ~Precedes(a, a) /\ ~(Precedes(a, b) /\ Precedes(b, a))
         /\ a = b \/ Precedes(a, b) \/ Precedes(b, a)
         /\ \A c \in Own : Precedes(a, b) /\ Precedes(b, c) => Precedes(a, c)
<1>1. Own \subseteq log
  BY DEF Own
<1>2. a.createdAt \in Nat /\ b.createdAt \in Nat /\ a.on \in Nat /\ b.on \in Nat
  BY <1>1, RowParts
<1>3. a.on = b.on /\ a.createdAt = b.createdAt => a = b
  BY <1>1 DEF LogFits, Own
<1>4. ASSUME NEW c \in Own, Precedes(a, b), Precedes(b, c)
      PROVE  Precedes(a, c)
  <2>1. c.createdAt \in Nat /\ c.on \in Nat
    BY <1>1, RowParts
  <2> QED
    BY <1>2, <1>4, <2>1 DEF Precedes
<1> QED
  BY <1>2, <1>3, <1>4 DEF Precedes

\* A finite set of rows has a last one: what comes after it is smallest.
LEMMA LastExists ==
  ASSUME Typed, LogFits, NEW P, P \subseteq Own, IsFiniteSet(P), P # {}
  PROVE  \E a \in P : \A b \in P \ {a} : Precedes(b, a)
<1> DEFINE Later(a) == {b \in P : Precedes(a, b)}
           T == {Later(a) : a \in P}
<1>1. T \subseteq SUBSET P /\ T # {}
  OBVIOUS
<1>2. IsWellFoundedOn(StrictSubsetOrdering(P), SUBSET P)
  BY FS_StrictSubsetOrderingWellFounded, FS_FiniteSubsetsOfFinite
<1>3. PICK U \in T : \A V \in T : ~(<<V, U>> \in StrictSubsetOrdering(P))
  <2> HIDE DEF T
  <2> QED
    BY <1>1, <1>2, WFMin
<1>4. PICK a \in P : U = Later(a)
  BY <1>3
<1>5. ASSUME NEW b \in P, Precedes(a, b)
      PROVE  FALSE
  <2>1. Later(b) \subseteq U /\ b \in U /\ b \notin Later(b)
    <3>1. ~Precedes(b, b) /\ \A c \in P : Precedes(b, c) => Precedes(a, c)
      BY <1>5, OrderFacts
    <3> QED
      BY <1>4, <1>5, <3>1
  <2>2. Later(b) \in T /\ <<Later(b), U>> \in (SUBSET P) \X (SUBSET P)
    BY <1>1, <1>3
  <2> HIDE DEF Later
  <2>3. <<Later(b), U>> \in StrictSubsetOrdering(P)
    BY <2>1, <2>2 DEF StrictSubsetOrdering
  <2> QED
    BY <1>3, <2>2, <2>3
<1>6. \A b \in P \ {a} : Precedes(b, a)
  BY <1>5, OrderFacts
<1> QED
  BY <1>6

\* A page is no longer than asked for: all but the last of its rows precede that one.
LEMMA PageIsShort ==
  ASSUME Typed, LogFits, NEW S, S \subseteq Own
  PROVE  FirstOf(S) \subseteq S /\ IsFiniteSet(FirstOf(S)) /\ Cardinality(FirstOf(S)) <= PageSize
<1> DEFINE page == FirstOf(S)
           before(n) == {m \in S : Precedes(m, n)}
<1>1. PageSize \in Nat \ {0}
  BY NotificationsAssumption
<1>2. page \subseteq S /\ \A n \in page : Cardinality(before(n)) < PageSize
  BY DEF FirstOf
<1>3. IsFiniteSet(S)
  BY FS_Subset DEF Own, Typed
<1>4. IsFiniteSet(page) /\ Cardinality(page) \in Nat
  BY <1>2, <1>3, FS_Subset, FS_CardinalityType
<1>5. CASE page = {}
  BY <1>1, <1>2, <1>4, <1>5, FS_EmptySet
<1>6. CASE page # {}
  <2>1. PICK l \in page : \A b \in page \ {l} : Precedes(b, l)
    <3> HIDE DEF page
    <3> QED
      BY <1>2, <1>4, <1>6, LastExists
  <2>2. page \ {l} \subseteq before(l) /\ before(l) \subseteq S
    BY <1>2, <2>1
  <2>3. IsFiniteSet(before(l)) /\ Cardinality(before(l)) \in Nat
    BY <1>3, <2>2, FS_Subset, FS_CardinalityType
  <2>4. Cardinality(page \ {l}) = Cardinality(page) - 1
    BY <1>4, <2>1, FS_RemoveElement
  <2>5. Cardinality(page \ {l}) <= Cardinality(before(l))
    BY <2>2, <2>3, FS_Subset
  <2>6. Cardinality(before(l)) < PageSize
    BY <1>2, <2>1
  <2> HIDE DEF page, before
  <2>7. Cardinality(page) <= PageSize
    BY <1>1, <1>4, <2>3, <2>4, <2>5, <2>6
  <2> QED
    BY <1>2, <1>4, <2>7 DEF page
<1> QED
  BY <1>5, <1>6

-------------------------------------------------------------------------------
(* The initial states.                                                      *)

LEMMA InvariantInit == Init => IInv
<1> SUFFICES ASSUME Init PROVE IInv
  OBVIOUS
<1>1. user \in [Users -> UserRow]
  <2>1. [role : {"TRIAGE_MANAGER"}, active : {TRUE}, clearance : Clearances] \subseteq UserRow
    BY DEF UserRow, Roles
  <2> QED
    BY <2>1, Zenon DEF Init
<1>2. incident \in [Incidents -> Clocked]
  <2>1. \A s \in Reported :
          [severity |-> s, cycle |-> IF InHighBand(s) THEN 1 ELSE 0, acked |-> FALSE, closed |-> FALSE]
            \in Clocked
    <3> SUFFICES ASSUME NEW s \in Reported
                 PROVE  [severity |-> s, cycle |-> IF InHighBand(s) THEN 1 ELSE 0,
                         acked |-> FALSE, closed |-> FALSE] \in Clocked
      OBVIOUS
    <3>1. s \in Severities
      BY NotificationsAssumption
    <3> QED
      BY <3>1 DEF Clocked
  <2> QED
    BY <2>1 DEF Init
<1>3. /\ fired = {} /\ log = {} /\ batches = 0 /\ run = NoRun /\ tx = {} /\ walk = NoWalk /\ moves = 0
      /\ 0 \in 0..MaxRuns /\ 0 \in 0..MaxMoves
  BY NotificationsAssumption DEF Init
<1>4. Typed
  BY <1>1, <1>2, <1>3, FS_EmptySet DEF Typed
<1> QED
  BY <1>3, <1>4 DEF IInv, LogFits, RunFits, WalkFits

-------------------------------------------------------------------------------
(* What a step leaves alone.                                                *)

\* The walk is as good as it was when nothing it has read changes.
LEMMA WalkFrame ==
  ASSUME WalkFits, UNCHANGED <<log, incident, walk>>
  PROVE  WalkFits'
  BY ZenonT(60) DEF WalkFits, ItemsFit, ResultStands, Agreed, Unread, Rest, FirstOf, OwnNotificationsWhere,
         PastCursor, CountUnread, ToNotificationItem, Precedes

\* A write leaves the results a request has, and notes that they are no longer sure to
\* agree.
LEMMA WalkWritten ==
  ASSUME Typed, WalkFits, Written
  PROVE  walk' \in WalkState \union {NoWalk} /\ WalkFits'
<1>1. CASE walk.pc = "asking" /\ walk.results \in {{"page"}, {"count"}}
  <2>1. walk \in WalkState /\ walk # NoWalk
    BY <1>1, RunShape
  <2>2. walk' = [walk EXCEPT !.torn = TRUE]
    BY <1>1 DEF Written
  <2>3. walk' \in WalkState
    BY <2>1, <2>2 DEF WalkState
  <2>4. /\ walk'.actor = walk.actor /\ walk'.held = walk.held /\ walk'.items = walk.items
        /\ walk'.results = walk.results /\ walk'.torn
    BY <2>1, <2>2 DEF WalkState
  <2>5. ItemsFit'
    BY <2>1, <2>4 DEF WalkFits, ItemsFit
  <2>6. ResultStands' /\ Agreed'
    BY <2>4 DEF ResultStands, Agreed
  <2> QED
    BY <2>3, <2>5, <2>6 DEF WalkFits
<1>2. CASE ~(walk.pc = "asking" /\ walk.results \in {{"page"}, {"count"}})
  <2>1. walk' = walk
    BY <1>2 DEF Written
  <2>2. ASSUME walk # NoWalk
        PROVE  ItemsFit' /\ ResultStands' /\ Agreed'
    <3>1. walk.results # {"page"} /\ walk.results # {"count"}
      BY <1>2, <2>2, RunShape
    <3> QED
      BY <2>1, <2>2, <3>1 DEF WalkFits, ItemsFit, ResultStands, Agreed, Unread
  <2> QED
    BY <2>1, <2>2 DEF Typed, WalkFits
<1> QED
  BY <1>1, <1>2

\* The job and the log are as good as they were when nothing they look at changes.
LEMMA JobFrame ==
  ASSUME LogFits, RunFits, UNCHANGED <<user, incident, fired, log, batches, run, tx>>
  PROVE  LogFits' /\ RunFits'
<1>1. LogFits'
  BY DEF LogFits
<1>2. \A s : Entitled(s)' = Entitled(s)
  BY DEF Entitled
<1>3. RunFits'
  BY <1>2 DEF RunFits, EventsFit, DueFits, Between
<1> QED
  BY <1>1, <1>3

-------------------------------------------------------------------------------
(* The job.                                                                 *)

LEMMA ReadHighStep ==
  ASSUME IInv, ReadHigh
  PROVE  IInv'
<1> DEFINE r == [pc |-> "critical", recipients |-> [HIGH |-> RecipientsFor("HIGH"), CRITICAL |-> {}],
             due |-> {}, locked |-> {}, always |-> [s \in BandSeverities |-> Entitled(s)],
             ever |-> [s \in BandSeverities |-> Entitled(s)]]
<1>1. /\ run = NoRun /\ batches < MaxRuns /\ run' = r
      /\ UNCHANGED <<user, incident, fired, log, batches, tx, walk, moves>>
  BY DEF ReadHigh
<1>2. Typed /\ tx = {} /\ LogFits /\ WalkFits
  BY <1>1 DEF IInv, RunFits
<1>3. /\ \A s \in BandSeverities : RecipientsFor(s) = Entitled(s) /\ Entitled(s) \subseteq Users
      /\ BandSeverities = {"HIGH", "CRITICAL"} /\ "HIGH" # "CRITICAL"
  BY <1>2, EntitledFacts DEF BandSeverities
<1>4. /\ r.pc = "critical" /\ r.due = {} /\ r.locked = {}
      /\ r.recipients = [HIGH |-> RecipientsFor("HIGH"), CRITICAL |-> {}]
      /\ r.always = [s \in BandSeverities |-> Entitled(s)]
      /\ r.ever = [s \in BandSeverities |-> Entitled(s)]
  OBVIOUS
<1>5. /\ r.recipients \in [BandSeverities -> SUBSET Users]
      /\ r.recipients["HIGH"] = Entitled("HIGH") /\ r.recipients["CRITICAL"] = {}
  BY <1>3, <1>4
<1>6. /\ r.always \in [BandSeverities -> SUBSET Users] /\ r.ever \in [BandSeverities -> SUBSET Users]
      /\ \A s \in BandSeverities : r.always[s] = Entitled(s) /\ r.ever[s] = Entitled(s)
  BY <1>3, <1>4
<1>7. r \in Runs /\ r # NoRun
  BY <1>5, <1>6 DEF Runs, NoRun
<1>8. \A s : Entitled(s)' = Entitled(s)
  BY <1>1 DEF Entitled
<1> HIDE DEF r
<1>9. Typed'
  BY <1>1, <1>2, <1>7 DEF Typed
<1>10. LogFits'
  BY <1>1, <1>2 DEF LogFits
<1>11. RunFits'
  <2>1. EventsFit'
    BY <1>1, <1>2, <1>4 DEF EventsFit
  <2>2. Between'
    BY <1>1, <1>3, <1>4, <1>5, <1>6, <1>8 DEF Between
  <2> QED
    BY <1>1, <1>2, <1>4, <1>7, <2>1, <2>2 DEF RunFits
<1> QED
  BY <1>1, <1>2, <1>9, <1>10, <1>11, WalkFrame DEF IInv

LEMMA ReadCriticalStep ==
  ASSUME IInv, ReadCritical
  PROVE  IInv'
<1>1. /\ run.pc = "critical" /\ UNCHANGED <<user, incident, fired, log, batches, tx, walk, moves>>
      /\ run' = [run EXCEPT !.pc = "scan", !.recipients.CRITICAL = RecipientsFor("CRITICAL")]
  BY DEF ReadCritical
<1>2. Typed /\ run # NoRun /\ run \in Runs
  BY <1>1, RunShape DEF IInv
<1>3. LogFits /\ WalkFits /\ EventsFit /\ Between /\ tx = {} /\ run.due = {} /\ batches < MaxRuns
  BY <1>1, <1>2 DEF IInv, RunFits
<1>4. /\ RecipientsFor("CRITICAL") = Entitled("CRITICAL") /\ Entitled("CRITICAL") \subseteq Entitled("HIGH")
      /\ Entitled("CRITICAL") \subseteq Users
      /\ BandSeverities = {"HIGH", "CRITICAL"} /\ "HIGH" # "CRITICAL"
  BY <1>2, EntitledFacts DEF BandSeverities
<1>5. /\ run'.pc = "scan" /\ run'.due = run.due /\ run'.locked = run.locked
      /\ run'.always = run.always /\ run'.ever = run.ever
      /\ run'.recipients["CRITICAL"] = Entitled("CRITICAL") /\ run'.recipients["HIGH"] = run.recipients["HIGH"]
      /\ run' \in Runs
  <2> DEFINE reached == [run.recipients EXCEPT !["CRITICAL"] = Entitled("CRITICAL")]
  <2>1. run.recipients \in [BandSeverities -> SUBSET Users]
    BY <1>2 DEF Runs
  <2>2. /\ reached \in [BandSeverities -> SUBSET Users]
        /\ reached["CRITICAL"] = Entitled("CRITICAL") /\ reached["HIGH"] = run.recipients["HIGH"]
    BY <1>4, <2>1
  <2>3. run' = [run EXCEPT !.pc = "scan", !.recipients = reached]
    BY <1>1, <1>4
  <2> HIDE DEF reached
  <2>4. run' \in Runs
    BY <1>2, <2>2, <2>3 DEF Runs
  <2>5. /\ run'.pc = "scan" /\ run'.due = run.due /\ run'.locked = run.locked
        /\ run'.always = run.always /\ run'.ever = run.ever /\ run'.recipients = reached
    BY <1>2, <2>3 DEF Runs
  <2> QED
    BY <2>2, <2>4, <2>5
<1>6. run' # NoRun
  BY <1>5 DEF NoRun
<1>7. \A s : Entitled(s)' = Entitled(s)
  BY <1>1 DEF Entitled
<1>8. Typed'
  BY <1>1, <1>2, <1>5 DEF Typed
<1>9. LogFits'
  BY <1>1, <1>3 DEF LogFits
<1>10. EventsFit'
  BY <1>1, <1>3, <1>5 DEF EventsFit
<1>11. Between'
  <2>1. \A s \in BandSeverities :
          /\ run'.always[s] \subseteq Entitled(s) /\ Entitled(s) \subseteq run'.ever[s]
          /\ run'.recipients[s] \subseteq run'.ever[s] /\ run'.always[s] \subseteq run'.recipients[s]
    BY <1>1, <1>3, <1>4, <1>5 DEF Between
  <2>2. run'.recipients["CRITICAL"] \subseteq run'.ever["HIGH"]
    BY <1>3, <1>4, <1>5 DEF Between
  <2> QED
    BY <1>7, <2>1, <2>2 DEF Between
<1>12. RunFits'
  BY <1>1, <1>3, <1>5, <1>6, <1>10, <1>11 DEF RunFits
<1> QED
  BY <1>1, <1>3, <1>8, <1>9, <1>12, WalkFrame DEF IInv

\* Between does not look at what is due or written.
LEMMA BetweenFrame ==
  ASSUME Between, user' = user, run'.always = run.always, run'.ever = run.ever,
         run'.recipients = run.recipients, run.pc # "critical"
  PROVE  Between'
<1>1. \A s : Entitled(s)' = Entitled(s)
  BY DEF Entitled
<1> QED
  BY <1>1 DEF Between

LEMMA ReadBatchStep ==
  ASSUME IInv, ReadBatch
  PROVE  IInv'
<1>1. PICK D \in SUBSET Candidates :
        run' = [run EXCEPT !.pc = "insert",
                           !.due = {[on |-> i, cycle |-> incident[i].cycle,
                                     batch |-> incident[i].severity] : i \in D}]
  BY DEF ReadBatch
<1>2. run.pc = "scan" /\ batches' = batches + 1 /\ UNCHANGED <<user, incident, fired, log, tx, walk, moves>>
  BY DEF ReadBatch
<1>3. Typed /\ run # NoRun /\ run \in Runs
  BY <1>2, RunShape DEF IInv
<1>4. LogFits /\ WalkFits /\ Between /\ tx = {} /\ batches < MaxRuns /\ batches \in 0..MaxRuns
  BY <1>2, <1>3 DEF IInv, RunFits, Typed
<1> DEFINE due == {[on |-> i, cycle |-> incident[i].cycle, batch |-> incident[i].severity] : i \in D}
<1>5. ASSUME NEW i \in D
      PROVE  /\ i \in Incidents /\ incident[i] \in Clocked /\ InHighBand(incident[i].severity)
             /\ incident[i].severity \in BandSeverities /\ incident[i].cycle \in Nat
  <2>1. i \in Incidents /\ incident[i] \in Clocked /\ InHighBand(incident[i].severity)
    BY <1>3 DEF Candidates, Typed
  <2> QED
    BY <2>1, RankFacts DEF Clocked
<1>6. due \subseteq [on : Incidents, cycle : Nat, batch : BandSeverities]
  BY <1>5
<1>7. /\ run'.pc = "insert" /\ run'.due = due /\ run'.recipients = run.recipients
      /\ run'.always = run.always /\ run'.ever = run.ever
  BY <1>1, <1>3 DEF Runs
<1>8. run' \in Runs
  <2> HIDE DEF due
  <2>1. run' = [run EXCEPT !.pc = "insert", !.due = due]
    BY <1>1 DEF due
  <2> QED
    BY <1>3, <1>6, <2>1 DEF Runs
<1>9. run' # NoRun
  BY <1>7 DEF NoRun
<1>10. batches' \in 0..MaxRuns /\ MaxRuns \in Nat
  BY <1>2, <1>4, NotificationsAssumption
<1>11. Typed'
  BY <1>2, <1>3, <1>8, <1>10 DEF Typed
<1>12. \A n \in log : n.createdAt < batches' /\ n.createdAt <= batches'
  <2> SUFFICES ASSUME NEW n \in log PROVE n.createdAt < batches' /\ n.createdAt <= batches'
    OBVIOUS
  <2>1. n.createdAt <= batches /\ n.createdAt \in Nat
    BY <1>3, <1>4, RowParts DEF LogFits
  <2>2. batches \in Nat /\ batches' = batches + 1
    BY <1>2, <1>4, <1>10
  <2> QED
    BY <2>1, <2>2
<1>13. LogFits'
  BY <1>2, <1>4, <1>12 DEF LogFits
<1>14. EventsFit'
  <2>1. ASSUME NEW d \in due
        PROVE  DueFits(d)'
    <3>1. PICK i \in D : d = [on |-> i, cycle |-> incident[i].cycle, batch |-> incident[i].severity]
      BY <2>1
    <3>2. d.on = i /\ d.cycle = incident[i].cycle /\ d.batch = incident[i].severity
      BY <3>1
    <3>3. incident[i].severity \in Severities /\ incident[i].cycle \in Nat
      BY <1>5, RankFacts
    <3> QED
      BY <1>2, <3>2, <3>3, RankFacts DEF DueFits
  <2>2. \A d, e \in due : d.on = e.on => d = e
    OBVIOUS
  <2> HIDE DEF due
  <2> QED
    BY <1>2, <1>4, <1>7, <2>1, <2>2 DEF EventsFit
<1> HIDE DEF due
<1>15. Between'
  BY <1>2, <1>4, <1>7, BetweenFrame
<1>16. RunFits'
  BY <1>2, <1>4, <1>7, <1>9, <1>12, <1>14, <1>15 DEF RunFits
<1> QED
  BY SMTT(60), <1>2, <1>4, <1>11, <1>13, <1>16, WalkFrame DEF IInv

LEMMA InsertEventStep ==
  ASSUME IInv, InsertEvent
  PROVE  IInv'
<1>1. PICK d \in run.due :
        IF StillCandidate(d)
        THEN /\ run' = [run EXCEPT !.pc = "bump", !.due = @ \ {d}]
             /\ tx' = tx \union {[on |-> d.on, cycle |-> d.cycle, batch |-> d.batch,
                                  severity |-> incident[d.on].severity]}
        ELSE run' = [run EXCEPT !.due = @ \ {d}] /\ UNCHANGED tx
  BY DEF InsertEvent
<1>2. run.pc = "insert" /\ UNCHANGED <<user, incident, fired, log, batches, walk, moves>>
  BY DEF InsertEvent
<1>3. Typed /\ run # NoRun /\ run \in Runs
  BY <1>2, RunShape DEF IInv
<1>4. LogFits /\ WalkFits /\ EventsFit /\ Between /\ \A n \in log : n.createdAt < batches
  BY <1>2, <1>3 DEF IInv, RunFits
<1>5. /\ run'.pc \in {"insert", "bump"} /\ run'.due = run.due \ {d} /\ run'.recipients = run.recipients
      /\ run'.always = run.always /\ run'.ever = run.ever /\ run' \in Runs
  <2>1. \/ run' = [run EXCEPT !.pc = "bump", !.due = run.due \ {d}]
        \/ run' = [run EXCEPT !.due = run.due \ {d}]
    BY <1>1
  <2>2. run.due \ {d} \in SUBSET [on : Incidents, cycle : Nat, batch : BandSeverities]
    BY <1>3 DEF Runs
  <2> QED
    BY <1>2, <1>3, <2>1, <2>2 DEF Runs
<1>6. run' # NoRun
  BY <1>5 DEF NoRun
<1> DEFINE e == [on |-> d.on, cycle |-> d.cycle, batch |-> d.batch, severity |-> incident[d.on].severity]
<1>7. d \in [on : Incidents, cycle : Nat, batch : BandSeverities]
  BY <1>3 DEF Runs
<1>8. /\ d.on \in Incidents /\ d.cycle \in Nat /\ d.batch \in BandSeverities
      /\ incident[d.on] \in Clocked /\ incident[d.on].severity \in Severities
  BY <1>3, <1>7 DEF Typed, Clocked
<1>9. e.on = d.on /\ e.cycle = d.cycle /\ e.batch = d.batch /\ e.severity = incident[d.on].severity
  OBVIOUS
<1>10. ASSUME StillCandidate(d)
       PROVE  /\ e \in Event /\ <<e.on, e.cycle>> \notin fired
              /\ SeverityRank(e.severity) <= SeverityRank(e.batch)
  <2>1. /\ InHighBand(incident[d.on].severity) /\ incident[d.on].cycle = d.cycle /\ <<d.on, d.cycle>> \notin fired
    BY <1>10 DEF StillCandidate, Candidates
  <2>2. incident[d.on].severity \in BandSeverities
    BY <1>8, <2>1, RankFacts
  <2>3. DueFits(d)
    BY <1>4 DEF EventsFit
  <2> QED
    BY <1>8, <1>9, <2>1, <2>2, <2>3 DEF Event, DueFits
<1>11. tx' = tx \/ (StillCandidate(d) /\ tx' = tx \union {e})
  BY <1>1
<1> HIDE DEF e
<1>12. Typed'
  <2>1. tx' \subseteq Event /\ IsFiniteSet(tx')
    BY <1>3, <1>10, <1>11, FS_AddElement DEF Typed
  <2> QED
    BY <1>2, <1>3, <1>5, <2>1 DEF Typed
<1>13. LogFits'
  BY <1>2, <1>4 DEF LogFits
<1>14. EventsFit'
  <2>1. \A f \in run'.due : DueFits(f)'
    BY <1>2, <1>4, <1>5 DEF EventsFit, DueFits
  <2>2. \A f, g \in run'.due : f.on = g.on => f = g
    BY <1>4, <1>5 DEF EventsFit
  <2>3. \A f \in run'.due : f.on # e.on
    BY <1>4, <1>5, <1>9 DEF EventsFit
  <2>4. \A f \in tx : f.on # e.on
    BY <1>4, <1>9 DEF EventsFit
  <2>5. \A f \in run'.due, g \in tx' : f.on # g.on
    BY <1>4, <1>5, <1>11, <2>3 DEF EventsFit
  <2>6. \A f, g \in tx' : f.on = g.on => f = g
    BY <1>4, <1>11, <2>4 DEF EventsFit
  <2>7. \A f \in tx' : <<f.on, f.cycle>> \notin fired' /\ SeverityRank(f.severity) <= SeverityRank(f.batch)
    BY <1>2, <1>4, <1>10, <1>11 DEF EventsFit
  <2> QED
    BY <2>1, <2>2, <2>5, <2>6, <2>7 DEF EventsFit
<1>15. Between'
  BY <1>2, <1>4, <1>5, BetweenFrame
<1>16. RunFits'
  BY <1>2, <1>4, <1>5, <1>6, <1>14, <1>15 DEF RunFits
<1> QED
  BY <1>2, <1>4, <1>12, <1>13, <1>16, WalkFrame DEF IInv

LEMMA BumpLevelStep ==
  ASSUME IInv, BumpLevel
  PROVE  IInv'
<1>1. /\ run.pc = "bump" /\ run' = [run EXCEPT !.pc = "insert", !.locked = {e.on : e \in tx}]
      /\ UNCHANGED <<user, incident, fired, log, batches, tx, walk, moves>>
  BY DEF BumpLevel
<1>2. Typed /\ run # NoRun /\ run \in Runs
  BY <1>1, RunShape DEF IInv
<1>3. LogFits /\ WalkFits /\ EventsFit /\ Between /\ \A n \in log : n.createdAt < batches
  BY <1>1, <1>2 DEF IInv, RunFits
<1>4. {e.on : e \in tx} \subseteq Incidents
  BY <1>2 DEF Typed, Event
<1>5. /\ run'.pc = "insert" /\ run'.due = run.due /\ run'.recipients = run.recipients
      /\ run'.always = run.always /\ run'.ever = run.ever /\ run' \in Runs
  BY <1>1, <1>2, <1>4 DEF Runs
<1>6. run' # NoRun
  BY <1>5 DEF NoRun
<1>7. Typed'
  BY <1>1, <1>2, <1>5 DEF Typed
<1>8. LogFits'
  BY <1>1, <1>3 DEF LogFits
<1>9. EventsFit'
  BY <1>1, <1>3, <1>5 DEF EventsFit, DueFits
<1>10. Between'
  BY <1>1, <1>3, <1>5, BetweenFrame
<1>11. RunFits'
  BY <1>1, <1>3, <1>5, <1>6, <1>9, <1>10 DEF RunFits
<1> QED
  BY <1>1, <1>3, <1>7, <1>8, <1>11, WalkFrame DEF IInv

LEMMA FailRunStep ==
  ASSUME IInv, FailRun
  PROVE  IInv'
<1>1. tx' = {} /\ run' = NoRun /\ UNCHANGED <<user, incident, fired, log, batches, walk, moves>>
  BY DEF FailRun
<1>2. Typed' /\ LogFits'
  BY <1>1, FS_EmptySet DEF IInv, Typed, LogFits
<1> QED
  BY <1>1, <1>2, WalkFrame DEF IInv, RunFits

\* What a commit adds to the log.
LEMMA CommitRows ==
  ASSUME IInv, CommitBatch
  PROVE  /\ Typed /\ run \in Runs /\ run # NoRun /\ LogFits /\ EventsFit /\ Between
         /\ \A n \in log : n.createdAt < batches
         /\ \A e \in tx : e \in Event /\ run.recipients[e.batch] \subseteq Users
         /\ \A n : n \in UNION {NotificationsOf(e) : e \in tx} <=>
              \E e \in tx : \E u \in run.recipients[e.batch] :
                n = [on |-> e.on, cycle |-> e.cycle, to |-> u, createdAt |-> batches, read |-> FALSE]
<1>1. run.pc = "insert"
  BY DEF CommitBatch
<1>2. Typed /\ run # NoRun /\ run \in Runs
  BY <1>1, RunShape DEF IInv
<1>3. LogFits /\ EventsFit /\ Between /\ \A n \in log : n.createdAt < batches
  BY <1>1, <1>2 DEF IInv, RunFits
<1>4. \A e \in tx : e \in Event /\ run.recipients[e.batch] \subseteq Users
  BY <1>2 DEF Typed, Event, Runs
<1>5. \A n : n \in UNION {NotificationsOf(e) : e \in tx} <=>
        \E e \in tx : \E u \in run.recipients[e.batch] :
          n = [on |-> e.on, cycle |-> e.cycle, to |-> u, createdAt |-> batches, read |-> FALSE]
  BY DEF NotificationsOf
<1> QED
  BY <1>2, <1>3, <1>4, <1>5

\* The rows of an event are finitely many, and so are those of a batch.
LEMMA CommitFinite ==
  ASSUME IInv, CommitBatch
  PROVE  IsFiniteSet(UNION {NotificationsOf(e) : e \in tx})
<1>1. ASSUME NEW e \in tx PROVE IsFiniteSet(NotificationsOf(e))
  <2> DEFINE row(u) == [on |-> e.on, cycle |-> e.cycle, to |-> u, createdAt |-> batches, read |-> FALSE]
             f == [u \in run.recipients[e.batch] |-> row(u)]
  <2>1. IsFiniteSet(run.recipients[e.batch])
    BY CommitRows, NotificationsAssumption, FS_Subset
  <2>2. f \in Surjection(run.recipients[e.batch], NotificationsOf(e))
    BY DEF Surjection, NotificationsOf
  <2> QED
    BY <2>1, <2>2, FS_Surjection
<1> DEFINE T == {NotificationsOf(e) : e \in tx}
           g == [e \in tx |-> NotificationsOf(e)]
<1>2. IsFiniteSet(tx)
  BY CommitRows DEF Typed
<1>3. g \in Surjection(tx, T)
  BY DEF Surjection
<1>4. IsFiniteSet(T)
  BY <1>2, <1>3, FS_Surjection
<1>5. \A S \in T : IsFiniteSet(S)
  BY <1>1
<1> QED
  BY <1>4, <1>5, FS_UNION

LEMMA CommitBatchStep ==
  ASSUME IInv, CommitBatch
  PROVE  IInv'
<1> DEFINE new == UNION {NotificationsOf(e) : e \in tx}
           keys == {<<e.on, e.cycle>> : e \in tx}
<1>1. /\ fired' = fired \union keys /\ log' = log \union new /\ tx' = {} /\ run' = NoRun
      /\ Written /\ UNCHANGED <<user, incident, batches, moves>>
  BY DEF CommitBatch
<1>2. /\ Typed /\ LogFits /\ EventsFit /\ \A n \in log : n.createdAt < batches
      /\ \A e \in tx : e \in Event /\ run.recipients[e.batch] \subseteq Users
      /\ batches \in Nat /\ WalkFits
  BY CommitRows, NotificationsAssumption DEF IInv, Typed
<1>3. ASSUME NEW n \in new
      PROVE  /\ n \in Row /\ n.createdAt = batches
             /\ \E e \in tx : n.on = e.on /\ n.cycle = e.cycle /\ n.read = FALSE
  <2>1. PICK e \in tx : \E u \in run.recipients[e.batch] :
          n = [on |-> e.on, cycle |-> e.cycle, to |-> u, createdAt |-> batches, read |-> FALSE]
    BY CommitRows
  <2>2. PICK u \in run.recipients[e.batch] :
          n = [on |-> e.on, cycle |-> e.cycle, to |-> u, createdAt |-> batches, read |-> FALSE]
    BY <2>1
  <2>3. e.on \in Incidents /\ e.cycle \in Nat /\ u \in Users
    BY <1>2, <2>2 DEF Event
  <2> QED
    BY <1>2, <2>2, <2>3 DEF Row
<1>4. \A k : k \in keys <=> \E e \in tx : k = <<e.on, e.cycle>>
  OBVIOUS
<1>5. IsFiniteSet(log')
  BY <1>1, <1>2, CommitFinite, FS_Union DEF Typed
<1>6. keys \subseteq Incidents \X Nat
  BY <1>2 DEF Event
<1>7. \A m, n \in new : m.to = n.to /\ m.on = n.on => m = n
  <2> SUFFICES ASSUME NEW m \in new, NEW n \in new, m.to = n.to, m.on = n.on PROVE m = n
    OBVIOUS
  <2>1. PICK e \in tx : \E u \in run.recipients[e.batch] :
          m = [on |-> e.on, cycle |-> e.cycle, to |-> u, createdAt |-> batches, read |-> FALSE]
    BY CommitRows
  <2>2. PICK f \in tx : \E v \in run.recipients[f.batch] :
          n = [on |-> f.on, cycle |-> f.cycle, to |-> v, createdAt |-> batches, read |-> FALSE]
    BY CommitRows
  <2>3. m.on = e.on /\ n.on = f.on
    BY <2>1, <2>2
  <2>4. e = f
    BY <1>2, <2>3 DEF EventsFit
  <2> QED
    BY <2>1, <2>2, <2>4
<1> HIDE DEF new, keys
<1>8. walk' \in WalkState \union {NoWalk} /\ WalkFits'
  BY <1>1, <1>2, WalkWritten
<1>9. Typed'
  BY <1>1, <1>2, <1>3, <1>5, <1>6, <1>8, FS_EmptySet DEF Typed
<1>10. LogFits'
  <2>1. ASSUME NEW n \in new PROVE <<n.on, n.cycle>> \in fired' /\ n.createdAt <= batches
    <3>1. PICK e \in tx : n.on = e.on /\ n.cycle = e.cycle
      BY <1>3
    <3>2. <<n.on, n.cycle>> \in keys
      BY <1>4, <3>1
    <3>3. n.createdAt = batches
      BY <1>3
    <3>4. batches <= batches
      BY <1>2 DEF Typed
    <3> QED
      BY <1>1, <3>2, <3>3, <3>4
  <2>2. \A n \in log : <<n.on, n.cycle>> \in fired /\ n.createdAt <= batches
    BY <1>2 DEF LogFits
  <2>3. ASSUME NEW m \in log, NEW n \in new, m.on = n.on, m.cycle = n.cycle PROVE FALSE
    <3>1. PICK e \in tx : n.on = e.on /\ n.cycle = e.cycle
      BY <1>3
    <3>2. <<e.on, e.cycle>> \in fired
      BY <2>2, <2>3, <3>1
    <3> QED
      BY <1>2, <3>2 DEF EventsFit
  <2>4. \A m \in log, n \in new : m.createdAt # n.createdAt
    <3> SUFFICES ASSUME NEW m \in log, NEW n \in new PROVE m.createdAt # n.createdAt
      OBVIOUS
    <3>1. m.createdAt \in Nat /\ m.createdAt < batches /\ n.createdAt = batches
      BY <1>2, <1>3, RowParts
    <3> QED
      BY <1>2, <3>1
  <2>5. \A m, n \in log' : m.to = n.to /\ m.on = n.on /\ m.cycle = n.cycle => m = n
    BY <1>1, <1>2, <1>7, <2>3 DEF LogFits
  <2>6. \A m, n \in log' : m.to = n.to /\ m.on = n.on /\ m.createdAt = n.createdAt => m = n
    BY <1>1, <1>2, <1>7, <2>4 DEF LogFits
  <2> QED
    BY <1>1, <2>1, <2>2, <2>5, <2>6 DEF LogFits
<1>11. RunFits'
  BY <1>1 DEF RunFits
<1> QED
  BY <1>8, <1>9, <1>10, <1>11 DEF IInv

-------------------------------------------------------------------------------
(* What happens meanwhile.                                                  *)

LEMMA PatchUserStep ==
  ASSUME IInv, NEW u \in Users,
         NEW new \in [role : GivenRoles, active : BOOLEAN, clearance : Clearances], PatchUser(u, new)
  PROVE  IInv'
<1>1. /\ moves < MaxMoves /\ moves' = moves + 1 /\ user' = [user EXCEPT ![u] = new]
      /\ UNCHANGED <<incident, fired, log, batches, tx>>
  BY DEF PatchUser
<1>2. /\ run = NoRun => run' = NoRun
      /\ run # NoRun =>
           run' = [run EXCEPT !.always = [s \in BandSeverities |-> run.always[s] \intersect Entitled(s)'],
                              !.ever   = [s \in BandSeverities |-> run.ever[s] \union Entitled(s)']]
  BY DEF PatchUser
<1>3. Typed /\ LogFits /\ RunFits /\ WalkFits
  BY DEF IInv
<1>4. new \in UserRow
  BY NotificationsAssumption DEF UserRow, Roles
<1>5. user' \in [Users -> UserRow]
  BY <1>1, <1>3, <1>4 DEF Typed
<1>6. \A s : Entitled(s)' \subseteq Users
  BY DEF Entitled
<1>7. ASSUME run # NoRun
      PROVE  /\ run \in Runs /\ run' \in Runs
             /\ run'.pc = run.pc /\ run'.due = run.due /\ run'.recipients = run.recipients
             /\ \A s \in BandSeverities : /\ run'.always[s] = run.always[s] \intersect Entitled(s)'
                                          /\ run'.ever[s] = run.ever[s] \union Entitled(s)'
  <2>1. run \in Runs
    BY <1>3, <1>7, RunShape
  <2> DEFINE always == [s \in BandSeverities |-> run.always[s] \intersect Entitled(s)']
             ever == [s \in BandSeverities |-> run.ever[s] \union Entitled(s)']
  <2>2. always \in [BandSeverities -> SUBSET Users] /\ ever \in [BandSeverities -> SUBSET Users]
    BY <1>6, <2>1 DEF Runs
  <2>3. run' = [run EXCEPT !.always = always, !.ever = ever]
    BY <1>2, <1>7
  <2>4. /\ \A s \in BandSeverities : always[s] = run.always[s] \intersect Entitled(s)'
        /\ \A s \in BandSeverities : ever[s] = run.ever[s] \union Entitled(s)'
    OBVIOUS
  <2> HIDE DEF always, ever
  <2> QED
    BY <2>1, <2>2, <2>3, <2>4 DEF Runs
<1>8. walk' \in WalkState \union {NoWalk} /\ WalkFits'
  <2>1. CASE walk' = walk
    BY <1>1, <1>3, <2>1, WalkFrame DEF Typed
  <2>2. CASE walk # NoWalk /\ new.clearance > walk.held /\ walk' = [walk EXCEPT !.held = new.clearance]
    <3>1. walk \in WalkState
      BY <1>3, <2>2, RunShape
    <3>2. new.clearance \in Clearances
      OBVIOUS
    <3>3. /\ walk' \in WalkState /\ walk'.actor = walk.actor /\ walk'.held = new.clearance
          /\ walk'.items = walk.items /\ walk'.results = walk.results /\ walk'.torn = walk.torn
          /\ walk'.more = walk.more /\ walk'.unread = walk.unread /\ walk'.cursor = walk.cursor
      BY <2>2, <3>1, <3>2 DEF WalkState
    <3>4. walk'.actor <= walk'.held
      <4>1. \A c \in Clearances : c \in Int
        BY NotificationsAssumption
      <4>2. walk.actor \in Int /\ walk.held \in Int /\ new.clearance \in Int
        BY <3>1, <3>2, <4>1 DEF WalkState
      <4>3. walk.actor <= walk.held
        BY <1>3, <2>2 DEF WalkFits, ItemsFit
      <4> QED
        BY <2>2, <3>3, <4>2, <4>3
    <3>5. ItemsFit'
      BY <1>3, <2>2, <3>3, <3>4 DEF WalkFits, ItemsFit
    <3>6. ResultStands'
      <4>1. OwnNotificationsWhere' = OwnNotificationsWhere
        BY <1>1, <3>3 DEF OwnNotificationsWhere
      <4>2. \A n : PastCursor(n)' = PastCursor(n)
        BY <3>3 DEF PastCursor, Precedes
      <4>3. Rest' = Rest /\ CountUnread' = CountUnread
        BY <4>1, <4>2 DEF Rest, CountUnread
      <4>4. FirstOf(Rest)' = FirstOf(Rest)
        BY <4>3 DEF FirstOf, Precedes
      <4>5. {ToNotificationItem(n) : n \in FirstOf(Rest)}' = {ToNotificationItem(n) : n \in FirstOf(Rest)}
        BY <1>1, <4>4 DEF ToNotificationItem
      <4>6. ResultStands
        BY <1>3, <2>2 DEF WalkFits
      <4> QED
        BY <3>3, <4>3, <4>4, <4>5, <4>6 DEF ResultStands
    <3>7. Agreed'
      BY <1>3, <2>2, <3>3 DEF WalkFits, Agreed, Unread
    <3> QED
      BY <3>3, <3>5, <3>6, <3>7 DEF WalkFits
  <2> QED
    BY <2>1, <2>2 DEF PatchUser
<1>9. moves' \in 0..MaxMoves
  BY <1>1, <1>3, NotificationsAssumption DEF Typed
<1>10. Typed'
  BY <1>1, <1>2, <1>3, <1>5, <1>7, <1>8, <1>9 DEF Typed
<1>11. LogFits'
  BY <1>1, <1>3 DEF LogFits
<1>12. RunFits'
  <2>1. CASE run = NoRun
    BY <1>1, <1>2, <1>3, <2>1 DEF RunFits
  <2>2. CASE run # NoRun
    <3>1. EventsFit'
      BY <1>1, <1>3, <1>7, <2>2 DEF RunFits, EventsFit, DueFits
    <3>2. /\ Between /\ "CRITICAL" \in BandSeverities /\ "HIGH" \in BandSeverities
      BY <1>3, <2>2 DEF RunFits, BandSeverities
    <3>3. Between'
      BY <1>7, <2>2, <3>2 DEF Between
    <3>4. run' # NoRun
      BY <1>7, <2>2 DEF Runs, NoRun
    <3> QED
      BY <1>1, <1>3, <1>7, <2>2, <3>1, <3>3, <3>4 DEF RunFits
  <2> QED
    BY <2>1, <2>2
<1> QED
  BY <1>8, <1>10, <1>11, <1>12 DEF IInv

\* What a regrading makes of the clock, by the rule of applySeverityChange.
LEMMA RegradeFacts ==
  ASSUME NEW r \in Clocked, NEW s \in Severities
  PROVE  LET clock == ApplySeverityChange([severity |-> r.severity, since |-> 0, level |-> 0,
                                           cycle |-> r.cycle, acked |-> r.acked], s, 0)
         IN  /\ clock.cycle \in Nat /\ clock.acked \in BOOLEAN /\ clock.cycle >= r.cycle
             /\ clock.cycle = r.cycle /\ InHighBand(s) =>
                  InHighBand(r.severity) /\ SeverityRank(s) <= SeverityRank(r.severity)
<1> DEFINE seen == [severity |-> r.severity, since |-> 0, level |-> 0, cycle |-> r.cycle, acked |-> r.acked]
           clock == ApplySeverityChange(seen, s, 0)
<1>1. /\ seen.severity = r.severity /\ seen.cycle = r.cycle /\ seen.acked = r.acked
      /\ r.severity \in Severities /\ r.cycle \in Nat
  BY DEF Clocked
<1>2. r.acked \in BOOLEAN
  BY DEF Clocked
<1> HIDE DEF seen
<1>3. clock.acked = (ClockRule(r.severity, s) # "restart" /\ r.acked)
  BY <1>1 DEF ApplySeverityChange
<1>4. clock.cycle = IF ClockRule(r.severity, s) = "restart" THEN r.cycle + 1 ELSE r.cycle
  BY <1>1 DEF ApplySeverityChange
<1> HIDE DEF clock
<1>5. clock.acked \in BOOLEAN
  BY <1>2, <1>3
<1>6. clock.cycle \in Nat /\ clock.cycle >= r.cycle
  BY <1>1, <1>4
<1>7. ASSUME clock.cycle = r.cycle, InHighBand(s)
      PROVE  InHighBand(r.severity) /\ SeverityRank(s) <= SeverityRank(r.severity)
  <2>1. ClockRule(r.severity, s) # "restart"
    BY <1>1, <1>4, <1>7
  <2>2. SeverityRank(s) \in Int /\ SeverityRank(r.severity) \in Int
    BY <1>1, RankFacts
  <2> QED
    BY <1>7, <2>1, <2>2 DEF ClockRule
<1>8. /\ clock.cycle \in Nat /\ clock.acked \in BOOLEAN /\ clock.cycle >= r.cycle
      /\ clock.cycle = r.cycle /\ InHighBand(s) =>
           InHighBand(r.severity) /\ SeverityRank(s) <= SeverityRank(r.severity)
  BY <1>5, <1>6, <1>7
<1> QED
  BY <1>8 DEF clock, seen

\* A write of an incident that keeps the cycle only with a severity that is not higher.
LEMMA WriteStep ==
  ASSUME IInv, NEW i \in Incidents, NEW new \in Clocked, Write(i, new),
         new.cycle >= incident[i].cycle,
         new.cycle = incident[i].cycle /\ InHighBand(new.severity) =>
           InHighBand(incident[i].severity)
             /\ SeverityRank(new.severity) <= SeverityRank(incident[i].severity)
  PROVE  IInv'
<1>1. /\ moves < MaxMoves /\ moves' = moves + 1 /\ incident' = [incident EXCEPT ![i] = new]
      /\ Written /\ UNCHANGED <<user, fired, log, batches, run, tx>>
  BY DEF Write
<1>2. Typed /\ LogFits /\ RunFits /\ WalkFits
  BY DEF IInv
<1>3. walk' \in WalkState \union {NoWalk} /\ WalkFits'
  BY <1>1, <1>2, WalkWritten
<1>4. moves' \in 0..MaxMoves
  BY <1>1, <1>2, NotificationsAssumption DEF Typed
<1>5. Typed'
  BY <1>1, <1>2, <1>3, <1>4 DEF Typed
<1>6. LogFits'
  BY <1>1, <1>2 DEF LogFits
<1>7. ASSUME NEW d, d \in run.due, run # NoRun
      PROVE  DueFits(d)'
  <2>1. DueFits(d)
    BY <1>2, <1>7 DEF RunFits, EventsFit
  <2>2. run \in Runs
    BY <1>2, <1>7, RunShape
  <2>3. d.on \in Incidents /\ d.cycle \in Nat /\ d.batch \in Severities
    BY <1>7, <2>2, RankFacts DEF Runs
  <2>4. CASE d.on = i
    <3>1. incident'[d.on] = new /\ incident[i] \in Clocked
      BY <1>1, <1>2, <2>4 DEF Typed
    <3>2. /\ new.cycle \in Nat /\ incident[i].cycle \in Nat /\ d.cycle \in Nat
          /\ SeverityRank(new.severity) \in Int /\ SeverityRank(incident[i].severity) \in Int
          /\ SeverityRank(d.batch) \in Int
      BY <2>3, <3>1, RankFacts DEF Clocked
    <3>3. d.cycle <= new.cycle
      BY <2>1, <2>4, <3>2 DEF DueFits
    <3>4. ASSUME d.cycle = new.cycle, InHighBand(new.severity)
          PROVE  SeverityRank(new.severity) <= SeverityRank(d.batch)
      <4>1. d.cycle = incident[i].cycle
        BY <2>1, <2>4, <3>2, <3>4 DEF DueFits
      <4> QED
        BY <2>1, <2>4, <3>2, <3>4, <4>1 DEF DueFits
    <3> QED
      BY <3>1, <3>3, <3>4 DEF DueFits
  <2>5. CASE d.on # i
    <3>1. incident'[d.on] = incident[d.on]
      BY <1>1, <1>2, <2>3, <2>5 DEF Typed
    <3> QED
      BY <2>1, <3>1 DEF DueFits
  <2> QED
    BY <2>4, <2>5
<1>8. RunFits'
  <2>1. \A s : Entitled(s)' = Entitled(s)
    BY <1>1 DEF Entitled
  <2>2. run # NoRun => EventsFit'
    BY <1>1, <1>2, <1>7 DEF RunFits, EventsFit
  <2>3. run # NoRun => Between'
    BY <1>1, <1>2, <2>1 DEF RunFits, Between
  <2> QED
    BY <1>1, <1>2, <2>2, <2>3 DEF RunFits
<1> QED
  BY <1>3, <1>5, <1>6, <1>8 DEF IInv

LEMMA IncidentStep ==
  ASSUME IInv, NEW i \in Incidents,
         (\E s \in SeverityInputs : ChangeSeverity(i, s)) \/ Acknowledge(i) \/ Close(i)
  PROVE  IInv'
<1>1. incident[i] \in Clocked
  BY DEF IInv, Typed
<1>2. /\ incident[i].severity \in Severities /\ incident[i].cycle \in Nat
      /\ SeverityRank(incident[i].severity) \in Int
  BY <1>1, RankFacts DEF Clocked
<1>3. ASSUME NEW s \in SeverityInputs, ChangeSeverity(i, s)
      PROVE  IInv'
  <2> DEFINE clock == ApplySeverityChange([severity |-> incident[i].severity, since |-> 0, level |-> 0,
                                           cycle |-> incident[i].cycle, acked |-> incident[i].acked], s, 0)
             new == [incident[i] EXCEPT !.severity = s, !.cycle = clock.cycle, !.acked = clock.acked]
  <2>1. Write(i, new)
    BY <1>3 DEF ChangeSeverity
  <2>2. s \in Severities
    BY NotificationsAssumption
  <2>3. /\ clock.cycle \in Nat /\ clock.acked \in BOOLEAN /\ clock.cycle >= incident[i].cycle
        /\ clock.cycle = incident[i].cycle /\ InHighBand(s) =>
             InHighBand(incident[i].severity) /\ SeverityRank(s) <= SeverityRank(incident[i].severity)
    BY <1>1, <2>2, RegradeFacts
  <2> HIDE DEF clock
  <2>4. new \in Clocked /\ new.severity = s /\ new.cycle = clock.cycle
    BY <1>1, <2>2, <2>3 DEF Clocked
  <2> HIDE DEF new
  <2> QED
    BY SMTT(60), <2>1, <2>3, <2>4, WriteStep
<1>4. CASE Acknowledge(i)
  <2> DEFINE new == [incident[i] EXCEPT !.acked = TRUE]
  <2>1. new \in Clocked /\ new.severity = incident[i].severity /\ new.cycle = incident[i].cycle
    BY <1>1 DEF Clocked
  <2>2. Write(i, new)
    BY <1>4 DEF Acknowledge
  <2> HIDE DEF new
  <2> QED
    BY <1>2, <2>1, <2>2, WriteStep
<1>5. CASE Close(i)
  <2> DEFINE new == [incident[i] EXCEPT !.closed = TRUE]
  <2>1. new \in Clocked /\ new.severity = incident[i].severity /\ new.cycle = incident[i].cycle
    BY <1>1 DEF Clocked
  <2>2. Write(i, new)
    BY <1>5 DEF Close
  <2> HIDE DEF new
  <2> QED
    BY <1>2, <2>1, <2>2, WriteStep
<1> QED
  BY <1>3, <1>4, <1>5

-------------------------------------------------------------------------------
(* The reader.                                                              *)

LEMMA RequestStep ==
  ASSUME IInv, NEW cursor \in {NoCursor} \union {<<n>> : n \in Row}, Request(cursor)
  PROVE  IInv'
<1> DEFINE w == [pc |-> "asking", cursor |-> cursor, actor |-> user[Reader].clearance,
                 held |-> user[Reader].clearance, results |-> {}, items |-> {}, more |-> FALSE,
                 unread |-> 0, torn |-> FALSE]
<1>1. walk' = w /\ UNCHANGED <<user, incident, fired, log, batches, run, tx, moves>>
  BY DEF Request
<1>2. user[Reader].clearance \in Clearances /\ user[Reader].clearance \in Int
  BY UserParts, NotificationsAssumption DEF IInv
<1>3. w \in WalkState
  BY <1>2 DEF WalkState
<1>4. w.actor = user[Reader].clearance /\ w.held = user[Reader].clearance /\ w.results = {} /\ w.items = {}
  OBVIOUS
<1> HIDE DEF w
<1>5. Typed'
  BY <1>1, <1>3 DEF IInv, Typed
<1>6. ItemsFit'
  <2>1. IsFiniteSet({}) /\ Cardinality({}) = 0 /\ PageSize \in Nat
    BY FS_EmptySet, NotificationsAssumption
  <2>2. Cardinality({}) <= PageSize
    BY <2>1
  <2> QED
    BY <1>1, <1>2, <1>4, <2>1, <2>2 DEF ItemsFit
<1>7. ResultStands' /\ Agreed'
  BY <1>1, <1>4 DEF ResultStands, Agreed
<1> QED
  BY <1>1, <1>5, <1>6, <1>7, JobFrame DEF IInv, WalkFits

\* The unread items of a page are as many as the unread rows they are made of.
LEMMA UnreadItems ==
  ASSUME NEW S, IsFiniteSet(S)
  PROVE  Cardinality(Unread({ToNotificationItem(n) : n \in S})) = Cardinality({n \in S : ~n.read})
<1> DEFINE items == {ToNotificationItem(n) : n \in S}
           rows == {n \in S : ~n.read}
           f == [n \in rows |-> ToNotificationItem(n)]
<1>1. \A n \in S : ToNotificationItem(n).row = n
  BY DEF ToNotificationItem
<1>2. \A t : t \in Unread(items) <=> \E n \in rows : t = ToNotificationItem(n)
  BY <1>1 DEF Unread
<1>3. f \in [rows -> Unread(items)] /\ \A t \in Unread(items) : \E n \in rows : f[n] = t
  BY <1>2
<1>4. \A m, n \in rows : f[m] = f[n] => m = n
  <2> SUFFICES ASSUME NEW m \in rows, NEW n \in rows, f[m] = f[n] PROVE m = n
    OBVIOUS
  <2>1. ToNotificationItem(m) = ToNotificationItem(n) /\ m \in S /\ n \in S
    OBVIOUS
  <2> QED
    BY <1>1, <2>1
<1>5. IsFiniteSet(rows)
  BY FS_Subset
<1> HIDE DEF f, rows, items
<1>6. f \in Bijection(rows, Unread(items))
  BY <1>3, <1>4 DEF Bijection, Injection, IsInjective, Surjection
<1>7. ExistsBijection(rows, Unread(items))
  BY <1>6 DEF ExistsBijection
<1>8. Cardinality(Unread(items)) = Cardinality(rows)
  BY <1>5, <1>7, FS_Bijection
<1> QED
  BY <1>8 DEF rows, items

\* A page and a count of the same moment agree.
LEMMA SameMoment ==
  ASSUME Typed, LogFits
  PROVE  LET page == {ToNotificationItem(n) : n \in FirstOf(Rest)}
         IN  /\ CountUnread \in Nat
             /\ Cardinality(Unread(page)) <= CountUnread
             /\ walk.cursor = NoCursor /\ FirstOf(Rest) = Rest => Cardinality(Unread(page)) = CountUnread
<1> DEFINE page == {ToNotificationItem(n) : n \in FirstOf(Rest)}
           counted == {n \in OwnNotificationsWhere : ~n.read}
           shown == {n \in FirstOf(Rest) : ~n.read}
<1>1. OwnNotificationsWhere \subseteq Own /\ Rest \subseteq OwnNotificationsWhere /\ Own \subseteq log
  BY DEF OwnNotificationsWhere, Rest, Own
<1>2. FirstOf(Rest) \subseteq Rest /\ IsFiniteSet(FirstOf(Rest))
  BY <1>1, PageIsShort
<1>3. IsFiniteSet(log)
  BY DEF Typed
<1>4. counted \subseteq log
  BY <1>1
<1>5. IsFiniteSet(counted) /\ Cardinality(counted) \in Nat
  BY <1>3, <1>4, FS_Subset, FS_CardinalityType
<1>6. shown \subseteq counted
  BY <1>1, <1>2
<1>7. Cardinality(shown) <= Cardinality(counted)
  BY <1>5, <1>6, FS_Subset
<1>8. Cardinality(Unread(page)) = Cardinality(shown)
  BY <1>2, UnreadItems
<1>9. ASSUME walk.cursor = NoCursor, FirstOf(Rest) = Rest
      PROVE  shown = counted
  <2>1. Rest = OwnNotificationsWhere
    BY <1>9 DEF Rest, PastCursor
  <2> QED
    BY <1>9, <2>1
<1> QED
  BY <1>5, <1>7, <1>8, <1>9 DEF CountUnread

LEMMA FindStep ==
  ASSUME IInv, FindNotificationsPage
  PROVE  IInv'
<1> DEFINE page == {ToNotificationItem(n) : n \in FirstOf(Rest)}
           more == FirstOf(Rest) # Rest
<1>1. /\ walk.pc = "asking" /\ "page" \notin walk.results
      /\ walk' = [walk EXCEPT !.results = @ \union {"page"}, !.more = more, !.items = page]
      /\ UNCHANGED <<user, incident, fired, log, batches, run, tx, moves>>
  BY DEF FindNotificationsPage, Rest, FirstOf
<1>2. Typed /\ LogFits /\ walk \in WalkState /\ walk # NoWalk
  BY <1>1, RunShape DEF IInv
<1>3. ItemsFit /\ ResultStands
  BY <1>2 DEF IInv, WalkFits
<1>4. Rest \subseteq Own /\ Own \subseteq log
  BY DEF Rest, OwnNotificationsWhere, Own
<1>5. FirstOf(Rest) \subseteq Rest /\ IsFiniteSet(FirstOf(Rest)) /\ Cardinality(FirstOf(Rest)) <= PageSize
  BY <1>2, <1>4, PageIsShort
<1>6. ASSUME NEW t \in page
      PROVE  t \in Item /\ t.row.to = Reader /\ CanViewSeverity(walk.actor, t.severity)
  <2>1. PICK n \in FirstOf(Rest) : t = ToNotificationItem(n)
    BY <1>6
  <2>2. n \in log /\ n \in Row /\ n.to = Reader /\ CanViewSeverity(walk.actor, incident[n.on].severity)
    BY <1>2, <1>4, <1>5 DEF Typed, Rest, OwnNotificationsWhere
  <2>3. incident[n.on].severity \in Severities
    BY <1>2, <2>2 DEF Typed, Row, Clocked
  <2> QED
    BY <2>1, <2>2, <2>3 DEF ToNotificationItem, Item
<1>7. IsFiniteSet(page) /\ Cardinality(page) <= PageSize
  <2> DEFINE f == [n \in FirstOf(Rest) |-> ToNotificationItem(n)]
  <2>1. f \in Surjection(FirstOf(Rest), page)
    BY DEF Surjection
  <2>2. IsFiniteSet(page) /\ Cardinality(page) <= Cardinality(FirstOf(Rest))
    BY <1>5, <2>1, FS_Surjection
  <2>3. Cardinality(page) \in Nat /\ Cardinality(FirstOf(Rest)) \in Nat /\ PageSize \in Nat
    BY <1>5, <2>2, FS_CardinalityType, NotificationsAssumption
  <2> HIDE DEF page
  <2> QED
    BY <1>5, <2>2, <2>3
<1>8. /\ Cardinality(Unread(page)) <= CountUnread
      /\ walk.cursor = NoCursor /\ ~more => Cardinality(Unread(page)) = CountUnread
  BY <1>2, SameMoment
<1>9. page \subseteq Item /\ more \in BOOLEAN
  BY <1>6
<1>10. /\ {ToNotificationItem(n) : n \in FirstOf(Rest)} = page
       /\ more <=> FirstOf(Rest) # Rest
  OBVIOUS
<1> HIDE DEF page, more
<1>11. /\ walk' \in WalkState /\ walk'.actor = walk.actor /\ walk'.held = walk.held
       /\ walk'.items = page /\ walk'.results = walk.results \union {"page"} /\ walk'.torn = walk.torn
       /\ walk'.more = more /\ walk'.unread = walk.unread /\ walk'.cursor = walk.cursor
  BY <1>1, <1>2, <1>9 DEF WalkState
<1>12. Typed'
  BY <1>1, <1>2, <1>11 DEF Typed
<1>13. ItemsFit'
  BY <1>3, <1>6, <1>7, <1>11 DEF ItemsFit
<1>14. ResultStands'
  <2>1. "count" # "page" /\ walk'.results # {"count"}
    BY <1>11
  <2>2. /\ FirstOf(Rest)' = FirstOf(Rest) /\ Rest' = Rest
        /\ {ToNotificationItem(n) : n \in FirstOf(Rest)}' = {ToNotificationItem(n) : n \in FirstOf(Rest)}
    <3>1. OwnNotificationsWhere' = OwnNotificationsWhere
      BY <1>1, <1>11 DEF OwnNotificationsWhere
    <3>2. \A n : PastCursor(n)' = PastCursor(n)
      BY <1>11 DEF PastCursor, Precedes
    <3>3. Rest' = Rest
      BY <3>1, <3>2 DEF Rest
    <3>4. FirstOf(Rest)' = FirstOf(Rest)
      BY <3>3 DEF FirstOf, Precedes
    <3> QED
      BY <1>1, <3>3, <3>4 DEF ToNotificationItem
  <2> QED
    BY <1>10, <1>11, <2>1, <2>2 DEF ResultStands
<1>15. Agreed'
  <2>1. ASSUME walk'.results = {"page", "count"}, ~walk'.torn
        PROVE  walk.unread = CountUnread
    <3>1. walk.results = {"count"}
      BY <1>1, <1>2, <1>11, <2>1 DEF WalkState
    <3> QED
      BY <1>3, <1>11, <2>1, <3>1 DEF ResultStands
  <2>2. Unread(walk.items)' = Unread(page)
    BY <1>11 DEF Unread
  <2> QED
    BY <1>8, <1>11, <2>1, <2>2 DEF Agreed
<1> QED
  BY <1>1, <1>12, <1>13, <1>14, <1>15, JobFrame DEF IInv, WalkFits

LEMMA AskForCountStep ==
  ASSUME IInv, AskForCount
  PROVE  IInv'
<1>1. /\ walk.pc = "asking" /\ "count" \notin walk.results
      /\ walk' = [walk EXCEPT !.results = @ \union {"count"}, !.unread = CountUnread]
      /\ UNCHANGED <<user, incident, fired, log, batches, run, tx, moves>>
  BY DEF AskForCount
<1>2. Typed /\ LogFits /\ walk \in WalkState /\ walk # NoWalk
  BY <1>1, RunShape DEF IInv
<1>3. ItemsFit /\ ResultStands
  BY <1>2 DEF IInv, WalkFits
<1>4. CountUnread \in Nat
  BY <1>2, SameMoment
<1>5. /\ walk' \in WalkState /\ walk'.actor = walk.actor /\ walk'.held = walk.held
      /\ walk'.items = walk.items /\ walk'.results = walk.results \union {"count"}
      /\ walk'.torn = walk.torn /\ walk'.more = walk.more /\ walk'.unread = CountUnread
      /\ walk'.cursor = walk.cursor
  BY <1>1, <1>2, <1>4 DEF WalkState
<1>6. Typed'
  BY <1>1, <1>2, <1>5 DEF Typed
<1>7. ItemsFit'
  BY <1>3, <1>5 DEF ItemsFit
<1>8. ResultStands'
  <2>1. "count" # "page" /\ walk'.results # {"page"}
    BY <1>5
  <2>2. OwnNotificationsWhere' = OwnNotificationsWhere
    BY <1>1, <1>5 DEF OwnNotificationsWhere
  <2>3. CountUnread' = CountUnread
    BY <2>2 DEF CountUnread
  <2> QED
    BY <1>5, <2>1, <2>3 DEF ResultStands
<1>9. Agreed'
  <2>1. SUFFICES ASSUME walk'.results = {"page", "count"}, ~walk'.torn
        PROVE  /\ Cardinality(Unread(walk.items)) <= CountUnread
               /\ walk.cursor = NoCursor /\ ~walk.more => Cardinality(Unread(walk.items)) = CountUnread
    BY <1>5 DEF Agreed, Unread
  <2>2. walk.results = {"page"}
    BY <1>1, <1>2, <1>5, <2>1 DEF WalkState
  <2>3. /\ walk.items = {ToNotificationItem(n) : n \in FirstOf(Rest)}
        /\ walk.more <=> FirstOf(Rest) # Rest
    BY <1>3, <1>5, <2>1, <2>2 DEF ResultStands
  <2> QED
    BY <1>2, <2>3, SameMoment
<1> QED
  BY <1>1, <1>6, <1>7, <1>8, <1>9, JobFrame DEF IInv, WalkFits

LEMMA WalkStep ==
  ASSUME IInv, List \/ NextPage \/ Leave
  PROVE  IInv'
<1>1. CASE List
  <2>1. Request(NoCursor)
    BY <1>1 DEF List
  <2> QED
    BY <2>1, RequestStep
<1>2. CASE NextPage
  <2>1. PICK last \in walk.items : Request(<<last.row>>)
    BY <1>2 DEF NextPage
  <2>2. walk \in WalkState
    BY <1>2, RunShape DEF IInv, NextPage, Answered
  <2>3. last.row \in Row
    BY <2>1, <2>2 DEF WalkState, Item
  <2>4. <<last.row>> \in {NoCursor} \union {<<n>> : n \in Row}
    BY <2>3
  <2> QED
    BY <2>1, <2>4, RequestStep
<1>3. CASE Leave
  <2>1. walk' = NoWalk /\ UNCHANGED <<user, incident, fired, log, batches, run, tx, moves>>
    BY <1>3 DEF Leave
  <2>2. Typed'
    BY <2>1 DEF IInv, Typed
  <2> QED
    BY <2>1, <2>2, JobFrame DEF IInv, WalkFits
<1> QED
  BY <1>1, <1>2, <1>3

LEMMA MarkReadStep ==
  ASSUME IInv, NEW n \in log, MarkRead(n)
  PROVE  IInv'
<1> DEFINE marked == [n EXCEPT !.read = TRUE]
<1>1. /\ moves < MaxMoves /\ moves' = moves + 1 /\ log' = (log \ {n}) \union {marked}
      /\ Written /\ UNCHANGED <<user, incident, fired, batches, run, tx>>
  BY DEF MarkRead
<1>2. Typed /\ LogFits /\ RunFits /\ WalkFits
  BY DEF IInv
<1>3. /\ marked \in Row /\ marked.on = n.on /\ marked.cycle = n.cycle /\ marked.to = n.to
      /\ marked.createdAt = n.createdAt
  BY <1>2, RowParts DEF Row
<1> HIDE DEF marked
<1>4. walk' \in WalkState \union {NoWalk} /\ WalkFits'
  BY <1>1, <1>2, WalkWritten
<1>5. moves' \in 0..MaxMoves
  BY <1>1, <1>2, NotificationsAssumption DEF Typed
<1>6. IsFiniteSet(log')
  <2>1. IsFiniteSet(log \ {n})
    BY <1>2, FS_RemoveElement DEF Typed
  <2> QED
    BY <1>1, <2>1, FS_AddElement
<1>7. Typed'
  BY <1>1, <1>2, <1>3, <1>4, <1>5, <1>6 DEF Typed
<1>8. \A m \in log' : \E o \in log : /\ m.on = o.on /\ m.cycle = o.cycle /\ m.to = o.to
                                     /\ m.createdAt = o.createdAt /\ (m = o \/ (o = n /\ m = marked))
  BY <1>1, <1>3
<1>9. LogFits'
  <2>1. \A m \in log' : <<m.on, m.cycle>> \in fired' /\ m.createdAt <= batches'
    BY ZenonT(60), <1>1, <1>2, <1>8 DEF LogFits
  <2>2. ASSUME NEW k \in log', NEW m \in log',
               k.to = m.to, k.on = m.on, k.cycle = m.cycle \/ k.createdAt = m.createdAt
        PROVE  k = m
    <3>1. PICK o \in log : /\ k.on = o.on /\ k.cycle = o.cycle /\ k.to = o.to
                           /\ k.createdAt = o.createdAt /\ (k = o \/ (o = n /\ k = marked))
      BY <1>8
    <3>2. PICK p \in log : /\ m.on = p.on /\ m.cycle = p.cycle /\ m.to = p.to
                           /\ m.createdAt = p.createdAt /\ (m = p \/ (p = n /\ m = marked))
      BY <1>8
    <3>3. o = p
      BY ZenonT(60), <1>2, <2>2, <3>1, <3>2 DEF LogFits
    <3>4. CASE o = n
      BY <1>1, <3>1, <3>2, <3>3, <3>4
    <3>5. CASE o # n
      BY <3>1, <3>2, <3>3, <3>5
    <3> QED
      BY <3>4, <3>5
  <2> QED
    BY <2>1, <2>2 DEF LogFits
<1>10. RunFits'
  <2>1. \A s : Entitled(s)' = Entitled(s)
    BY <1>1 DEF Entitled
  <2>2. run # NoRun => EventsFit' /\ Between'
    BY <1>1, <1>2, <2>1 DEF RunFits, EventsFit, DueFits, Between
  <2>3. run.pc \in {"insert", "bump"} => \A m \in log' : m.createdAt < batches
    BY <1>2, <1>8, RunShape DEF RunFits
  <2> QED
    BY <1>1, <1>2, <2>2, <2>3 DEF RunFits
<1> QED
  BY <1>4, <1>7, <1>9, <1>10 DEF IInv

-------------------------------------------------------------------------------
(* The theorems.                                                            *)

LEMMA InvariantStep == IInv /\ [Next]_vars => IInv'
<1> SUFFICES ASSUME IInv, [Next]_vars PROVE IInv'
  OBVIOUS
<1>1. CASE UNCHANGED vars
  <2>1. UNCHANGED <<user, incident, fired, log, batches, run, tx, walk, moves>>
    BY <1>1 DEF vars
  <2>2. Typed'
    BY <2>1 DEF IInv, Typed
  <2> QED
    BY <2>1, <2>2, JobFrame, WalkFrame DEF IInv
<1>2. CASE ReadHigh \/ ReadCritical \/ ReadBatch \/ InsertEvent \/ BumpLevel \/ CommitBatch \/ FailRun
  BY <1>2, ReadHighStep, ReadCriticalStep, ReadBatchStep, InsertEventStep, BumpLevelStep,
     CommitBatchStep, FailRunStep
<1>3. CASE \E u \in Users, new \in [role : GivenRoles, active : BOOLEAN, clearance : Clearances] :
             PatchUser(u, new)
  BY <1>3, PatchUserStep
<1>4. CASE \E i \in Incidents :
             (\E s \in SeverityInputs : ChangeSeverity(i, s)) \/ Acknowledge(i) \/ Close(i)
  BY <1>4, IncidentStep
<1>5. CASE List \/ FindNotificationsPage \/ AskForCount \/ NextPage \/ Leave
  BY <1>5, WalkStep, FindStep, AskForCountStep
<1>6. CASE \E n \in log : MarkRead(n)
  BY <1>6, MarkReadStep
<1> QED
  BY <1>1, <1>2, <1>3, <1>4, <1>5, <1>6 DEF Next

\* In every reachable state of the job, the log and the reader's walk.
THEOREM Invariance == Spec => []IInv
<1>1. Init => IInv
  BY InvariantInit
<1>2. IInv /\ [Next]_vars => IInv'
  BY InvariantStep
<1> QED
  BY <1>1, <1>2, PTL DEF Spec

\* TypeOK of Notifications, whatever the users, the incidents and the page size: in
\* particular nobody has two notifications of one event, and no page is too long.
THEOREM TypeCorrect == Spec => []TypeOK
<1>1. IInv => TypeOK
  <2> SUFFICES ASSUME IInv PROVE TypeOK
    OBVIOUS
  <2>1. Typed /\ LogFits /\ WalkFits
    BY DEF IInv
  <2>2. UserRow = [role : Roles, active : BOOLEAN, clearance : Clearances]
    BY DEF UserRow
  <2>3. /\ user \in [Users -> [role : Roles, active : BOOLEAN, clearance : Clearances]]
        /\ \A i \in Incidents : incident[i] \in Clocked
        /\ \A k \in fired : k \in Incidents \X Nat
        /\ run = NoRun \/ run \in Runs
        /\ \A e \in tx : e \in Event
        /\ batches \in 0..MaxRuns /\ moves \in 0..MaxMoves
    BY <2>1, <2>2 DEF Typed
  <2>4. \A n \in log : n \in Row /\ <<n.on, n.cycle>> \in fired
    BY <2>1 DEF Typed, LogFits
  <2>5. \A m, n \in log : <<m.on, m.cycle, m.to>> = <<n.on, n.cycle, n.to>> => m = n
    BY <2>1 DEF LogFits
  <2>6. walk = NoWalk \/ (walk.pc = "asking" /\ Cardinality(walk.items) <= PageSize)
    BY <2>1, RunShape DEF WalkFits, ItemsFit
  <2> QED
    BY <2>3, <2>4, <2>5, <2>6 DEF TypeOK
<1> QED
  BY <1>1, Invariance, PTL

\* Every answer of GET /notifications shows what its reader was cleared for at some
\* moment of the request, and its badge agrees with its page unless a write fell
\* between the two queries.
THEOREM PageAndBadgeAgree == Spec => []AnswersAgree
<1>1. IInv => AnswersAgree
  <2> SUFFICES ASSUME IInv, Answered PROVE AnswersAgree
    BY DEF AnswersAgree
  <2>1. walk.results = {"page", "count"} /\ walk \in WalkState /\ ItemsFit /\ Agreed
    BY RunShape DEF IInv, WalkFits, Answered
  <2>2. ASSUME NEW n \in walk.items
        PROVE  n.row.to = Reader /\ CanViewSeverity(walk.held, n.severity)
    <3>1. n.severity \in Severities /\ walk.actor \in Clearances /\ walk.held \in Clearances
      BY <2>1, <2>2 DEF WalkState, Item
    <3>2. \A c \in Clearances : c \in Int
      BY NotificationsAssumption
    <3>3. walk.actor \in Int /\ walk.held \in Int
      BY <3>1, <3>2, Zenon
    <3>4. SeverityRank(n.severity) \in Int
      BY <3>1, RankFacts
    <3>5. walk.actor <= walk.held /\ n.row.to = Reader /\ CanViewSeverity(walk.actor, n.severity)
      BY <2>1, <2>2 DEF ItemsFit
    <3>6. CanViewSeverity(walk.held, n.severity)
      BY <3>3, <3>4, <3>5 DEF CanViewSeverity
    <3> QED
      BY <3>5, <3>6
  <2> QED
    BY <2>1, <2>2, Zenon DEF AnswersAgree, Agreed, Unread
<1> QED
  BY <1>1, Invariance, PTL

\* What a committed event of the batch tells: its recipients, and no one else.
LEMMA ToldIsRecipients ==
  ASSUME IInv, CommitBatch, NEW e \in tx
  PROVE  {n.to : n \in {m \in log' \ log : m.on = e.on}} = run.recipients[e.batch]
<1> DEFINE told == {n.to : n \in {m \in log' \ log : m.on = e.on}}
           new == UNION {NotificationsOf(f) : f \in tx}
<1>1. log' = log \union new
  BY DEF CommitBatch
<1>2. /\ EventsFit /\ \A n \in log : n.createdAt < batches
      /\ \A n : n \in new <=>
           \E f \in tx : \E u \in run.recipients[f.batch] :
             n = [on |-> f.on, cycle |-> f.cycle, to |-> u, createdAt |-> batches, read |-> FALSE]
  BY CommitRows
<1>3. batches \in Int
  BY NotificationsAssumption DEF IInv, Typed
<1> HIDE DEF new
<1>4. ASSUME NEW u \in told PROVE u \in run.recipients[e.batch]
  <2>1. PICK n \in log' \ log : n.on = e.on /\ n.to = u
    BY <1>4
  <2>2. n \in new
    BY <1>1, <2>1
  <2>3. PICK f \in tx : \E v \in run.recipients[f.batch] :
          n = [on |-> f.on, cycle |-> f.cycle, to |-> v, createdAt |-> batches, read |-> FALSE]
    BY <1>2, <2>2
  <2>4. f = e
    BY <1>2, <2>1, <2>3 DEF EventsFit
  <2> QED
    BY <2>1, <2>3, <2>4
<1>5. ASSUME NEW u \in run.recipients[e.batch] PROVE u \in told
  <2> DEFINE n == [on |-> e.on, cycle |-> e.cycle, to |-> u, createdAt |-> batches, read |-> FALSE]
  <2>1. n \in new
    BY <1>2
  <2>2. n.createdAt = batches /\ n.on = e.on /\ n.to = u
    OBVIOUS
  <2> HIDE DEF n
  <2>3. n \notin log
    <3>1. ASSUME n \in log PROVE FALSE
      <4>1. n.createdAt < batches
        BY <1>2, <3>1
      <4> QED
        BY <1>3, <2>2, <4>1
    <3> QED
      BY <3>1
  <2> QED
    BY <1>1, <2>1, <2>2, <2>3
<1> QED
  BY <1>4, <1>5

\* A committed escalation reaches everyone entitled throughout the run, and no one who
\* was not entitled at some moment of it by the severity the event records.
THEOREM RightRecipients == Spec => RightPeopleAreTold
<1>1. ASSUME IInv, CommitBatch, NEW e \in tx
      PROVE  LET told == {n.to : n \in {m \in log' \ log : m.on = e.on}}
             IN  run.always[e.batch] \subseteq told /\ told \subseteq run.ever[e.severity]
  <2>1. Between /\ EventsFit /\ e \in Event /\ run.pc = "insert"
    BY <1>1, CommitRows DEF CommitBatch
  <2>2. /\ e.batch \in BandSeverities /\ e.severity \in BandSeverities
        /\ SeverityRank(e.severity) <= SeverityRank(e.batch)
    BY <2>1 DEF Event, EventsFit
  <2>3. run.always[e.batch] \subseteq run.recipients[e.batch]
    BY <2>1, <2>2 DEF Between
  <2>4. run.recipients[e.batch] \subseteq run.ever[e.severity]
    <3>1. CASE e.batch = e.severity
      BY <2>1, <2>2, <3>1 DEF Between
    <3>2. CASE e.batch = "CRITICAL" /\ e.severity = "HIGH"
      BY <2>1, <3>2 DEF Between
    <3>3. ~(e.batch = "HIGH" /\ e.severity = "CRITICAL")
      BY <2>2, RankFacts
    <3> QED
      BY <2>2, <3>1, <3>2, <3>3 DEF BandSeverities
  <2> QED
    BY <1>1, <2>3, <2>4, ToldIsRecipients
<1>2. IInv /\ [Next]_vars =>
        [CommitBatch => \A e \in tx :
           LET told == {n.to : n \in {m \in log' \ log : m.on = e.on}}
           IN run.always[e.batch] \subseteq told /\ told \subseteq run.ever[e.severity]]_vars
  BY <1>1
<1> QED
  BY <1>2, Invariance, PTL DEF Spec, RightPeopleAreTold

===============================================================================
