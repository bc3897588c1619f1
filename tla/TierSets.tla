------------------------------- MODULE TierSets -------------------------------
(***************************************************************************)
(* The table EscalationTier: administrators replace the set                *)
(* (PUT /admin/escalation-tiers, several at once), seedings overwrite it   *)
(* tier by tier beside them, and the escalation job works with the set as  *)
(* it was when the run began.                                              *)
(*                                                                         *)
(* A PUT is one transaction at READ COMMITTED: DELETE FROM EscalationTier, *)
(* which takes the rows committed when it starts and waits for another     *)
(* PUT that is deleting one of them, then the INSERT under the unique      *)
(* index on (severity, level), then the commit.  INSERT and commit are one *)
(* step: a PUT whose rows another one is waiting on is that other one not  *)
(* having inserted yet.                                                    *)
(*                                                                         *)
(* Nothing keeps a seeding apart from the server: `docker compose up' runs *)
(* one beside an api container that is up already, `npm run db:seed' runs  *)
(* one at any time, and the image starts the server without any.           *)
(***************************************************************************)
EXTENDS Naturals, Sequences, FiniteSets

CONSTANTS Bands,        \* the severities that may have tiers
          TierInputs,   \* bound: the tiers administrators ask for
          SeedKeys,     \* the severities and levels of escalationTiers.seed.ts, in its order
          Environments, \* bound: the ESCALATION_*_MINUTES a seeding may be run with
          Requests,     \* the PUTs the server has room for
          Seedings,     \* the runs of the seed there is room for
          Watched,      \* the severity of an incident nobody acknowledges
          MaxElapsed    \* bound: how long it is watched

TierShape == [severity : Bands, level : Nat \ {0}, thresholdMinutes : Nat \ {0}]

-------------------------------------------------------------------------------
(* TierSetRequestSchema: a set of tiers is accepted as a whole.             *)

ListOf(tiers, s) == {t \in tiers : t.severity = s}

LevelsOf(list) == {t.level : t \in list}

LevelsContiguous(list) == \A t \in list : 1..t.level \subseteq LevelsOf(list)

NoDuplicates(tiers) ==
  \A t, u \in tiers : t.severity = u.severity /\ t.level = u.level => t = u

ThresholdsIncrease(list) ==
  \A t, u \in list : t.level < u.level => t.thresholdMinutes < u.thresholdMinutes

TierSetValid(tiers) ==
  /\ NoDuplicates(tiers)
  /\ \A s \in Bands : LevelsContiguous(ListOf(tiers, s)) /\ ThresholdsIncrease(ListOf(tiers, s))

\* Mutant: the tiers are validated one by one.
TierSetRequestByRow == {tiers \in SUBSET TierInputs : tiers # {} /\ NoDuplicates(tiers)}

TierSetRequest == {tiers \in SUBSET TierInputs : tiers # {} /\ TierSetValid(tiers)}

\* As the list in the seed is written: no key twice, and no level before the one below it.
ASSUME SeedKeysAssumption ==
  /\ SeedKeys \in Seq([severity : Bands, level : Nat \ {0}])
  /\ \A m, n \in DOMAIN SeedKeys : SeedKeys[m] = SeedKeys[n] => m = n
  /\ \A n \in DOMAIN SeedKeys : \A l \in 1..SeedKeys[n].level - 1 :
       \E m \in 1..n - 1 : SeedKeys[m] = [severity |-> SeedKeys[n].severity, level |-> l]

\* env.ts asks for positive minutes, and for no order among them.
ASSUME EnvironmentsAssumption == Environments \subseteq [DOMAIN SeedKeys -> Nat \ {0}]

ASSUME BoundsAssumption ==
  /\ TierInputs \subseteq TierShape /\ IsFiniteSet(TierInputs)
  /\ MaxElapsed \in Nat
  /\ Watched \in Bands

ASSUME ProcessesAssumption ==
  /\ Requests \intersect Seedings = {}
  /\ {"whole", "mixed"} \intersect Seedings = {}

VARIABLES rows,      \* the committed rows: a tier each, and who put the row in
          put,       \* put[r]: a PUT on its way
          seeding,   \* seeding[d]: the minutes it was configured with, and how far it is
          table,     \* history: who wrote the table last, see TableAfterUpsert
          run,       \* the escalation run under way, with the tiers it has read
          trusted,   \* history: every run so far read a table that was "whole"
          elapsed,   \* minutes since the watched incident's clock started
          level,     \* its currentEscalationLevel
          fired      \* the levels that have an EscalationEvent

vars == <<rows, put, seeding, table, run, trusted, elapsed, level, fired>>
tableVars == <<rows, put, seeding, table>>
jobVars == <<run, trusted, elapsed, level, fired>>

Row(t, by) == [severity |-> t.severity, level |-> t.level,
               thresholdMinutes |-> t.thresholdMinutes, by |-> by]

Tier(row) == [severity |-> row.severity, level |-> row.level,
              thresholdMinutes |-> row.thresholdMinutes]

\* The row's primary key, as far as it tells rows apart: an update keeps it.
Id(row) == [severity |-> row.severity, level |-> row.level, by |-> row.by]

\* activeTiers: every row is active, and one SELECT reads them all.
ActiveTiers == {Tier(row) : row \in rows}

\* @@unique([severity, level])
SameKey(t, u) == t.severity = u.severity /\ t.level = u.level

\* The answer tells the set or an error; nothing comes after it.
Answered == [pc |-> "answered"]

NoRun == [pc |-> "none"]

-------------------------------------------------------------------------------
(* replaceTierSet and putTiers.  What putTiers answers, and GET             *)
(* /escalations/tiers, is ActiveTiers read once more, as StartRun does.     *)

UnderWay(r) == put[r].pc \in {"deleting", "inserting"}

\* The validated request; the DELETE starts and sees the rows committed by now.
\* clean: no tier has been seeded since.
PutTiers(r) ==
  /\ put[r].pc = "new"
  /\ \E tiers \in TierSetRequest :
       put' = [put EXCEPT ![r] = [pc |-> "deleting", tiers |-> tiers, clean |-> TRUE,
                                  seen |-> {Id(row) : row \in rows}]]
  /\ UNCHANGED <<rows, seeding, table, jobVars>>

\* The row has been deleted by q and q has not committed.
LockedBy(q, row) == put[q].pc = "inserting" /\ Id(row) \in put[q].seen

\* Rows that another transaction has deleted and not committed are waited for.
\* Rows that are gone by now are skipped; those updated by now are deleted all the same.
DeleteMany(r) ==
  /\ put[r].pc = "deleting"
  /\ \A row \in rows, q \in Requests \ {r} : LockedBy(q, row) => Id(row) \notin put[r].seen
  /\ put' = [put EXCEPT ![r].pc = "inserting"]
  /\ UNCHANGED <<rows, seeding, table, jobVars>>

\* Mutant: the DELETE takes the rows of the severities in the request.
SurvivorsUnnamed(r) ==
  {row \in rows : Id(row) \notin put[r].seen \/ ListOf(put[r].tiers, row.severity) = {}}

\* The rows the DELETE did not see.
Survivors(r) == {row \in rows : Id(row) \notin put[r].seen}

\* Mutant: the unique index has the threshold in it.
KeyTakenByThreshold(r) == \E row \in Survivors(r), t \in put[r].tiers : Tier(row) = t

KeyTaken(r) == \E row \in Survivors(r), t \in put[r].tiers : SameKey(row, t)

CreateManyAndCommit(r) ==
  /\ put[r].pc = "inserting"
  /\ ~KeyTaken(r)
  /\ rows' = Survivors(r) \union {Row(t, r) : t \in put[r].tiers}
  /\ put' = [put EXCEPT ![r] = Answered]
  /\ table' = IF put[r].clean THEN "whole" ELSE "mixed"
  /\ UNCHANGED <<seeding, jobVars>>

\* P2002 on a key of a survivor, a deadlock, the transaction's timeout, the server's end.
Rollback(r) ==
  /\ UnderWay(r)
  /\ put' = [put EXCEPT ![r] = Answered]
  /\ UNCHANGED <<rows, seeding, table, jobVars>>

-------------------------------------------------------------------------------
(* seedEscalationTiers: one upsert, and so one transaction, per tier.  A    *)
(* seeding that dies just takes no further step.                            *)

SeedTier(d, n) == [severity |-> SeedKeys[n].severity, level |-> SeedKeys[n].level,
                   thresholdMinutes |-> seeding[d].minutes[n]]

SeedOf(d) == {SeedTier(d, n) : n \in DOMAIN SeedKeys}

\* The tiers a seeding leaves alone.
Unseeded == {t \in ActiveTiers : \A n \in DOMAIN SeedKeys : ~SameKey(t, SeedKeys[n])}

\* The minutes it was configured with increase, those of the tiers it leaves alone included.
Suits(d) == \A s \in Bands : ThresholdsIncrease(ListOf(SeedOf(d) \union Unseeded, s))

\* "whole": written by a clean PUT, or by a seeding that suited the table and had it to
\* itself (a seeding that died before it aside); d: such a seeding is under way; else "mixed".
TableAfterUpsert(d) ==
  IF IF seeding[d].done = 0 THEN table # "mixed" /\ Suits(d) ELSE table = d
    THEN IF seeding[d].done + 1 = Len(SeedKeys) THEN "whole" ELSE d
    ELSE "mixed"

\* INSERT ... ON CONFLICT (severity, level) DO UPDATE: a row of the key keeps its identity.
\* A PUT that has deleted that row and not committed is waited for.
Upsert(d) ==
  LET t == SeedTier(d, seeding[d].done + 1)
      old == {row \in rows : SameKey(row, t)}
  IN /\ seeding[d].done < Len(SeedKeys)
     /\ \A q \in Requests, row \in old : ~LockedBy(q, row)
     /\ rows' = (rows \ old) \union
                  (IF old = {} THEN {Row(t, d)} ELSE {Row(t, row.by) : row \in old})
     /\ seeding' = [seeding EXCEPT ![d].done = @ + 1]
     /\ put' = [r \in Requests |-> IF UnderWay(r) THEN [put[r] EXCEPT !.clean = FALSE]
                                   ELSE put[r]]
     /\ table' = TableAfterUpsert(d)
     /\ UNCHANGED jobVars

-------------------------------------------------------------------------------
(* The escalation job, as far as one incident of the watched severity goes  *)
(* (EscalationJob has the rest).                                            *)

Tick ==
  /\ elapsed < MaxElapsed
  /\ elapsed' = elapsed + 1
  /\ UNCHANGED <<tableVars, run, trusted, level, fired>>

StartRun ==
  /\ run = NoRun
  /\ run' = [pc |-> "scanning", tiers |-> ListOf(ActiveTiers, Watched)]
  /\ trusted' = (trusted /\ table = "whole")
  /\ UNCHANGED <<tableVars, elapsed, level, fired>>

TiersDueFor(tiers) ==
  {t.level : t \in {u \in tiers :
                      u.level > level /\ elapsed >= u.thresholdMinutes}}

\* The batch: an event for each level that is due, and the counter after them.
EscalateBatch ==
  LET due == TiersDueFor(run.tiers)
  IN /\ run # NoRun
     /\ fired' = fired \union due
     /\ level' = IF due = {} THEN level ELSE CHOOSE l \in due : \A m \in due : m <= l
     /\ run' = NoRun
     /\ UNCHANGED <<tableVars, trusted, elapsed>>

\* The batch is rolled back, or the server ends.
LoseRun ==
  /\ run # NoRun
  /\ run' = NoRun
  /\ UNCHANGED <<tableVars, trusted, elapsed, level, fired>>

-------------------------------------------------------------------------------
Init ==
  /\ rows = {} /\ table = "whole"
  /\ put = [r \in Requests |-> [pc |-> "new"]]
  /\ seeding \in [Seedings -> [minutes : Environments, done : {0}]]
  /\ run = NoRun /\ trusted = TRUE
  /\ elapsed = 0 /\ level = 0 /\ fired = {}

Next ==
  \/ \E r \in Requests : PutTiers(r) \/ DeleteMany(r) \/ CreateManyAndCommit(r) \/ Rollback(r)
  \/ \E d \in Seedings : Upsert(d)
  \/ Tick \/ StartRun \/ EscalateBatch \/ LoseRun

Spec == Init /\ [][Next]_vars

-------------------------------------------------------------------------------
(* Properties.                                                              *)

SeedTiers == {[severity |-> SeedKeys[n].severity, level |-> SeedKeys[n].level,
               thresholdMinutes |-> e[n]] : n \in DOMAIN SeedKeys, e \in Environments}

AnyTiers == TierInputs \union SeedTiers

TierRows == {Row(t, by) : t \in AnyTiers, by \in Requests \union Seedings}

\* The variables have their types, and the unique index holds.
TypeOK ==
  /\ rows \subseteq TierRows
  /\ \A a, b \in rows : SameKey(a, b) => a = b
  /\ seeding \in [Seedings -> [minutes : Environments, done : 0..Len(SeedKeys)]]
  /\ table \in {"whole", "mixed"} \union Seedings
  /\ \A r \in Requests :
       /\ put[r].pc \in {"new", "deleting", "inserting", "answered"}
       /\ UnderWay(r) => /\ put[r].tiers \in TierSetRequest /\ put[r].clean \in BOOLEAN
                         /\ put[r].seen \subseteq {Id(row) : row \in TierRows}
  /\ trusted \in BOOLEAN
  /\ elapsed \in 0..MaxElapsed /\ level \in Nat /\ fired \subseteq Nat

\* The table as a whole passes TierSetRequestSchema unless a seeding got between the steps
\* of somebody else's write: PUTs validated one by one may each leave part of the table
\* (tiers.repository.ts:22), and a seeding starts over what is there, half another
\* seeding included (escalationTiers.seed.ts:14).
TiersValid == table = "whole" => TierSetValid(ActiveTiers)

\* The levels that have fired are 1, 2, ... without a gap, whatever tier sets the runs of
\* the job have worked with (escalation.job.ts:106), if none of them read a mixed one.
NoLevelSkipped == trusted => fired = 1..level

-------------------------------------------------------------------------------
(* The register the table implements.                                       *)

Brief(t) == [level |-> t.level, thresholdMinutes |-> t.thresholdMinutes]

ListsOf(tiers) == [s \in Bands |-> {Brief(t) : t \in ListOf(tiers, s)}]

GivenLists == {ListsOf(tiers)[s] : tiers \in TierSetRequest, s \in Bands} \ {{}}

PutOf(r) ==
  IF ~UnderWay(r) THEN put[r]
  ELSE IF put[r].clean
    THEN [pc |-> "begun", wants |-> ListsOf(put[r].tiers), since |-> ListsOf(Survivors(r))]
    ELSE [pc |-> "disturbed", wants |-> ListsOf(put[r].tiers)]

Register == INSTANCE TierRegister
              WITH Lists <- GivenLists,
                   Tiers <- {Brief(t) : t \in AnyTiers},
                   list <- ListsOf(rows),
                   put <- [r \in Requests |-> PutOf(r)]

\* Deletes by row, keys by (severity, level) and rollbacks add up to a register of one list
\* per severity, the first PUT to commit a list winning (tiers.repository.ts:22): half a
\* list, or a list gone that its writer's successors have not seen, takes a seeding
\* during the PUT.
ImplementsRegister == Register!Spec

===============================================================================
