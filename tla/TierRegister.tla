----------------------------- MODULE TierRegister -----------------------------
(***************************************************************************)
(* What PUT /admin/escalation-tiers and the readers of the tier set may    *)
(* rely on, whatever their transactions interleave: a register with one    *)
(* tier list per severity.                                                 *)
(*                                                                         *)
(* A PUT that no other PUT overtakes replaces the whole set.  One that was *)
(* overtaken leaves what the other wrote: the lists of severities it does  *)
(* not name stand beside its own, and naming one of them is an error.  So  *)
(* the set is not replaced atomically, but every list is.                  *)
(*                                                                         *)
(* A seeding changes lists tier by tier, and takes that promise from the   *)
(* PUTs under way: such a PUT brings its tiers in, and any of those it     *)
(* found may stay beside them.                                             *)
(***************************************************************************)
CONSTANTS Bands,     \* the severities that may have tiers
          Lists,     \* the tier lists a PUT may give a severity: sets of tiers, none empty
          Tiers,     \* the tiers there can be, each with its level
          Requests   \* the PUTs the server has room for

VARIABLES list,  \* list[s]: the tiers of severity s
          put    \* put[r]: a PUT, and the lists written since it began

TierSets == {wants \in [Bands -> Lists \union {{}}] : \E s \in Bands : wants[s] # {}}

Named(wants) == {s \in Bands : wants[s] # {}}

Begun(wants, since) == [pc |-> "begun", wants |-> wants, since |-> since]

Disturbed(wants) == [pc |-> "disturbed", wants |-> wants]

Answered == [pc |-> "answered"]

Init ==
  /\ list = [s \in Bands |-> {}]
  /\ put = [r \in Requests |-> [pc |-> "new"]]

Begin(r) ==
  /\ put[r].pc = "new"
  /\ \E wants \in TierSets : put' = [put EXCEPT ![r] = Begun(wants, [s \in Bands |-> {}])]
  /\ UNCHANGED list

\* The lists a PUT leaves: those it names, and those written since it began.
ListsAfter(p) == [s \in Bands |-> IF s \in Named(p.wants) THEN p.wants[s] ELSE p.since[s]]

\* To a PUT under way, what p wrote is news, and what p replaced is not any more.
SinceAfter(q, p) ==
  [s \in Bands |-> IF s \in Named(p.wants) THEN p.wants[s]
                   ELSE IF p.since[s] = {} THEN {} ELSE q.since[s]]

Store(r) ==
  /\ put[r].pc = "begun"
  /\ \A s \in Named(put[r].wants) : put[r].since[s] = {}
  /\ list' = ListsAfter(put[r])
  /\ put' = [q \in Requests |->
               IF q = r THEN Answered
               ELSE IF put[q].pc = "begun" THEN Begun(put[q].wants, SinceAfter(put[q], put[r]))
               ELSE put[q]]

\* A list that is written by a disturbed PUT which wants the tiers given, for one that was.
MayLeave(wanted, was, is) == wanted \subseteq is /\ is \subseteq wanted \union was

\* To a PUT that has begun since the seeding, what p wrote is news, and nothing else is.
SinceDisturbed(q, p) ==
  [s \in Bands |-> IF s \in Named(p.wants) THEN p.wants[s] ELSE q.since[s]]

StoreDisturbed(r) ==
  /\ put[r].pc = "disturbed"
  /\ list' \in [Bands -> SUBSET Tiers]
  /\ \A s \in Bands : MayLeave(put[r].wants[s], list[s], list'[s])
  /\ put' = [q \in Requests |->
               IF q = r THEN Answered
               ELSE IF put[q].pc = "begun"
                 THEN Begun(put[q].wants, SinceDisturbed(put[q], put[r]))
               ELSE put[q]]

\* A key of the request was taken, or the transaction was lost.
Fail(r) ==
  /\ put[r].pc \in {"begun", "disturbed"}
  /\ put' = [put EXCEPT ![r] = Answered]
  /\ UNCHANGED list

Seed ==
  /\ \E s \in Bands, t \in Tiers :
       list' = [list EXCEPT ![s] = {u \in @ : u.level # t.level} \union {t}]
  /\ put' = [r \in Requests |-> IF put[r].pc = "begun" THEN Disturbed(put[r].wants)
                                ELSE put[r]]

Next == Seed \/ \E r \in Requests : Begin(r) \/ Store(r) \/ StoreDisturbed(r) \/ Fail(r)

Spec == Init /\ [][Next]_<<list, put>>
===============================================================================
