---------------------------- MODULE CaseFile_proofs ----------------------------
(***************************************************************************)
(* Theorems of CaseFile, for any users, any roles and clearances given to  *)
(* them, any page size, window and number of requests.                     *)
(*                                                                         *)
(* A walk is exact because the log stays sorted by time, so that the       *)
(* cursor, wherever late rows put it, has before it what was shown and     *)
(* after it what was not (Marked).  Refusals are bounded because the rows  *)
(* of one user that went through one of the server's slots are more than a *)
(* window apart (Spaced): the check of the second saw the first.  What a    *)
(* page shows is allowed to a profile of its own request because the actor *)
(* a request holds is one of those (ClientOK).                             *)
(***************************************************************************)
EXTENDS CaseFile, FiniteSetTheorems, TLAPS

Rows == [stage : Stages, severity : SeverityInputs, assignee : Users \union {NoUser},
         clockSet : BOOLEAN, cycle : Nat, acked : BOOLEAN, rca : BOOLEAN]

NoteState == [op : {"note"}, from : Times]

DenialState == [op : {"denial"}, by : Users, at : Times, checked : BOOLEAN]

Offers == [triage : BOOLEAN, assign : BOOLEAN, acknowledge : BOOLEAN, readNotes : BOOLEAN,
           addNote : BOOLEAN, propose : BOOLEAN, approve : BOOLEAN]

ViewState == [pc : {"viewing"}, by : Users, actor : Profiles, version : Nat, offers : Offers]

WalkState == [pc : {"between", "authenticated", "gated", "done"}, by : Users, list : Lists,
              first : BOOLEAN, actor : Profiles, held : SUBSET Profiles, canSee : BOOLEAN,
              could : BOOLEAN]

\* The log is sorted, and nothing in it is of a time to come.
LogOK(l) ==
  /\ l \in Seq(Event)
  /\ \A j, k \in DOMAIN l : j < k => l[j].at >= l[k].at
  /\ \A j \in DOMAIN l : l[j].at <= now

Typed ==
  /\ user \in [Users -> Profiles] /\ \A u \in Users : user[u] \in ProfilesOf[u]
  /\ changes \in 0..MaxWrites
  /\ row \in Rows
  /\ version \in 0..MaxWrites
  /\ LogOK(log)
  /\ now \in Times
  /\ req \in [Requests -> {NoRequest} \union NoteState \union DenialState]
  /\ client \in {Idle} \union ViewState \union WalkState

\* What is offered is what the shown version allows; the actor of a request is one of the
\* profiles its user had during it, and what the gate lets it see of notes could be read
\* with one of those.
ClientOK ==
  /\ client \in ViewState =>
       /\ client.version <= version
       /\ client.version = version => client.offers = ComputeActions(client.by, client.actor, row)
  /\ client.pc \in {"authenticated", "gated"} => client.actor \in client.held
  /\ client.pc = "authenticated" =>
       \A p \in client.held : CanReadNotes(client.by, p, row) => client.could
  /\ client.pc = "gated" => (client.canSee => client.could)

\* Each row of a refusal went through a slot; those of one user and one slot are more
\* than a window apart, and so is one on its way whose check has passed.
SpacedBy(l, slot) ==
  /\ \A j \in DOMAIN l : l[j].type = "ACCESS_DENIED" => slot[j] \in Requests
  /\ \A j, k \in DOMAIN l :
       /\ j < k /\ l[j].type = "ACCESS_DENIED" /\ l[k].type = "ACCESS_DENIED"
       /\ l[j].by = l[k].by /\ slot[j] = slot[k]
       => l[j].at > l[k].at + Window

Clear(l, slot, r) ==
  req[r].op = "denial" =>
    /\ req[r].at <= now
    /\ req[r].checked =>
         \A j \in DOMAIN l : l[j].type = "ACCESS_DENIED" /\ l[j].by = req[r].by /\ slot[j] = r
                               => l[j].at + Window < req[r].at

Spaced ==
  \E slot \in [DOMAIN log -> Requests \union {NoUser}] :
    SpacedBy(log, slot) /\ \A r \in Requests : Clear(log, slot, r)

Untouched(l) == \A j \in DOMAIN l : ~l[j].due /\ l[j].shown = 0 /\ ~l[j].cursor

Behind(e) == e.shown < 2 /\ (e.due => e.shown = 1)

Marked(w, l) ==
  /\ w.first => Untouched(l) /\ w.pc # "done"
  /\ ~w.first /\ w.pc # "done" =>
       \E c \in DOMAIN l : /\ l[c].cursor /\ \A j \in DOMAIN l \ {c} : ~l[j].cursor
                           /\ \A j \in DOMAIN l : IF j <= c THEN Behind(l[j]) ELSE l[j].shown = 0
  /\ w.pc = "done" => \A j \in DOMAIN l : Behind(l[j])

Walking ==
  IF client \in WalkState THEN Marked(client, log) ELSE Untouched(log)

IInv == Typed /\ ClientOK /\ Spaced /\ Walking

-------------------------------------------------------------------------------
(* Rows of the log.                                                         *)

\* A row found its place.
Inserted(l, m, e, place) ==
  /\ place \in 1..(Len(l) + 1)
  /\ m \in Seq(Event) /\ Len(m) = Len(l) + 1
  /\ m[place] = e
  /\ \A j \in 1..(place - 1) : m[j] = l[j]
  /\ \A j \in (place + 1)..(Len(l) + 1) : m[j] = l[j - 1]

LEMMA InsertAtFacts ==
  ASSUME NEW l \in Seq(Event), NEW e \in Event, NEW place \in 1..(Len(l) + 1)
  PROVE  Inserted(l, InsertAt(l, place, e), e, place)
<1>1. Len(l) \in Nat
  OBVIOUS
<1>2. /\ SubSeq(l, 1, place - 1) \in Seq(Event) /\ Len(SubSeq(l, 1, place - 1)) = place - 1
      /\ \A j \in 1..(place - 1) : SubSeq(l, 1, place - 1)[j] = l[j]
  BY <1>1
<1>3. /\ SubSeq(l, place, Len(l)) \in Seq(Event) /\ Len(SubSeq(l, place, Len(l))) = Len(l) + 1 - place
      /\ \A j \in 1..(Len(l) + 1 - place) : SubSeq(l, place, Len(l))[j] = l[j + place - 1]
  BY <1>1
<1> DEFINE a == SubSeq(l, 1, place - 1)
           c == SubSeq(l, place, Len(l))
           m == (a \o <<e>>) \o c
<1>4. InsertAt(l, place, e) = m
  BY DEF InsertAt
<1> HIDE DEF a, c
<1>5. /\ a \o <<e>> \in Seq(Event) /\ Len(a \o <<e>>) = place
      /\ \A j \in 1..(place - 1) : (a \o <<e>>)[j] = l[j]
      /\ (a \o <<e>>)[place] = e
  BY <1>1, <1>2 DEF a
<1>6. /\ c \in Seq(Event) /\ Len(c) = Len(l) + 1 - place
      /\ \A j \in 1..(Len(l) + 1 - place) : c[j] = l[j + place - 1]
  BY <1>3 DEF c
<1> DEFINE b == a \o <<e>>
<1> HIDE DEF b
<1>7. m \in Seq(Event) /\ Len(m) = Len(l) + 1
  BY <1>1, <1>5, <1>6 DEF b
<1>8. /\ \A j \in 1..place : m[j] = b[j]
      /\ \A j \in (place + 1)..(Len(l) + 1) : m[j] = c[j - place]
  BY SMTT(60), <1>1, <1>5, <1>6 DEF b
<1>9. \A j \in (place + 1)..(Len(l) + 1) : m[j] = l[j - 1]
  <2> SUFFICES ASSUME NEW j \in (place + 1)..(Len(l) + 1) PROVE m[j] = l[j - 1]
    OBVIOUS
  <2>1. j - place \in 1..(Len(l) + 1 - place) /\ (j - place) + place - 1 = j - 1
    BY <1>1
  <2>2. m[j] = c[j - place]
    BY <1>8
  <2> HIDE DEF m
  <2> QED
    BY <1>6, <2>1, <2>2
<1>10. m[place] = e /\ \A j \in 1..(place - 1) : m[j] = l[j]
  BY <1>1, <1>5, <1>8 DEF b
<1> HIDE DEF m
<1> QED
  BY <1>4, <1>7, <1>9, <1>10 DEF Inserted

\* A row is of a time that has come.
LEMMA NowFacts ==
  ASSUME Typed
  PROVE  /\ now \in Nat /\ MaxTime \in Nat /\ Window \in Nat /\ PageSize \in Nat \ {0} /\ MaxWrites \in Nat
         /\ 0..now \subseteq Times /\ Times \subseteq Nat /\ log \in Seq(Event) /\ version \in Nat
         /\ \A e \in Event : e.at \in Nat /\ e.shown \in Nat
         /\ IsFiniteSet(Requests) /\ SeverityInputs \subseteq Severities
<1>1. MaxTime \in Nat /\ Window \in Nat /\ PageSize \in Nat \ {0} /\ MaxWrites \in Nat
      /\ IsFiniteSet(Requests) /\ SeverityInputs \subseteq Severities
  BY SizesAssumption
<1>2. now \in 0..MaxTime /\ log \in Seq(Event) /\ version \in 0..MaxWrites
  BY DEF Typed, Times, LogOK
<1>3. 0..now \subseteq Times /\ Times \subseteq Nat
  BY <1>1, <1>2 DEF Times
<1>4. \A e \in Event : e.at \in Nat /\ e.shown \in Nat
  <2> SUFFICES ASSUME NEW e \in Event PROVE e.at \in Nat /\ e.shown \in Nat
    OBVIOUS
  <2>1. e.at \in Times /\ e.shown \in 0..2
    BY DEF Event
  <2>2. Times \subseteq Nat
    BY <1>3
  <2>3. e.shown \in Nat
    BY <2>1
  <2> QED
    BY <2>1, <2>2, <2>3
<1>5. version \in Nat
  BY <1>1, <1>2
<1>6. now \in Nat
  BY <1>2, <1>3 DEF Times
<1> QED
  BY <1>1, <1>2, <1>3, <1>4, <1>5, <1>6

-------------------------------------------------------------------------------
(* A new row finds its place.                                               *)

Fresh(type, by, at) ==
  [type |-> type, by |-> by, at |-> at, due |-> FALSE, shown |-> 0, cursor |-> FALSE]

\* Where the row at place j of the longer log was before.
OldPlace(place, j) == IF j < place THEN j ELSE j - 1

LEMMA OldPlaceFacts ==
  ASSUME NEW l \in Seq(Event), NEW m, NEW e, NEW place, Inserted(l, m, e, place)
  PROVE  /\ place \in Nat /\ place \in DOMAIN m /\ m[place] = e /\ Len(l) \in Nat
         /\ DOMAIN l = 1..Len(l) /\ DOMAIN m = 1..(Len(l) + 1)
         /\ \A j \in DOMAIN m \ {place} :
              /\ OldPlace(place, j) \in DOMAIN l /\ m[j] = l[OldPlace(place, j)]
              /\ j < place => OldPlace(place, j) \in 1..(place - 1)
              /\ j > place => OldPlace(place, j) \in place..Len(l)
         /\ \A j, k \in DOMAIN m \ {place} : j < k <=> OldPlace(place, j) < OldPlace(place, k)
         /\ \A c \in DOMAIN l : \E d \in DOMAIN m \ {place} : OldPlace(place, d) = c
<1>1. Len(l) \in Nat /\ DOMAIN l = 1..Len(l) /\ DOMAIN m = 1..(Len(l) + 1)
      /\ place \in 1..(Len(l) + 1) /\ m[place] = e
  BY DEF Inserted
<1>2. ASSUME NEW j \in 1..(Len(l) + 1), j # place
      PROVE  /\ OldPlace(place, j) \in DOMAIN l /\ m[j] = l[OldPlace(place, j)]
             /\ j < place => OldPlace(place, j) \in 1..(place - 1)
             /\ j > place => OldPlace(place, j) \in place..Len(l)
  <2>1. CASE j < place
    <3>1. j \in 1..(place - 1) /\ OldPlace(place, j) = j /\ j \in 1..Len(l) /\ ~(j > place)
      BY <1>1, <1>2, <2>1 DEF OldPlace
    <3>2. m[j] = l[j]
      BY <3>1 DEF Inserted
    <3> QED
      BY <1>1, <3>1, <3>2
  <2>2. CASE j > place
    <3>1. j \in (place + 1)..(Len(l) + 1) /\ OldPlace(place, j) = j - 1 /\ j - 1 \in 1..Len(l)
          /\ j - 1 \in place..Len(l) /\ ~(j < place)
      BY <1>1, <1>2, <2>2 DEF OldPlace
    <3>2. m[j] = l[j - 1]
      BY <3>1 DEF Inserted
    <3> QED
      BY <1>1, <3>1, <3>2
  <2> QED
    BY <1>1, <1>2, <2>1, <2>2
<1>3. ASSUME NEW j \in 1..(Len(l) + 1), NEW k \in 1..(Len(l) + 1), j # place, k # place
      PROVE  j < k <=> OldPlace(place, j) < OldPlace(place, k)
  BY <1>1, <1>3 DEF OldPlace
<1>4. ASSUME NEW c \in 1..Len(l)
      PROVE  \E d \in 1..(Len(l) + 1) : d # place /\ OldPlace(place, d) = c
  <2>1. CASE c < place
    <3>1. c \in 1..(Len(l) + 1) /\ c # place /\ OldPlace(place, c) = c
      BY <1>1, <1>4, <2>1 DEF OldPlace
    <3> QED
      BY <3>1
  <2>2. CASE ~(c < place)
    <3>1. c + 1 \in 1..(Len(l) + 1) /\ c + 1 # place /\ OldPlace(place, c + 1) = c
      BY <1>1, <1>4, <2>2 DEF OldPlace
    <3> QED
      BY <3>1
  <2> QED
    BY <2>1, <2>2
<1>5. place \in Nat
  BY <1>1
<1> QED
  BY <1>1, <1>2, <1>3, <1>4, <1>5

\* createAuditEvent: the log stays sorted.
Recorded(e, place) ==
  /\ Inserted(log, log', e, place)
  /\ \A j \in 1..(place - 1) : log[j].at >= e.at
  /\ \A j \in place..Len(log) : log[j].at <= e.at

LEMMA CreateFacts ==
  ASSUME Typed, NEW type \in EventTypes, NEW by \in Users \union {NoUser}, NEW at \in 0..now,
         CreateAuditEvent(type, by, at)
  PROVE  /\ Fresh(type, by, at) \in Event /\ Len(log) < MaxEvents /\ Len(log') = Len(log) + 1
         /\ Fresh(type, by, at).at <= now
         /\ \E place : Recorded(Fresh(type, by, at), place)
<1> DEFINE e == Fresh(type, by, at)
<1>1. e.at = at /\ e = [type |-> type, by |-> by, at |-> at, due |-> FALSE, shown |-> 0, cursor |-> FALSE]
  BY DEF Fresh
<1>2. e \in Event
  <2>1. at \in Times
    BY NowFacts
  <2> QED
    BY <2>1 DEF Event, Fresh
<1>3. PICK place \in 1..(Len(log) + 1) :
        /\ \A j \in 1..(place - 1) : log[j].at >= at
        /\ \A j \in place..Len(log) : log[j].at <= at
        /\ log' = InsertAt(log, place, e)
  <2> HIDE DEF e
  <2> QED
    BY <1>1 DEF CreateAuditEvent
<1>4. log \in Seq(Event)
  BY DEF Typed, LogOK
<1> HIDE DEF e
<1>5. Inserted(log, log', e, place)
  BY <1>2, <1>3, <1>4, InsertAtFacts
<1>6. Recorded(e, place)
  BY <1>1, <1>3, <1>5 DEF Recorded
<1>7. Len(log') = Len(log) + 1 /\ Len(log) < MaxEvents
  BY <1>5 DEF Inserted, CreateAuditEvent
<1>8. e.at <= now
  BY <1>1, NowFacts
<1> QED
  BY <1>2, <1>6, <1>7, <1>8 DEF e

LEMMA LogGrows ==
  ASSUME Typed, NEW e \in Event, NEW place, Recorded(e, place), e.at <= now, now' = now
  PROVE  LogOK(log)'
<1>1. /\ log \in Seq(Event) /\ log' \in Seq(Event)
      /\ \A j, k \in DOMAIN log : j < k => log[j].at >= log[k].at
      /\ \A j \in DOMAIN log : log[j].at <= now
  BY DEF Typed, LogOK, Recorded, Inserted
<1>2. /\ place \in Nat /\ place \in DOMAIN log' /\ log'[place] = e
      /\ DOMAIN log = 1..Len(log) /\ DOMAIN log' = 1..(Len(log) + 1)
      /\ \A j \in DOMAIN log' \ {place} :
           /\ OldPlace(place, j) \in DOMAIN log /\ log'[j] = log[OldPlace(place, j)]
           /\ j < place => OldPlace(place, j) \in 1..(place - 1)
           /\ j > place => OldPlace(place, j) \in place..Len(log)
      /\ \A j, k \in DOMAIN log' \ {place} : j < k <=> OldPlace(place, j) < OldPlace(place, k)
      /\ Len(log) \in Nat
  BY <1>1, OldPlaceFacts DEF Recorded
<1>3. ASSUME NEW j \in DOMAIN log', NEW k \in DOMAIN log', j < k
      PROVE  log'[j].at >= log'[k].at
  <2>1. CASE j # place /\ k # place
    BY <1>1, <1>2, <1>3, <2>1
  <2>2. CASE j = place
    <3>1. k # place /\ k > place
      BY <1>2, <1>3, <2>2
    <3>2. OldPlace(place, k) \in place..Len(log) /\ log'[k] = log[OldPlace(place, k)]
      BY <1>2, <3>1
    <3>3. log[OldPlace(place, k)].at <= e.at
      BY <3>2 DEF Recorded
    <3>4. log[OldPlace(place, k)].at \in Nat /\ e.at \in Nat
      BY <1>1, <1>2, <3>1, NowFacts
    <3> QED
      BY <1>2, <2>2, <3>2, <3>3, <3>4
  <2>3. CASE k = place
    <3>1. j # place /\ j < place
      BY <1>2, <1>3, <2>3
    <3>2. OldPlace(place, j) \in 1..(place - 1) /\ log'[j] = log[OldPlace(place, j)]
      BY <1>2, <3>1
    <3>3. log[OldPlace(place, j)].at >= e.at
      BY <3>2 DEF Recorded
    <3> QED
      BY <1>2, <2>3, <3>2, <3>3
  <2> QED
    BY <2>1, <2>2, <2>3
<1>4. \A j \in DOMAIN log' : log'[j].at <= now
  BY <1>1, <1>2
<1> QED
  BY <1>1, <1>3, <1>4 DEF LogOK

LEMMA SlotsGrow ==
  ASSUME Typed, NEW e \in Event, NEW place, Recorded(e, place),
         NEW slot \in [DOMAIN log -> Requests \union {NoUser}], SpacedBy(log, slot),
         NEW s \in Requests \union {NoUser},
         e.type = "ACCESS_DENIED" =>
           /\ s \in Requests
           /\ \A j \in DOMAIN log : log[j].type = "ACCESS_DENIED" /\ log[j].by = e.by /\ slot[j] = s
                                      => log[j].at + Window < e.at
  PROVE  \E new \in [DOMAIN log' -> Requests \union {NoUser}] :
           /\ SpacedBy(log', new)
           /\ \A j \in DOMAIN log' : \/ log'[j] = e /\ new[j] = s
                                     \/ \E k \in DOMAIN log : log'[j] = log[k] /\ new[j] = slot[k]
<1>1. log \in Seq(Event) /\ log' \in Seq(Event)
  BY DEF Typed, LogOK, Recorded, Inserted
<1>2. /\ place \in Nat /\ place \in DOMAIN log' /\ log'[place] = e
      /\ DOMAIN log = 1..Len(log) /\ DOMAIN log' = 1..(Len(log) + 1)
      /\ \A j \in DOMAIN log' \ {place} :
           /\ OldPlace(place, j) \in DOMAIN log /\ log'[j] = log[OldPlace(place, j)]
           /\ j < place => OldPlace(place, j) \in 1..(place - 1)
           /\ j > place => OldPlace(place, j) \in place..Len(log)
      /\ \A j, k \in DOMAIN log' \ {place} : j < k <=> OldPlace(place, j) < OldPlace(place, k)
      /\ Len(log) \in Nat
  BY <1>1, OldPlaceFacts DEF Recorded
<1> DEFINE new == [j \in DOMAIN log' |-> IF j = place THEN s ELSE slot[OldPlace(place, j)]]
<1>3. new \in [DOMAIN log' -> Requests \union {NoUser}]
  BY <1>2
<1>4. new[place] = s /\ \A j \in DOMAIN log' \ {place} : new[j] = slot[OldPlace(place, j)]
  BY <1>2
<1> HIDE DEF new
<1>5. ASSUME NEW j \in DOMAIN log', log'[j].type = "ACCESS_DENIED"
      PROVE  new[j] \in Requests
  BY <1>2, <1>4, <1>5 DEF SpacedBy
<1>6. ASSUME NEW j \in DOMAIN log', NEW k \in DOMAIN log', j < k,
             log'[j].type = "ACCESS_DENIED", log'[k].type = "ACCESS_DENIED",
             log'[j].by = log'[k].by, new[j] = new[k]
      PROVE  log'[j].at > log'[k].at + Window
  <2>1. CASE j # place /\ k # place
    <3>1. /\ OldPlace(place, j) \in DOMAIN log /\ log'[j] = log[OldPlace(place, j)]
          /\ OldPlace(place, k) \in DOMAIN log /\ log'[k] = log[OldPlace(place, k)]
          /\ OldPlace(place, j) < OldPlace(place, k)
          /\ slot[OldPlace(place, j)] = slot[OldPlace(place, k)]
      BY <1>2, <1>4, <1>6, <2>1
    <3> QED
      BY <1>6, <3>1 DEF SpacedBy
  <2>2. CASE j = place
    <3>1. k # place
      BY <1>2, <1>6, <2>2
    <3>2. OldPlace(place, k) \in DOMAIN log /\ log'[k] = log[OldPlace(place, k)]
          /\ slot[OldPlace(place, k)] = s /\ log'[j] = e
      BY <1>2, <1>4, <1>6, <2>2, <3>1
    <3>3. log'[k].at + Window < e.at
      BY <1>6, <3>2
    <3>4. log'[k].at \in Nat /\ e.at \in Nat /\ Window \in Nat
      BY <1>1, <3>2, NowFacts
    <3> QED
      BY <3>2, <3>3, <3>4
  <2>3. CASE k = place
    <3>1. j # place /\ j < place
      BY <1>2, <1>6, <2>3
    <3>2. OldPlace(place, j) \in DOMAIN log /\ log'[j] = log[OldPlace(place, j)]
          /\ slot[OldPlace(place, j)] = s /\ log'[k] = e /\ OldPlace(place, j) \in 1..(place - 1)
      BY <1>2, <1>4, <1>6, <2>3, <3>1
    <3>3. log'[j].at + Window < e.at /\ log'[j].at >= e.at
      BY <1>6, <3>2 DEF Recorded
    <3>4. log'[j].at \in Nat /\ e.at \in Nat /\ Window \in Nat
      BY <1>1, <3>2, NowFacts
    <3> QED
      BY <3>3, <3>4
  <2> QED
    BY <2>1, <2>2, <2>3
<1>7. SpacedBy(log', new)
  BY <1>5, <1>6 DEF SpacedBy
<1>8. \A j \in DOMAIN log' : \/ log'[j] = e /\ new[j] = s
                             \/ \E k \in DOMAIN log : log'[j] = log[k] /\ new[j] = slot[k]
  BY <1>2, <1>4
<1> QED
  BY <1>3, <1>7, <1>8

\* A row that comes late is not owed, wherever it comes.
LEMMA MarksGrow ==
  ASSUME NEW l \in Seq(Event), NEW m, NEW e \in Event, NEW place, Inserted(l, m, e, place),
         ~e.due, e.shown = 0, ~e.cursor, NEW w
  PROVE  /\ Untouched(l) => Untouched(m)
         /\ Marked(w, l) => Marked(w, m)
<1>1. /\ place \in Nat /\ place \in DOMAIN m /\ m[place] = e /\ Len(l) \in Nat
      /\ DOMAIN l = 1..Len(l) /\ DOMAIN m = 1..(Len(l) + 1)
      /\ \A j \in DOMAIN m \ {place} : OldPlace(place, j) \in DOMAIN l /\ m[j] = l[OldPlace(place, j)]
      /\ \A j, k \in DOMAIN m \ {place} : j < k <=> OldPlace(place, j) < OldPlace(place, k)
      /\ \A c \in DOMAIN l : \E d \in DOMAIN m \ {place} : OldPlace(place, d) = c
  BY OldPlaceFacts
<1>2. Untouched(l) => Untouched(m)
  BY <1>1 DEF Untouched
<1>3. Behind(e)
  BY DEF Behind
<1>4. ASSUME Marked(w, l)
      PROVE  Marked(w, m)
  <2>1. w.first => Untouched(m) /\ w.pc # "done"
    BY <1>2, <1>4 DEF Marked
  <2>2. ASSUME ~w.first, w.pc # "done"
        PROVE  \E c \in DOMAIN m : /\ m[c].cursor /\ \A j \in DOMAIN m \ {c} : ~m[j].cursor
                                   /\ \A j \in DOMAIN m : IF j <= c THEN Behind(m[j]) ELSE m[j].shown = 0
    <3>1. PICK c \in DOMAIN l : /\ l[c].cursor /\ \A j \in DOMAIN l \ {c} : ~l[j].cursor
                                /\ \A j \in DOMAIN l : IF j <= c THEN Behind(l[j]) ELSE l[j].shown = 0
      BY <1>4, <2>2 DEF Marked
    <3>2. PICK d \in DOMAIN m \ {place} : OldPlace(place, d) = c
      BY <1>1
    <3>3. m[d].cursor
      BY <1>1, <3>1, <3>2
    <3>4. ASSUME NEW j \in DOMAIN m, j # place, j # d
          PROVE  /\ OldPlace(place, j) # c /\ OldPlace(place, j) \in DOMAIN l
                 /\ m[j] = l[OldPlace(place, j)] /\ (j <= d <=> OldPlace(place, j) <= c)
      <4>1. j \in Nat /\ d \in Nat /\ OldPlace(place, j) \in DOMAIN l
        BY <1>1, <3>2, <3>4
      <4>2. (j < d <=> OldPlace(place, j) < c) /\ (d < j <=> c < OldPlace(place, j))
        BY <1>1, <3>2, <3>4
      <4>3. OldPlace(place, j) \in Nat /\ c \in Nat
        BY <1>1, <4>1
      <4> QED
        BY <1>1, <3>4, <4>1, <4>2, <4>3
    <3>5. \A j \in DOMAIN m \ {d} : ~m[j].cursor
      BY <1>1, <3>1, <3>4
    <3>6. ASSUME NEW j \in DOMAIN m
          PROVE  IF j <= d THEN Behind(m[j]) ELSE m[j].shown = 0
      <4>1. CASE j = place
        BY <1>1, <1>3, <4>1
      <4>2. CASE j = d
        BY <1>1, <3>1, <3>2, <4>2
      <4>3. CASE j # place /\ j # d
        BY <3>1, <3>4, <4>3
      <4> QED
        BY <4>1, <4>2, <4>3
    <3> QED
      BY <3>3, <3>5, <3>6
  <2>3. w.pc = "done" => \A j \in DOMAIN m : Behind(m[j])
    BY <1>1, <1>3, <1>4 DEF Marked
  <2> QED
    BY <2>1, <2>2, <2>3 DEF Marked
<1> QED
  BY <1>2, <1>4

-------------------------------------------------------------------------------
(* What a step leaves as it was.                                            *)

LEMMA ClientShape ==
  ASSUME Typed
  PROVE  /\ client.pc = "idle" => client = Idle
         /\ client.pc = "viewing" <=> client \in ViewState
         /\ client.pc \in {"between", "authenticated", "gated", "done"} <=> client \in WalkState
<1>1. client = Idle \/ client \in ViewState \/ client \in WalkState
  BY DEF Typed
<1>2. Idle.pc = "idle" /\ (\A v \in ViewState : v.pc = "viewing")
      /\ \A w \in WalkState : w.pc \in {"between", "authenticated", "gated", "done"}
  BY DEF Idle, ViewState, WalkState
<1> QED
  BY <1>1, <1>2

\* A walk is marked by these fields alone.
LEMMA MarkedSame ==
  ASSUME NEW w, NEW v, NEW l, Marked(w, l), v.first = w.first, v.pc = "done" <=> w.pc = "done"
  PROVE  Marked(v, l)
BY DEF Marked

\* What the history of a request becomes when users and incident are written.
LEMMA WatchedFacts ==
  ASSUME Typed, NEW users \in [Users -> Profiles], NEW new
  PROVE  /\ Watched(users, new) \in {Idle} \union ViewState \union WalkState
         /\ Watched(users, new) \in WalkState <=> client \in WalkState
         /\ client \notin WalkState => Watched(users, new) = client
         /\ client \in WalkState =>
              /\ Watched(users, new).first = client.first /\ Watched(users, new).pc = client.pc
              /\ Watched(users, new).list = client.list /\ Watched(users, new).by = client.by
              /\ Watched(users, new).actor = client.actor /\ Watched(users, new).canSee = client.canSee
              /\ client.held \subseteq Watched(users, new).held
              /\ client.could => Watched(users, new).could
         /\ client.pc \in {"authenticated", "gated"} =>
              \A p \in Watched(users, new).held :
                CanReadNotes(client.by, p, new) => Watched(users, new).could
<1>1. CASE client.pc \in {"authenticated", "gated"}
  <2>0. client \in WalkState
    BY <1>1, ClientShape
  <2> DEFINE held == client.held \union {users[client.by]}
             could == client.could \/ \E p \in held : CanReadNotes(client.by, p, new)
  <2>1. held \in SUBSET Profiles /\ client.held \subseteq held
    BY <2>0 DEF WalkState
  <2>2. could \in BOOLEAN /\ (client.could => could)
        /\ \A p \in held : CanReadNotes(client.by, p, new) => could
    BY <2>0 DEF WalkState
  <2>3. Watched(users, new) = [client EXCEPT !.held = held, !.could = could]
    BY <1>1, <2>0 DEF Watched, WalkState
  <2> HIDE DEF held, could
  <2> QED
    BY <2>0, <2>1, <2>2, <2>3 DEF WalkState
<1>2. CASE client.pc \notin {"authenticated", "gated"}
  <2>1. Watched(users, new) = client
    BY <1>2 DEF Watched
  <2> QED
    BY <1>2, <2>1 DEF Typed
<1> QED
  BY <1>1, <1>2

\* So the client stays what it may be.
LEMMA WatchedKeeps ==
  ASSUME Typed, ClientOK, NEW users \in [Users -> Profiles], NEW new,
         client' = Watched(users, new), row' = new, version' \in Nat, version <= version',
         version' = version => new = row
  PROVE  ClientOK'
<1>1. ASSUME client' \in ViewState
      PROVE  /\ client'.version <= version'
             /\ client'.version = version' => client'.offers = ComputeActions(client'.by, client'.actor, row')
  <2>1. client \notin WalkState
    <3>1. client'.pc = "viewing"
      BY <1>1 DEF ViewState
    <3>2. client \in WalkState => client'.pc = client.pc /\ client.pc # "viewing"
      BY WatchedFacts DEF WalkState
    <3> QED
      BY <3>1, <3>2
  <2>2. client' = client
    BY <2>1, WatchedFacts
  <2>3. client.version <= version /\ client.version \in Nat /\ version \in Nat
    BY <1>1, <2>2, NowFacts DEF ClientOK, ViewState
  <2>4. client.version <= version'
    BY <2>3
  <2>5. ASSUME client.version = version'
        PROVE  client.offers = ComputeActions(client.by, client.actor, row')
    <3>1. client.version = version /\ version' = version
      BY <2>3, <2>5
    <3>2. client.offers = ComputeActions(client.by, client.actor, row) /\ row' = row
      BY <1>1, <2>2, <3>1 DEF ClientOK
    <3> QED
      BY <3>2 DEF ComputeActions, CanManage, CanReadNotes, CanWriteNotes
  <2> QED
    BY <2>2, <2>4, <2>5
<1>2. ASSUME client'.pc \in {"authenticated", "gated"}
      PROVE  /\ client'.actor \in client'.held
             /\ client'.pc = "authenticated" =>
                  \A p \in client'.held : CanReadNotes(client'.by, p, row') => client'.could
             /\ client'.pc = "gated" => (client'.canSee => client'.could)
  <2>1. client \in WalkState
    <3>1. client \notin WalkState => client' = client /\ client.pc \notin {"authenticated", "gated"}
      BY WatchedFacts, ClientShape
    <3> QED
      BY <1>2, <3>1
  <2>2. /\ client'.pc = client.pc /\ client'.by = client.by /\ client'.actor = client.actor
        /\ client'.canSee = client.canSee /\ client.held \subseteq client'.held
        /\ client.could => client'.could
        /\ \A p \in client'.held : CanReadNotes(client.by, p, new) => client'.could
    BY <1>2, <2>1, WatchedFacts
  <2> QED
    BY <1>2, <2>2 DEF ClientOK
<1> QED
  BY <1>1, <1>2 DEF ClientOK, ComputeActions, CanManage, CanReadNotes, CanWriteNotes

\* A row is recorded: s is the slot of the refusal it is of.
LEMMA RecordKeeps ==
  ASSUME IInv, NEW type \in EventTypes, NEW by \in Users \union {NoUser}, NEW at \in 0..now,
         CreateAuditEvent(type, by, at), now' = now, NEW s \in Requests \union {NoUser},
         type = "ACCESS_DENIED" =>
           /\ s \in Requests /\ req[s].op = "denial" /\ req[s].checked
           /\ by = req[s].by /\ at = req[s].at /\ req'[s].op # "denial",
         \A r \in Requests : req'[r] = req[r] \/ req'[r].op # "denial"
  PROVE  /\ LogOK(log)' /\ Spaced'
         /\ Untouched(log) => Untouched(log')
         /\ \A w : Marked(w, log) => Marked(w, log')
<1> DEFINE e == Fresh(type, by, at)
<1>0. Typed /\ log \in Seq(Event)
  BY DEF IInv, Typed, LogOK
<1>1. /\ e \in Event /\ Len(log) < MaxEvents /\ Len(log') = Len(log) + 1 /\ e.at <= now
      /\ \E place : Recorded(e, place)
  BY <1>0, CreateFacts
<1>2. e.type = type /\ e.by = by /\ e.at = at /\ ~e.due /\ e.shown = 0 /\ ~e.cursor
  BY DEF Fresh
<1> HIDE DEF e
<1>3. PICK place : Recorded(e, place)
  BY <1>1
<1>4. LogOK(log)'
  BY <1>0, <1>1, <1>3, LogGrows
<1>5. (Untouched(log) => Untouched(log')) /\ \A w : Marked(w, log) => Marked(w, log')
  BY <1>0, <1>1, <1>2, <1>3, MarksGrow DEF Recorded
<1>6. PICK slot \in [DOMAIN log -> Requests \union {NoUser}] :
        SpacedBy(log, slot) /\ \A r \in Requests : Clear(log, slot, r)
  BY DEF IInv, Spaced
<1>7. e.type = "ACCESS_DENIED" =>
        /\ s \in Requests
        /\ \A j \in DOMAIN log : log[j].type = "ACCESS_DENIED" /\ log[j].by = e.by /\ slot[j] = s
                                   => log[j].at + Window < e.at
  BY <1>2, <1>6 DEF Clear
<1>8. PICK new \in [DOMAIN log' -> Requests \union {NoUser}] :
        /\ SpacedBy(log', new)
        /\ \A j \in DOMAIN log' : \/ log'[j] = e /\ new[j] = s
                                  \/ \E k \in DOMAIN log : log'[j] = log[k] /\ new[j] = slot[k]
  BY SMTT(60), <1>0, <1>1, <1>3, <1>6, <1>7, SlotsGrow
<1>9. ASSUME NEW r \in Requests
      PROVE  Clear(log, new, r)'
  <2>1. SUFFICES ASSUME req'[r].op = "denial"
                 PROVE  /\ req'[r].at <= now
                        /\ req'[r].checked =>
                             \A j \in DOMAIN log' :
                               log'[j].type = "ACCESS_DENIED" /\ log'[j].by = req'[r].by /\ new[j] = r
                                 => log'[j].at + Window < req'[r].at
    BY DEF Clear
  <2>2. req'[r] = req[r] /\ Clear(log, slot, r)
    BY <1>6, <2>1
  <2>3. ASSUME NEW j \in DOMAIN log', log'[j].type = "ACCESS_DENIED", log'[j].by = req'[r].by, new[j] = r,
               req'[r].checked
        PROVE  log'[j].at + Window < req'[r].at
    <3>1. CASE log'[j] = e /\ new[j] = s
      BY <1>2, <2>1, <2>3, <3>1
    <3>2. CASE \E k \in DOMAIN log : log'[j] = log[k] /\ new[j] = slot[k]
      BY <2>1, <2>2, <2>3, <3>2 DEF Clear
    <3> QED
      BY <1>8, <3>1, <3>2
  <2> QED
    BY <2>1, <2>2, <2>3 DEF Clear
<1>10. Spaced'
  BY <1>8, <1>9 DEF Spaced
<1> QED
  BY <1>1, <1>4, <1>5, <1>10

LEMMA SpacedSame ==
  ASSUME IInv, log' = log, now' \in Nat, now <= now', req' \in [Requests -> {NoRequest} \union NoteState \union DenialState],
         \A r \in Requests :
           \/ req'[r] = req[r]
           \/ req'[r].op # "denial"
           \/ /\ req'[r].at <= now'
              /\ req'[r].checked =>
                   \A j \in DOMAIN log : log[j].type = "ACCESS_DENIED" /\ log[j].by = req'[r].by
                                           => log[j].at + Window < req'[r].at
  PROVE  Spaced' /\ LogOK(log)'
<1>0. Typed /\ now \in Nat
  BY NowFacts DEF IInv
<1>1. PICK slot \in [DOMAIN log -> Requests \union {NoUser}] :
        SpacedBy(log, slot) /\ \A r \in Requests : Clear(log, slot, r)
  BY DEF IInv, Spaced
<1>2. ASSUME NEW r \in Requests
      PROVE  Clear(log, slot, r)'
  <2>1. CASE req'[r] = req[r] /\ req[r].op = "denial"
    <3>1. req[r].at \in Nat
      <4>1. req[r] \in DenialState
        BY <1>0, <2>1 DEF Typed, NoRequest, NoteState
      <4> QED
        BY <1>0, <4>1, NowFacts DEF DenialState
    <3>2. Clear(log, slot, r)
      BY <1>1
    <3>3. req[r].at <= now'
      BY <1>0, <2>1, <3>1, <3>2 DEF Clear
    <3> QED
      BY <2>1, <3>2, <3>3 DEF Clear
  <2>2. CASE req'[r].op # "denial"
    BY <2>2 DEF Clear
  <2>3. CASE req'[r] # req[r] /\ req'[r].op = "denial"
    BY <2>3 DEF Clear
  <2> QED
    BY <2>1, <2>2, <2>3
<1>3. Spaced'
  BY <1>1, <1>2 DEF Spaced
<1>4. LogOK(log)'
  <2>1. LogOK(log)
    BY <1>0 DEF Typed
  <2>2. ASSUME NEW j \in DOMAIN log PROVE log[j].at <= now'
    <3>1. log[j].at <= now /\ log[j].at \in Nat
      BY <1>0, <2>1, NowFacts DEF LogOK
    <3> QED
      BY <1>0, <3>1
  <2> QED
    BY <2>1, <2>2 DEF LogOK
<1> QED
  BY <1>3, <1>4

\* A walk stays marked as the log is.
LEMMA WatchedWalks ==
  ASSUME Typed, Walking, NEW users \in [Users -> Profiles], NEW new, client' = Watched(users, new),
         Untouched(log) => Untouched(log'), \A w : Marked(w, log) => Marked(w, log')
  PROVE  Walking'
<1>1. CASE client \in WalkState
  <2>1. Marked(client, log')
    BY <1>1 DEF Walking
  <2>2. client' \in WalkState /\ client'.first = client.first /\ client'.pc = client.pc
    BY <1>1, WatchedFacts
  <2>3. Marked(client', log')
    BY <2>1, <2>2, MarkedSame
  <2> QED
    BY <2>2, <2>3 DEF Walking
<1>2. CASE client \notin WalkState
  <2>1. client' \notin WalkState
    BY <1>2, WatchedFacts
  <2> QED
    BY <1>2, <2>1 DEF Walking
<1> QED
  BY <1>1, <1>2

-------------------------------------------------------------------------------
(* The endpoints.                                                           *)

\* A write that leaves a row of the table.
LEMMA BecomesKeeps ==
  ASSUME IInv, NEW users \in [Users -> Profiles], \A u \in Users : users[u] \in ProfilesOf[u],
         user' = users, changes' \in 0..MaxWrites, version < MaxWrites, NEW new \in Rows,
         Becomes(users, new)
  PROVE  IInv'
<1>0. Typed /\ ClientOK /\ Walking
  BY DEF IInv
<1>1. row' = new /\ version' = version + 1 /\ client' = Watched(users, new) /\ now' = now /\ req' = req
  BY DEF Becomes, NextVersion
<1>2. PICK at \in 0..now : CreateAuditEvent("CHANGE", NoUser, at)
  BY DEF Becomes
<1>3. LogOK(log)' /\ Spaced' /\ (Untouched(log) => Untouched(log'))
      /\ \A w : Marked(w, log) => Marked(w, log')
  <2>1. "CHANGE" \in EventTypes
    BY DEF EventTypes
  <2> QED
    BY <1>1, <1>2, <2>1, RecordKeeps
<1>4. version \in Nat /\ version' \in 0..MaxWrites /\ version' \in Nat /\ version <= version' /\ version' # version
  BY <1>0, <1>1, NowFacts
<1>5. Typed'
  <2>1. client' \in {Idle} \union ViewState \union WalkState
    BY <1>0, <1>1, WatchedFacts
  <2> QED
    BY <1>0, <1>1, <1>3, <1>4, <2>1 DEF Typed
<1>6. ClientOK'
  BY <1>0, <1>1, <1>4, WatchedKeeps
<1>7. Walking'
  BY <1>0, <1>1, <1>3, WatchedWalks
<1> QED
  BY <1>3, <1>5, <1>6, <1>7 DEF IInv

\* Profiles change, the incident does not.
LEMMA AloneKeeps ==
  ASSUME IInv, NEW users \in [Users -> Profiles], \A u \in Users : users[u] \in ProfilesOf[u],
         user' = users, changes' \in 0..MaxWrites, client' = Watched(users, row),
         UNCHANGED <<row, version, log, now, req>>
  PROVE  IInv'
<1>0. Typed /\ ClientOK /\ Walking /\ version \in Nat /\ now \in Nat
  BY NowFacts DEF IInv
<1>1. client' \in {Idle} \union ViewState \union WalkState
  BY <1>0, WatchedFacts
<1>2. req' \in [Requests -> {NoRequest} \union NoteState \union DenialState] /\ now <= now'
  BY <1>0 DEF Typed
<1>3. Spaced' /\ LogOK(log)'
  BY <1>0, <1>2, SpacedSame
<1>4. Typed'
  BY <1>0, <1>1, <1>3 DEF Typed
<1>5. ClientOK'
  BY <1>0, WatchedKeeps
<1>6. Walking'
  BY <1>0, WatchedWalks
<1> QED
  BY <1>3, <1>4, <1>5, <1>6 DEF IInv

\* Each edit leaves a row of the table.
LEMMA EditKeeps ==
  ASSUME IInv, Edit
  PROVE  IInv'
<1>1. row \in Rows
  BY DEF IInv, Typed
<1>2. NoUser \in Users \union {NoUser} /\ {"TRIAGE", "INVESTIGATION", "PENDING_CLOSURE", "CLOSED"} \subseteq Stages
  BY DEF Stages
<1>3. Triaged(row) \in Rows /\ Acknowledged(row) \in Rows /\ Proposed(row) \in Rows
      /\ Approved(row) \in Rows /\ Rejected(row) \in Rows
  BY <1>1, <1>2 DEF Rows, Triaged, Acknowledged, Proposed, Approved, Rejected
<1>4. Unassigned(row, row) \in Rows /\ \A who \in Users : Assigned(row, row, who) \in Rows
  BY <1>1, <1>2 DEF Rows, Unassigned, Assigned
<1>5. ASSUME NEW next \in SeverityInputs, NEW dropped
      PROVE  SeverityChanged(row, row, next, dropped) \in Rows
  <2> DEFINE rule == ClockRule(row.severity, next)
             clockSet == rule = "restart" \/ (rule = "keep" /\ row.clockSet)
             cycle == IF rule = "restart" THEN row.cycle + 1 ELSE row.cycle
             acked == rule # "restart" /\ row.acked
             assignee == IF dropped # NoUser THEN NoUser ELSE row.assignee
             stage == IF dropped # NoUser /\ row.stage = "INVESTIGATION" THEN "TRIAGE" ELSE row.stage
  <2>1. clockSet \in BOOLEAN /\ acked \in BOOLEAN
    OBVIOUS
  <2>2. cycle \in Nat
    BY <1>1 DEF Rows
  <2>3. assignee \in Users \union {NoUser} /\ stage \in Stages
    BY <1>1, <1>2 DEF Rows
  <2>4. SeverityChanged(row, row, next, dropped) =
          [row EXCEPT !.severity = next, !.clockSet = clockSet, !.cycle = cycle, !.acked = acked,
                      !.assignee = assignee, !.stage = stage]
    BY DEF SeverityChanged
  <2> HIDE DEF clockSet, cycle, acked, assignee, stage
  <2> QED
    BY <1>1, <2>1, <2>2, <2>3, <2>4 DEF Rows
<1>6. PICK new \in Rows : Write(new)
  BY <1>3, <1>4, <1>5 DEF Edit, ChangeSeverity, AssignInvestigator
<1>7. user' = user /\ changes' = changes /\ Becomes(user, new) /\ version + changes < MaxWrites
  BY <1>6 DEF Write, MayWrite
<1>8. /\ user \in [Users -> Profiles] /\ \A u \in Users : user[u] \in ProfilesOf[u]
      /\ changes \in 0..MaxWrites /\ version \in 0..MaxWrites /\ MaxWrites \in Nat
  BY NowFacts DEF IInv, Typed
<1>9. version < MaxWrites
  BY <1>7, <1>8
<1> QED
  BY <1>6, <1>7, <1>8, <1>9, BecomesKeeps

\* What administrators do to a user.
LEMMA ChangeKeeps ==
  ASSUME IInv, NEW u \in Users, NEW p \in ProfilesOf[u], ChangeRole(u, p) \/ ChangeClearance(u, p)
  PROVE  IInv'
<1> DEFINE users == [user EXCEPT ![u] = p]
<1>0. Typed
  BY DEF IInv
<1>1. /\ user \in [Users -> Profiles] /\ \A v \in Users : user[v] \in ProfilesOf[v]
      /\ changes \in 0..MaxWrites /\ version \in 0..MaxWrites /\ MaxWrites \in Nat
  BY <1>0, NowFacts DEF Typed
<1>2. p \in Profiles
  BY PeopleAssumption
<1>3. users \in [Users -> Profiles] /\ \A v \in Users : users[v] \in ProfilesOf[v]
  BY <1>1, <1>2
<1>4. version + changes < MaxWrites /\ changes' = changes + 1 /\ user' = users
  BY DEF ChangeRole, ChangeClearance, SetProfile, MayWrite
<1>5. version < MaxWrites /\ changes' \in 0..MaxWrites
  BY <1>1, <1>4
<1> HIDE DEF users
<1>6. CASE Alone(u, p)
  <2>1. client' = Watched(users, row) /\ UNCHANGED <<row, version, log, now, req>>
    BY <1>6 DEF Alone, users
  <2> QED
    BY <1>3, <1>4, <1>5, <2>1, AloneKeeps
<1>7. CASE Becomes(users, Unassigned(row, row))
  <2>1. Unassigned(row, row) \in Rows
    <3>1. row \in Rows /\ "TRIAGE" \in Stages
      BY <1>0 DEF Typed, Stages
    <3> QED
      BY <3>1 DEF Rows, Unassigned
  <2> QED
    BY <1>3, <1>4, <1>5, <1>7, <2>1, BecomesKeeps
<1>8. Alone(u, p) \/ Becomes(users, Unassigned(row, row))
  BY DEF ChangeRole, ChangeClearance, users
<1> QED
  BY <1>6, <1>7, <1>8

-------------------------------------------------------------------------------
(* Steps that leave the log as it is, or only its marks.                    *)

\* The walk is marked anew: the rows stay what they are.
LEMMA Remarked ==
  ASSUME IInv, NEW f \in [DOMAIN log -> Event], log' = f, UNCHANGED <<now, req>>,
         \A j \in DOMAIN log : f[j].type = log[j].type /\ f[j].by = log[j].by /\ f[j].at = log[j].at
  PROVE  LogOK(log)' /\ Spaced' /\ Len(log') = Len(log) /\ DOMAIN log' = DOMAIN log
<1>0. Typed /\ LogOK(log)
  BY DEF IInv, Typed
<1>1. Len(log) \in Nat /\ DOMAIN log = 1..Len(log)
  BY <1>0 DEF LogOK
<1>2. f \in Seq(Event) /\ Len(f) = Len(log) /\ DOMAIN f = DOMAIN log
  BY <1>1
<1>3. LogOK(log)'
  BY <1>0, <1>2 DEF LogOK
<1>4. PICK slot \in [DOMAIN log -> Requests \union {NoUser}] :
        SpacedBy(log, slot) /\ \A r \in Requests : Clear(log, slot, r)
  BY DEF IInv, Spaced
<1>5. SpacedBy(f, slot) /\ \A r \in Requests : Clear(log, slot, r)'
  BY SMTT(60), <1>2, <1>4 DEF SpacedBy, Clear
<1>6. Spaced'
  BY <1>2, <1>5 DEF Spaced
<1> QED
  BY <1>2, <1>3, <1>6

\* The client, the incident and its version alone decide it.
LEMMA ClientSame ==
  ASSUME UNCHANGED <<row, version, client>>
  PROVE  ClientOK' = ClientOK
BY DEF ClientOK, ComputeActions, CanManage, CanReadNotes, CanWriteNotes

LEMMA TickKeeps ==
  ASSUME IInv, Tick
  PROVE  IInv'
<1>0. Typed /\ ClientOK /\ Walking /\ now \in Nat /\ MaxTime \in Nat
  BY NowFacts DEF IInv
<1>1. now < MaxTime /\ now' = now + 1 /\ UNCHANGED <<user, changes, row, version, log, req, client>>
  BY DEF Tick
<1>2. now' \in Times /\ now' \in Nat /\ now <= now'
  BY <1>0, <1>1 DEF Times
<1>3. req' \in [Requests -> {NoRequest} \union NoteState \union DenialState]
  BY <1>0, <1>1 DEF Typed
<1>4. Spaced' /\ LogOK(log)'
  BY <1>1, <1>2, <1>3, SpacedSame
<1>5. Typed'
  BY <1>0, <1>1, <1>2, <1>4 DEF Typed
<1>6. ClientOK' /\ Walking'
  <2>1. ClientOK' = ClientOK
    BY <1>1, ClientSame
  <2>2. Walking' = Walking
    BY <1>1 DEF Walking
  <2> QED
    BY <1>0, <2>1, <2>2
<1> QED
  BY <1>4, <1>5, <1>6 DEF IInv

\* A step of the client alone.
LEMMA ClientKeeps ==
  ASSUME IInv, UNCHANGED <<user, changes, row, version, log, now, req>>,
         client' \in {Idle} \union ViewState \union WalkState, ClientOK', Walking'
  PROVE  IInv'
<1>0. Typed /\ now \in Nat
  BY NowFacts DEF IInv
<1>1. req' \in [Requests -> {NoRequest} \union NoteState \union DenialState] /\ now' \in Nat /\ now <= now'
  BY <1>0 DEF Typed
<1>2. Spaced' /\ LogOK(log)'
  BY <1>1, SpacedSame
<1>3. Typed'
  BY <1>0, <1>2 DEF Typed
<1> QED
  BY <1>2, <1>3 DEF IInv

LEMMA GetByIdKeeps ==
  ASSUME IInv, NEW u \in Users, GetById(u)
  PROVE  IInv'
<1>0. Typed /\ Walking /\ version \in Nat
  BY NowFacts DEF IInv
<1>1. client.pc \in {"idle", "viewing"} /\ UNCHANGED <<user, changes, row, version, log, now, req>>
      /\ client' = [pc |-> "viewing", by |-> u, actor |-> user[u], version |-> version,
                    offers |-> ComputeActions(u, user[u], row)]
  BY DEF GetById
<1>2. ComputeActions(u, user[u], row) \in Offers
  <2>1. /\ CanManage(user[u]) \in BOOLEAN
        /\ CanReadNotes(u, user[u], row) \in BOOLEAN /\ CanWriteNotes(u, user[u], row) \in BOOLEAN
    BY DEF CanManage, CanReadNotes, CanWriteNotes
  <2>2. row.rca \in BOOLEAN
    BY <1>0 DEF Typed, Rows
  <2> QED
    BY <2>1, <2>2 DEF ComputeActions, Offers
<1> DEFINE actions == ComputeActions(u, user[u], row)
<1>3. client' \in ViewState /\ client'.by = u /\ client'.actor = user[u] /\ client'.version = version
      /\ client'.offers = actions /\ client'.pc = "viewing"
  <2> HIDE DEF actions
  <2>1. /\ client' = [pc |-> "viewing", by |-> u, actor |-> user[u], version |-> version, offers |-> actions]
        /\ actions \in Offers /\ user[u] \in Profiles
    BY <1>0, <1>1, <1>2 DEF actions, Typed
  <2> QED
    BY <1>0, <2>1 DEF ViewState
<1>4. client' \notin WalkState /\ client \notin WalkState
  <2>1. client \notin WalkState
    BY <1>0, <1>1, ClientShape
  <2> QED
    BY <1>3, <2>1 DEF WalkState
<1>5. Walking'
  BY <1>0, <1>1, <1>4 DEF Walking
<1>6. ComputeActions(client'.by, client'.actor, row') = actions
  BY <1>1, <1>3
<1>7. ClientOK'
  <2> HIDE DEF actions
  <2> QED
    BY <1>0, <1>1, <1>3, <1>6 DEF ClientOK, ComputeActions, CanManage, CanReadNotes, CanWriteNotes
<1> QED
  BY <1>1, <1>3, <1>5, <1>7, ClientKeeps

\* A step of one request, the log left alone.
LEMMA RequestKeeps ==
  ASSUME IInv, NEW r \in Requests, NEW new \in {NoRequest} \union NoteState \union DenialState,
         req' = [req EXCEPT ![r] = new], UNCHANGED <<user, changes, row, version, log, now, client>>,
         new.op = "denial" =>
           /\ new.at <= now
           /\ new.checked => \A j \in DOMAIN log : log[j].type = "ACCESS_DENIED" /\ log[j].by = new.by
                                                     => log[j].at + Window < new.at
  PROVE  IInv'
<1>0. Typed /\ ClientOK /\ Walking /\ now \in Nat
  BY NowFacts DEF IInv
<1>1. /\ req' \in [Requests -> {NoRequest} \union NoteState \union DenialState]
      /\ req'[r] = new /\ \A s \in Requests \ {r} : req'[s] = req[s]
  BY <1>0 DEF Typed
<1>2. Spaced' /\ LogOK(log)'
  BY <1>0, <1>1, SpacedSame
<1>3. Typed'
  BY <1>0, <1>1, <1>2 DEF Typed
<1>4. ClientOK' /\ Walking'
  <2>1. ClientOK' = ClientOK
    BY ClientSame
  <2>2. Walking' = Walking
    BY DEF Walking
  <2> QED
    BY <1>0, <2>1, <2>2
<1> QED
  BY <1>2, <1>3, <1>4 DEF IInv

LEMMA BeginNoteKeeps ==
  ASSUME IInv, NEW r \in Requests, NEW u \in Users, BeginNote(r, u)
  PROVE  IInv'
<1> DEFINE new == [op |-> "note", from |-> now]
<1>1. new \in NoteState /\ new.op = "note"
  BY DEF IInv, Typed, NoteState
<1>2. req' = [req EXCEPT ![r] = new] /\ UNCHANGED <<user, changes, row, version, log, now, client>>
  BY DEF BeginNote
<1> HIDE DEF new
<1> QED
  BY <1>1, <1>2, RequestKeeps

LEMMA RefuseKeeps ==
  ASSUME IInv, NEW r \in Requests, NEW u \in Users, Refuse(r, u)
  PROVE  IInv'
<1> DEFINE new == [op |-> "denial", by |-> u, at |-> now, checked |-> FALSE]
<1>0. Typed /\ now \in Nat
  BY NowFacts DEF IInv
<1>1. new \in DenialState /\ new.at = now /\ ~new.checked
  BY <1>0 DEF Typed, DenialState
<1>2. req' = [req EXCEPT ![r] = new] /\ UNCHANGED <<user, changes, row, version, log, now, client>>
  BY DEF Refuse
<1>3. new.at <= now
  BY <1>0, <1>1
<1> HIDE DEF new
<1> QED
  BY <1>1, <1>2, <1>3, RequestKeeps

LEMMA LoseKeeps ==
  ASSUME IInv, NEW r \in Requests, Lose(r)
  PROVE  IInv'
<1>1. NoRequest.op # "denial"
  BY DEF NoRequest
<1>2. req' = [req EXCEPT ![r] = NoRequest] /\ UNCHANGED <<user, changes, row, version, log, now, client>>
  BY DEF Lose
<1> QED
  BY <1>1, <1>2, RequestKeeps

\* A refusal on its way.
LEMMA DenialShape ==
  ASSUME IInv, NEW r \in Requests, req[r].op = "denial"
  PROVE  /\ req[r] \in DenialState /\ req[r].by \in Users /\ req[r].at \in Nat /\ req[r].at <= now
         /\ req[r].at \in 0..now
<1>0. Typed
  BY DEF IInv
<1>1. req[r] \in DenialState
  BY <1>0 DEF Typed, NoRequest, NoteState
<1>2. req[r].by \in Users /\ req[r].at \in Times
  BY <1>1 DEF DenialState
<1>3. req[r].at <= now
  BY DEF IInv, Spaced, Clear
<1>4. req[r].at \in Nat /\ now \in Nat
  BY <1>0, <1>2, NowFacts
<1>5. req[r].at \in 0..now
  BY <1>3, <1>4
<1> QED
  BY <1>1, <1>2, <1>3, <1>4, <1>5

LEMMA CheckDenialKeeps ==
  ASSUME IInv, NEW r \in Requests, CheckDenial(r)
  PROVE  IInv'
<1>0. Typed
  BY DEF IInv
<1>1. req[r].op = "denial" /\ ~req[r].checked /\ UNCHANGED <<user, changes, row, version, log, now, client>>
      /\ req' = [req EXCEPT ![r] = IF FindRecentAccessDenied(req[r].by, req[r].at)
                                   THEN NoRequest ELSE [req[r] EXCEPT !.checked = TRUE]]
  BY DEF CheckDenial
<1>2. req[r] \in DenialState /\ req[r].by \in Users /\ req[r].at \in Nat /\ req[r].at <= now
  BY <1>1, DenialShape
<1>3. CASE FindRecentAccessDenied(req[r].by, req[r].at)
  <2>1. NoRequest.op # "denial" /\ req' = [req EXCEPT ![r] = NoRequest]
    BY <1>1, <1>3 DEF NoRequest
  <2> QED
    BY <1>1, <2>1, RequestKeeps
<1>4. CASE ~FindRecentAccessDenied(req[r].by, req[r].at)
  <2> DEFINE new == [req[r] EXCEPT !.checked = TRUE]
  <2>1. new \in DenialState /\ new.by = req[r].by /\ new.at = req[r].at
    BY <1>2 DEF DenialState
  <2>2. ASSUME NEW j \in DOMAIN log, log[j].type = "ACCESS_DENIED", log[j].by = req[r].by
        PROVE  log[j].at + Window < req[r].at
    <3>1. ~(log[j].at >= req[r].at - Window)
      BY <1>4, <2>2 DEF FindRecentAccessDenied
    <3>2. log[j].at \in Nat /\ Window \in Nat
      BY <1>0, NowFacts
    <3> QED
      BY <1>2, <3>1, <3>2
  <2>3. req' = [req EXCEPT ![r] = new]
    BY <1>1, <1>4
  <2> HIDE DEF new
  <2> QED
    BY <1>1, <1>2, <2>1, <2>2, <2>3, RequestKeeps
<1> QED
  BY <1>3, <1>4

\* A request that ends with a row.
LEMMA RecordedKeeps ==
  ASSUME IInv, NEW r \in Requests, req' = [req EXCEPT ![r] = NoRequest], UNCHANGED <<user, changes, row, version, now, client>>,
         LogOK(log)', Spaced',
         Untouched(log) => Untouched(log'), \A w : Marked(w, log) => Marked(w, log')
  PROVE  IInv'
<1>0. Typed /\ ClientOK /\ Walking
  BY DEF IInv
<1>1. req' \in [Requests -> {NoRequest} \union NoteState \union DenialState]
  BY <1>0 DEF Typed
<1>3. Typed'
  BY <1>0, <1>1 DEF Typed
<1>4. ClientOK'
  BY <1>0, ClientSame
<1>5. Walking'
  BY <1>0 DEF Walking
<1> QED
  BY <1>3, <1>4, <1>5 DEF IInv

LEMMA CommitNoteKeeps ==
  ASSUME IInv, NEW r \in Requests, CommitNote(r)
  PROVE  IInv'
<1>0. Typed
  BY DEF IInv
<1>1. req[r].op = "note" /\ req' = [req EXCEPT ![r] = NoRequest] /\ UNCHANGED <<user, changes, row, version, now, client>>
  BY DEF CommitNote
<1>2. PICK at \in req[r].from..now : CreateAuditEvent("NOTE_ADDED", NoUser, at)
  BY DEF CommitNote
<1>3. at \in 0..now
  <2>1. req[r] \in NoteState
    BY <1>0, <1>1 DEF Typed, NoRequest, DenialState
  <2>2. req[r].from \in Nat /\ now \in Nat
    BY <1>0, <2>1, NowFacts DEF NoteState
  <2> QED
    BY <2>2
<1>4. "NOTE_ADDED" \in EventTypes /\ "NOTE_ADDED" # "ACCESS_DENIED" /\ NoRequest.op # "denial"
  BY DEF EventTypes, NoRequest
<1>5. \A s \in Requests : req'[s] = req[s] \/ req'[s].op # "denial"
  BY <1>0, <1>1, <1>4 DEF Typed
<1>6. /\ LogOK(log)' /\ Spaced'
      /\ Untouched(log) => Untouched(log')
      /\ \A w : Marked(w, log) => Marked(w, log')
  BY <1>1, <1>2, <1>3, <1>4, <1>5, RecordKeeps
<1> QED
  BY <1>1, <1>6, RecordedKeeps

LEMMA CreateAccessDeniedKeeps ==
  ASSUME IInv, NEW r \in Requests, CreateAccessDenied(r)
  PROVE  IInv'
<1>0. Typed
  BY DEF IInv
<1>1. /\ req[r].op = "denial" /\ req[r].checked /\ req' = [req EXCEPT ![r] = NoRequest]
      /\ UNCHANGED <<user, changes, row, version, now, client>>
      /\ CreateAuditEvent("ACCESS_DENIED", req[r].by, req[r].at)
  BY DEF CreateAccessDenied
<1>2. req[r].by \in Users /\ req[r].at \in 0..now
  BY <1>1, DenialShape
<1>3. "ACCESS_DENIED" \in EventTypes /\ NoRequest.op # "denial"
  BY DEF EventTypes, NoRequest
<1>4. req'[r].op # "denial" /\ \A s \in Requests : req'[s] = req[s] \/ req'[s].op # "denial"
  BY <1>0, <1>1, <1>3 DEF Typed
<1>5. /\ LogOK(log)' /\ Spaced'
      /\ Untouched(log) => Untouched(log')
      /\ \A w : Marked(w, log) => Marked(w, log')
  BY <1>1, <1>2, <1>3, <1>4, RecordKeeps
<1> QED
  BY <1>1, <1>5, RecordedKeeps

-------------------------------------------------------------------------------
(* The walk.                                                                *)

LEMMA BeginWalkKeeps ==
  ASSUME IInv, NEW u \in Users, NEW list \in Lists, BeginWalk(u, list)
  PROVE  IInv'
<1>0. Typed /\ Walking
  BY DEF IInv
<1>1. /\ client.pc = "idle" /\ UNCHANGED <<user, changes, row, version, log, now, req>>
      /\ client' = [pc |-> "between", by |-> u, list |-> list, first |-> TRUE,
                    actor |-> user[u], held |-> {}, canSee |-> FALSE, could |-> FALSE]
  BY DEF BeginWalk
<1>2. client' \in WalkState /\ client'.first /\ client'.pc = "between" /\ client' \notin ViewState
  <2>1. user[u] \in Profiles /\ {} \in SUBSET Profiles
    BY <1>0 DEF Typed
  <2> QED
    BY <1>1, <2>1 DEF WalkState, ViewState
<1>3. client \notin WalkState
  BY <1>0, <1>1, ClientShape
<1>4. Untouched(log)
  BY <1>0, <1>3 DEF Walking
<1>5. Marked(client', log')
  BY <1>1, <1>2, <1>4 DEF Marked, Untouched
<1>6. Walking' /\ ClientOK'
  BY <1>2, <1>5 DEF Walking, ClientOK
<1> QED
  BY <1>1, <1>2, <1>6, ClientKeeps

LEMMA AuthenticateKeeps ==
  ASSUME IInv, Authenticate
  PROVE  IInv'
<1>0. Typed /\ Walking
  BY DEF IInv
<1> DEFINE can == CanReadNotes(client.by, user[client.by], row)
<1>1. /\ client.pc = "between" /\ UNCHANGED <<user, changes, row, version, log, now, req>>
      /\ client' = [client EXCEPT !.pc = "authenticated", !.actor = user[client.by],
                                  !.held = {user[client.by]}, !.could = can]
  BY DEF Authenticate, Actor
<1>2. client \in WalkState
  BY <1>0, <1>1, ClientShape
<1>3. can \in BOOLEAN /\ user[client.by] \in Profiles /\ {user[client.by]} \in SUBSET Profiles
  BY <1>0, <1>2 DEF CanReadNotes, Typed, WalkState
<1>4. CanReadNotes(client.by, user[client.by], row) => can
  OBVIOUS
<1> HIDE DEF can
<1>5. /\ client' \in WalkState /\ client'.pc = "authenticated" /\ client'.could = can
      /\ client'.actor = user[client.by] /\ client'.held = {user[client.by]}
      /\ client'.first = client.first /\ client'.by = client.by /\ client' \notin ViewState
  BY <1>1, <1>2, <1>3 DEF WalkState, ViewState
<1>6. Marked(client', log')
  <2>1. Marked(client, log)
    BY <1>0, <1>2 DEF Walking
  <2> QED
    BY <1>1, <1>5, <2>1, MarkedSame
<1>7. ClientOK'
  <2>1. \A p \in client'.held : CanReadNotes(client'.by, p, row') => client'.could
    BY <1>1, <1>4, <1>5
  <2> QED
    BY <1>5, <2>1 DEF ClientOK, CanReadNotes
<1>8. Walking'
  BY <1>5, <1>6 DEF Walking
<1> QED
  BY <1>1, <1>5, <1>7, <1>8, ClientKeeps

LEMMA GateKeeps ==
  ASSUME IInv, Gate
  PROVE  IInv'
<1>0. Typed /\ Walking /\ ClientOK
  BY DEF IInv
<1> DEFINE can == CanReadNotes(client.by, client.actor, row)
<1>1. /\ client.pc = "authenticated" /\ UNCHANGED <<user, changes, row, version, log, now, req>>
      /\ client' = [client EXCEPT !.pc = "gated", !.canSee = can]
  BY DEF Gate
<1>2. can \in BOOLEAN /\ (can => client.could)
  BY <1>0, <1>1 DEF ClientOK, CanReadNotes
<1>3. client \in WalkState
  BY <1>0, <1>1, ClientShape
<1> HIDE DEF can
<1>4. /\ client' \in WalkState /\ client'.pc = "gated" /\ client'.canSee = can
      /\ client'.could = client.could /\ client'.actor = client.actor /\ client'.held = client.held
      /\ client'.first = client.first /\ client' \notin ViewState
  BY <1>1, <1>2, <1>3 DEF WalkState, ViewState
<1>5. Marked(client', log')
  <2>1. Marked(client, log)
    BY <1>0, <1>3 DEF Walking
  <2> QED
    BY <1>1, <1>4, <2>1, MarkedSame
<1>6. Walking'
  BY <1>4, <1>5 DEF Walking
<1>7. ClientOK'
  BY <1>0, <1>1, <1>2, <1>4 DEF ClientOK
<1> QED
  BY <1>1, <1>4, <1>6, <1>7, ClientKeeps

\* The marks taken off.
LEMMA UnmarkKeeps ==
  ASSUME IInv, client' = Idle, log' = [j \in DOMAIN log |-> Unmarked(log[j])],
         UNCHANGED <<user, changes, row, version, now, req>>
  PROVE  IInv'
<1>0. Typed /\ log \in Seq(Event)
  BY DEF IInv, Typed, LogOK
<1>1. \A e \in Event : /\ Unmarked(e) \in Event /\ Unmarked(e).type = e.type /\ Unmarked(e).by = e.by
                       /\ Unmarked(e).at = e.at /\ ~Unmarked(e).due /\ Unmarked(e).shown = 0 /\ ~Unmarked(e).cursor
  <2> SUFFICES ASSUME NEW e \in Event
               PROVE  /\ Unmarked(e) \in Event /\ Unmarked(e).type = e.type /\ Unmarked(e).by = e.by
                      /\ Unmarked(e).at = e.at /\ ~Unmarked(e).due /\ Unmarked(e).shown = 0
                      /\ ~Unmarked(e).cursor
    OBVIOUS
  <2>1. 0 \in 0..2
    OBVIOUS
  <2>2. Unmarked(e) = [e EXCEPT !.due = FALSE, !.shown = 0, !.cursor = FALSE]
    BY DEF Unmarked
  <2>3. Unmarked(e) \in Event /\ Unmarked(e).type = e.type /\ Unmarked(e).by = e.by /\ Unmarked(e).at = e.at
    BY <2>1, <2>2 DEF Event
  <2>4. Unmarked(e).shown = 0 /\ Unmarked(e).due = FALSE /\ Unmarked(e).cursor = FALSE
    BY <2>2 DEF Event
  <2> QED
    BY <2>3, <2>4
<1>2. \A j \in DOMAIN log : log[j] \in Event
  BY <1>0
<1>3. log' \in [DOMAIN log -> Event]
      /\ \A j \in DOMAIN log : log'[j].type = log[j].type /\ log'[j].by = log[j].by /\ log'[j].at = log[j].at
  BY <1>1, <1>2
<1>4. Untouched(log')
  BY <1>1, <1>2 DEF Untouched
<1>5. LogOK(log)' /\ Spaced' /\ Len(log') = Len(log)
  BY <1>3, Remarked
<1>6. Idle \notin ViewState /\ Idle \notin WalkState /\ Idle.pc = "idle"
  BY DEF Idle, ViewState, WalkState
<1>7. Typed'
  BY <1>0, <1>5 DEF Typed
<1>8. Walking' /\ ClientOK'
  BY <1>4, <1>6 DEF Walking, ClientOK
<1> QED
  BY <1>5, <1>7, <1>8 DEF IInv

LEMMA LeaveKeeps ==
  ASSUME IInv, Leave \/ GateRefuses
  PROVE  IInv'
<1>1. client' = Idle /\ log' = [j \in DOMAIN log |-> Unmarked(log[j])] /\ UNCHANGED <<user, changes, row, version, now, req>>
  BY DEF Leave, GateRefuses
<1> QED
  BY <1>1, UnmarkKeeps

\* A finite set of numbers has a least and a greatest.
LEMMA Extremes ==
  ASSUME NEW S \in SUBSET Nat, IsFiniteSet(S), S # {}
  PROVE  (\E a \in S : \A b \in S : a <= b) /\ (\E a \in S : \A b \in S : a >= b)
<1>1. IsWellFoundedOn(StrictSubsetOrdering(S), SUBSET S)
  BY FS_StrictSubsetOrderingWellFounded, FS_FiniteSubsetsOfFinite
<1>2. \E a \in S : \A b \in S : a <= b
  <2> DEFINE Below(a) == {b \in S : b < a}
             T == {Below(a) : a \in S}
  <2>1. T \subseteq SUBSET S /\ T # {}
    OBVIOUS
  <2>2. PICK U \in T : \A V \in T : ~(<<V, U>> \in StrictSubsetOrdering(S))
    <3> HIDE DEF T
    <3> QED
      BY <1>1, <2>1, WFMin
  <2>3. PICK a \in S : U = Below(a)
    BY <2>2
  <2>4. ASSUME NEW b \in S, b < a PROVE FALSE
    <3>1. Below(b) \subseteq U /\ b \in U /\ b \notin Below(b)
      <4>1. a \in Nat /\ b \in Nat /\ \A x \in S : x \in Nat
        OBVIOUS
      <4>2. \A x \in S : x < b => x < a
        BY <2>4, <4>1
      <4>3. ~(b < b)
        BY <4>1
      <4> QED
        BY <2>3, <2>4, <4>2, <4>3
    <3>2. Below(b) \in T /\ <<Below(b), U>> \in (SUBSET S) \X (SUBSET S)
      BY <2>1, <2>2
    <3> HIDE DEF Below
    <3> QED
      BY <2>2, <3>1, <3>2 DEF StrictSubsetOrdering
  <2>5. \A b \in S : a <= b
    BY <2>3, <2>4
  <2> QED
    BY <2>5
<1>3. \E a \in S : \A b \in S : a >= b
  <2> DEFINE Above(a) == {b \in S : b > a}
             T == {Above(a) : a \in S}
  <2>1. T \subseteq SUBSET S /\ T # {}
    OBVIOUS
  <2>2. PICK U \in T : \A V \in T : ~(<<V, U>> \in StrictSubsetOrdering(S))
    <3> HIDE DEF T
    <3> QED
      BY <1>1, <2>1, WFMin
  <2>3. PICK a \in S : U = Above(a)
    BY <2>2
  <2>4. ASSUME NEW b \in S, b > a PROVE FALSE
    <3>1. Above(b) \subseteq U /\ b \in U /\ b \notin Above(b)
      <4>1. a \in Nat /\ b \in Nat /\ \A x \in S : x \in Nat
        OBVIOUS
      <4>2. \A x \in S : x > b => x > a
        BY <2>4, <4>1
      <4>3. ~(b > b)
        BY <4>1
      <4> QED
        BY <2>3, <2>4, <4>2, <4>3
    <3>2. Above(b) \in T /\ <<Above(b), U>> \in (SUBSET S) \X (SUBSET S)
      BY <2>1, <2>2
    <3> HIDE DEF Above
    <3> QED
      BY <2>2, <3>1, <3>2 DEF StrictSubsetOrdering
  <2>5. \A b \in S : a >= b
    BY <2>3, <2>4
  <2> QED
    BY <2>5
<1> QED
  BY <1>2, <1>3

\* A page is the beginning of what matches; its last row is before all that is left out.
LEMMA PageFacts ==
  ASSUME Typed
  PROVE  /\ Page \subseteq Matching /\ Matching \subseteq DOMAIN log
         /\ \A j \in Page, k \in Matching : k < j => k \in Page
         /\ HasMore => Max(Page) \in Page /\ \A j \in Page : j <= Max(Page)
<1>0. log \in Seq(Event) /\ PageSize \in Nat \ {0} /\ Len(log) \in Nat /\ DOMAIN log = 1..Len(log)
  BY NowFacts DEF Typed, LogOK
<1>1. Matching \in SUBSET (1..Len(log)) /\ Page \subseteq Matching /\ Matching \in SUBSET Nat
      /\ \A j \in Matching : j \in Page <=> Cardinality({k \in Matching : k < j}) < PageSize
  BY <1>0 DEF Matching, Page
<1>2. IsFiniteSet(1..Len(log))
  BY <1>0, FS_Interval
<1>3. IsFiniteSet(Matching)
  BY <1>1, <1>2, FS_Subset
<1> DEFINE Before(j) == {k \in Matching : k < j}
<1>4. ASSUME NEW j \in Nat
      PROVE  IsFiniteSet(Before(j)) /\ Cardinality(Before(j)) \in Nat
  <2>1. Before(j) \in SUBSET Matching
    OBVIOUS
  <2> HIDE DEF Before
  <2> QED
    BY <1>3, <2>1, FS_Subset, FS_CardinalityType
<1>5. ASSUME NEW j \in Page, NEW k \in Matching, k < j
      PROVE  k \in Page
  <2>1. j \in Nat /\ k \in Nat /\ j \in Matching
    BY <1>1
  <2>2. Before(k) \in SUBSET Before(j)
    <3>1. \A x \in Matching : x \in Nat
      BY <1>1
    <3>2. \A x \in Matching : x < k => x < j
      BY <1>5, <2>1, <3>1
    <3> QED
      BY <3>2
  <2>3. Cardinality(Before(j)) < PageSize
    BY <1>1
  <2>4. Cardinality(Before(k)) <= Cardinality(Before(j))
    <3> HIDE DEF Before
    <3> QED
      BY <1>4, <2>1, <2>2, FS_Subset
  <2>5. Cardinality(Before(k)) < PageSize
    <3>1. Cardinality(Before(k)) \in Nat /\ Cardinality(Before(j)) \in Nat
      BY <1>4, <2>1
    <3> HIDE DEF Before
    <3> QED
      BY <1>0, <2>3, <2>4, <3>1
  <2> QED
    BY <1>1, <2>5
<1>6. ASSUME HasMore
      PROVE  Max(Page) \in Page /\ \A j \in Page : j <= Max(Page)
  <2>1. Matching # {}
    BY <1>1, <1>6 DEF HasMore
  <2>2. PICK a \in Matching : \A b \in Matching : a <= b
    BY <1>1, <1>3, <2>1, Extremes
  <2>3. Before(a) = {}
    <3>1. \A b \in Matching : a \in Nat /\ b \in Nat
      BY <1>1
    <3>2. \A b \in Matching : ~(b < a)
      BY <2>2, <3>1
    <3> QED
      BY <3>2
  <2>4. Cardinality(Before(a)) = 0
    <3> HIDE DEF Before
    <3> QED
      BY <2>3, FS_EmptySet
  <2>5. a \in Page
    BY <1>0, <1>1, <2>4
  <2>6. Page \in SUBSET Nat /\ IsFiniteSet(Page) /\ Page # {}
    BY <1>1, <1>3, <2>5, FS_Subset
  <2>7. \E x \in Page : \A y \in Page : x >= y
    BY <2>6, Extremes
  <2>8. Max(Page) \in Page /\ \A y \in Page : Max(Page) >= y
    BY <2>7 DEF Max
  <2>9. \A y \in Page : Max(Page) \in Nat /\ y \in Nat
    BY <2>6, <2>8
  <2> QED
    BY <2>8, <2>9
<1> QED
  BY <1>0, <1>1, <1>5, <1>6

\* Where a walk stands: up to some place it has dealt with the rows, the rest it has not
\* shown and will look at next.
LEMMA Standing ==
  ASSUME IInv, client \in WalkState, client.pc # "done"
  PROVE  \E c \in 0..Len(log) :
           /\ client.first => c = 0
           /\ \A j \in DOMAIN log : /\ CursorWhere(j) <=> c < j
                                    /\ j <= c => Behind(log[j])
                                    /\ c < j => log[j].shown = 0
<1>0. Typed /\ Marked(client, log)
  BY DEF IInv, Walking
<1>1. /\ log \in Seq(Event) /\ DOMAIN log = 1..Len(log) /\ Len(log) \in Nat
      /\ \A j, k \in DOMAIN log : j < k => log[j].at >= log[k].at
      /\ \A j \in DOMAIN log : log[j].at \in Nat
  BY <1>0, NowFacts DEF Typed, LogOK
<1>2. CASE client.first
  <2>1. 0 \in 0..Len(log)
    BY <1>1
  <2>2. \A j \in DOMAIN log : CursorWhere(j) /\ 0 < j /\ ~(j <= 0) /\ log[j].shown = 0
    BY <1>0, <1>1, <1>2 DEF Marked, Untouched, CursorWhere
  <2> QED
    BY <2>1, <2>2
<1>3. CASE ~client.first
  <2>1. PICK c \in DOMAIN log :
          /\ log[c].cursor /\ \A j \in DOMAIN log \ {c} : ~log[j].cursor
          /\ \A j \in DOMAIN log : IF j <= c THEN Behind(log[j]) ELSE log[j].shown = 0
    BY <1>0, <1>3 DEF Marked
  <2>2. ASSUME NEW j \in DOMAIN log
        PROVE  /\ CursorWhere(j) <=> c < j
               /\ j <= c => Behind(log[j])
               /\ c < j => log[j].shown = 0
    <3>1. j \in Nat /\ c \in Nat /\ log[j].at \in Nat /\ log[c].at \in Nat
      <4>1. j \in 1..Len(log) /\ c \in 1..Len(log) /\ Len(log) \in Nat
        BY <1>1
      <4>2. log[j].at \in Nat /\ log[c].at \in Nat
        BY <1>1
      <4> QED
        BY <4>1, <4>2
    <3>2. CursorWhere(j) <=> log[j].at < log[c].at \/ (log[j].at = log[c].at /\ c < j)
      BY <1>3, <2>1 DEF CursorWhere
    <3>3. c < j => log[c].at >= log[j].at
      BY <1>1
    <3>4. j < c => log[j].at >= log[c].at
      BY <1>1
    <3>5. CursorWhere(j) <=> c < j
      BY <3>1, <3>2, <3>3, <3>4
    <3> QED
      BY <2>1, <3>1, <3>5
  <2>3. c \in 0..Len(log)
    BY <1>1
  <2> QED
    BY <1>3, <2>2, <2>3
<1> QED
  BY <1>2, <1>3

LEMMA QueryPageKeeps ==
  ASSUME IInv, QueryPage
  PROVE  IInv'
<1>0. Typed /\ Walking
  BY DEF IInv
<1>1. client.pc = "gated" /\ client \in WalkState
  BY <1>0, ClientShape DEF QueryPage
<1>2. Marked(client, log)
  BY <1>0, <1>1 DEF Walking
<1>3. log \in Seq(Event) /\ DOMAIN log = 1..Len(log) /\ Len(log) \in Nat
      /\ \A j \in DOMAIN log : log[j] \in Event
  BY <1>0 DEF Typed, LogOK
<1> DEFINE pc == IF HasMore THEN "between" ELSE "done"
           due(j) == Listed(j) /\ (client.first \/ log[j].due)
           shown(j) == IF j \in Page THEN log[j].shown + 1 ELSE log[j].shown
           cursor(j) == HasMore /\ j = Max(Page)
<1>4. /\ client' = [client EXCEPT !.pc = pc, !.first = FALSE, !.held = {}, !.canSee = FALSE, !.could = FALSE]
      /\ log' = [j \in DOMAIN log |-> [log[j] EXCEPT !.due = due(j), !.shown = shown(j), !.cursor = cursor(j)]]
      /\ UNCHANGED <<user, changes, row, version, now, req>>
  BY DEF QueryPage
<1>5. pc \in {"between", "done"} /\ {} \in SUBSET Profiles
  OBVIOUS
<1>6. PICK c \in 0..Len(log) :
        /\ client.first => c = 0
        /\ \A j \in DOMAIN log : /\ CursorWhere(j) <=> c < j
                                 /\ j <= c => Behind(log[j])
                                 /\ c < j => log[j].shown = 0
  BY <1>1, Standing
<1>7. /\ Page \subseteq Matching /\ Matching \subseteq DOMAIN log
      /\ \A j \in Page, k \in Matching : k < j => k \in Page
      /\ HasMore => Max(Page) \in Page /\ \A j \in Page : j <= Max(Page)
  BY <1>0, PageFacts
<1>8. \A j \in DOMAIN log : j \in Matching <=> Listed(j) /\ c < j
  BY <1>6 DEF Matching
<1>9. ASSUME NEW j \in DOMAIN log
      PROVE  /\ due(j) \in BOOLEAN /\ cursor(j) \in BOOLEAN /\ shown(j) \in 0..2
             /\ j \in Page => shown(j) = 1
             /\ j \notin Page => shown(j) = log[j].shown
  <2>1. log[j].due \in BOOLEAN /\ log[j].shown \in 0..2 /\ log[j] \in Event
    BY <1>3 DEF Event
  <2>2. j \in Page => log[j].shown = 0
    BY <1>6, <1>7, <1>8
  <2>3. Listed(j) \in BOOLEAN
    BY DEF Listed, NoteScopeWhere, CanReadNotes
  <2> QED
    BY <2>1, <2>2, <2>3
<1>10. client' \in WalkState /\ client'.pc = pc /\ ~client'.first
  <2> HIDE DEF pc
  <2> QED
    BY <1>1, <1>4, <1>5 DEF WalkState
<1>11. \A j \in DOMAIN log :
         /\ log'[j] \in Event /\ log'[j].type = log[j].type /\ log'[j].by = log[j].by /\ log'[j].at = log[j].at
         /\ log'[j].due = due(j) /\ log'[j].shown = shown(j) /\ log'[j].cursor = cursor(j)
  <2> SUFFICES ASSUME NEW j \in DOMAIN log
               PROVE  /\ log'[j] \in Event /\ log'[j].type = log[j].type /\ log'[j].by = log[j].by
                      /\ log'[j].at = log[j].at
                      /\ log'[j].due = due(j) /\ log'[j].shown = shown(j) /\ log'[j].cursor = cursor(j)
    OBVIOUS
  <2>1. log'[j] = [log[j] EXCEPT !.due = due(j), !.shown = shown(j), !.cursor = cursor(j)]
    BY <1>4
  <2>2. log[j] \in Event /\ due(j) \in BOOLEAN /\ cursor(j) \in BOOLEAN /\ shown(j) \in 0..2
    BY <1>3, <1>9
  <2> HIDE DEF due, shown, cursor
  <2> QED
    BY <2>1, <2>2 DEF Event
<1>12. log' \in [DOMAIN log -> Event]
  <2> HIDE DEF due, shown, cursor
  <2> QED
    BY <1>4, <1>11
<1>13. LogOK(log)' /\ Spaced' /\ Len(log') = Len(log) /\ DOMAIN log' = DOMAIN log
  <2>1. UNCHANGED <<now, req>>
    BY <1>4
  <2> QED
    BY <1>11, <1>12, <2>1, Remarked
<1>14. Typed'
  BY <1>0, <1>4, <1>10, <1>13 DEF Typed
<1>15. client' \notin ViewState /\ client'.pc \notin {"authenticated", "gated"}
  BY <1>5, <1>10 DEF ViewState
<1>16. ClientOK'
  BY <1>15 DEF ClientOK
\* What is dealt with by now: all but rows past the cursor that are still to be shown.
<1>18. ASSUME NEW j \in DOMAIN log, j \in Page \/ j \notin Matching \/ ~(c < j)
       PROVE  Behind(log'[j])
  <2>1. CASE j \in Page
    BY <1>9, <1>11, <2>1 DEF Behind
  <2>2. CASE j \notin Page /\ ~(c < j)
    <3>1. j <= c /\ ~client.first
      BY <1>3, <1>6, <2>2
    <3>2. Behind(log[j]) /\ (due(j) => log[j].due) /\ log'[j].shown = log[j].shown
      BY <1>6, <1>9, <1>11, <2>2, <3>1
    <3> QED
      BY <1>11, <3>2 DEF Behind
  <2>3. CASE j \notin Matching /\ c < j
    <3>1. log'[j].shown = 0 /\ ~Listed(j)
      BY <1>6, <1>7, <1>8, <1>9, <1>11, <2>3
    <3>2. ~log'[j].due
      BY <1>11, <3>1
    <3> QED
      BY <3>1, <3>2 DEF Behind
  <2> QED
    <3>1. CASE c < j
      BY <1>18, <2>1, <2>3, <3>1
    <3>2. CASE ~(c < j)
      BY <2>1, <2>2, <3>2
    <3> QED
      BY <3>1, <3>2
<1>19. Marked(client', log')
  <2>1. ASSUME client'.pc # "done"
        PROVE  \E d \in DOMAIN log' :
                 /\ log'[d].cursor /\ \A j \in DOMAIN log' \ {d} : ~log'[j].cursor
                 /\ \A j \in DOMAIN log' : IF j <= d THEN Behind(log'[j]) ELSE log'[j].shown = 0
    <3> DEFINE d == Max(Page)
    <3>1. HasMore /\ d \in Page /\ d \in Matching /\ d \in DOMAIN log /\ \A j \in Page : j <= d
      BY <1>7, <1>10, <2>1
    <3>2. log'[d].cursor /\ \A j \in DOMAIN log \ {d} : ~log'[j].cursor
      BY <1>11, <3>1
    <3> HIDE DEF d
    <3>3. ASSUME NEW j \in DOMAIN log, j <= d
          PROVE  Behind(log'[j])
      <4>1. j \in Matching => j \in Page
        BY <1>3, <1>7, <3>1, <3>3
      <4> QED
        BY <1>18, <4>1
    <3>4. ASSUME NEW j \in DOMAIN log, ~(j <= d)
          PROVE  log'[j].shown = 0
      <4>1. j \notin Page /\ c < j
        BY <1>3, <1>8, <3>1, <3>4
      <4> QED
        BY <1>6, <1>9, <1>11, <4>1
    <3> QED
      BY <1>13, <3>1, <3>2, <3>3, <3>4
  <2>2. ASSUME client'.pc = "done", NEW j \in DOMAIN log
        PROVE  Behind(log'[j])
    <3>1. Page = Matching
      BY <1>10, <2>2 DEF HasMore
    <3> QED
      BY <1>18, <3>1
  <2> QED
    BY <1>10, <1>13, <2>1, <2>2 DEF Marked
<1>20. Walking'
  BY <1>10, <1>19 DEF Walking
<1> QED
  BY <1>13, <1>14, <1>16, <1>20 DEF IInv

-------------------------------------------------------------------------------
LEMMA InitIInv == Init => IInv
<1> SUFFICES ASSUME Init PROVE IInv
  OBVIOUS
<1>1. MaxTime \in Nat /\ MaxWrites \in Nat /\ SeverityInputs \subseteq Severities
  BY SizesAssumption
<1>2. \A s \in SeverityInputs : NewRow(s) \in Rows /\ Triaged(NewRow(s)) \in Rows
  <2> SUFFICES ASSUME NEW s \in SeverityInputs PROVE NewRow(s) \in Rows /\ Triaged(NewRow(s)) \in Rows
    OBVIOUS
  <2>1. (IF InHighBand(s) THEN 1 ELSE 0) \in Nat /\ InHighBand(s) \in BOOLEAN
    BY DEF InHighBand
  <2>2. {"REPORTED", "TRIAGE"} \subseteq Stages
    BY DEF Stages
  <2> DEFINE cycle == IF InHighBand(s) THEN 1 ELSE 0
             set == InHighBand(s)
  <2>3. NewRow(s) = [stage |-> "REPORTED", severity |-> s, assignee |-> NoUser, clockSet |-> set,
                     cycle |-> cycle, acked |-> FALSE, rca |-> FALSE]
    BY DEF NewRow
  <2> HIDE DEF cycle, set
  <2>4. cycle \in Nat /\ set \in BOOLEAN
    BY <2>1 DEF cycle, set
  <2>5. NewRow(s) \in Rows
    BY <2>2, <2>3, <2>4 DEF Rows
  <2>6. Triaged(NewRow(s)) \in Rows
    BY <2>2, <2>5 DEF Triaged, Rows
  <2> QED
    BY <2>5, <2>6
<1>3. row \in Rows
  <2>1. \A r \in Rows, who \in Users : Assigned(r, r, who) \in Rows
    <3> SUFFICES ASSUME NEW r \in Rows, NEW who \in Users PROVE Assigned(r, r, who) \in Rows
      OBVIOUS
    <3>1. "INVESTIGATION" \in Stages
      BY DEF Stages
    <3> QED
      BY <3>1 DEF Assigned, Rows
  <2>2. CASE \E s \in SeverityInputs : row = NewRow(s)
    BY <1>2, <2>2
  <2>3. CASE \E p \in SeverityInputs \X Users :
               row = Assigned(Triaged(NewRow(p[1])), Triaged(NewRow(p[1])), p[2])
    BY <1>2, <2>1, <2>3
  <2> QED
    BY <2>2, <2>3 DEF Init, StartRows
<1>4. /\ log = <<>> /\ now = 0 /\ version = 0 /\ changes = 0 /\ client = Idle
      /\ req = [r \in Requests |-> NoRequest]
  BY DEF Init
<1>5. user \in [Users -> Profiles] /\ \A u \in Users : user[u] \in ProfilesOf[u]
  <2>1. user \in [Users -> UNION {ProfilesOf[u] : u \in Users}] /\ \A u \in Users : user[u] \in ProfilesOf[u]
    BY DEF Init
  <2>2. \A u \in Users : user[u] \in Profiles
    BY <2>1, PeopleAssumption
  <2> QED
    BY <2>1, <2>2
<1>6. log \in Seq(Event) /\ DOMAIN log = {}
  BY <1>4
<1>7. Typed
  <2>1. LogOK(log)
    BY <1>6 DEF LogOK
  <2>2. 0 \in Times
    BY <1>1 DEF Times
  <2> QED
    BY <1>1, <1>3, <1>4, <1>5, <2>1, <2>2 DEF Typed
<1>8. Idle \notin ViewState /\ Idle \notin WalkState /\ Idle.pc = "idle" /\ NoRequest.op # "denial"
  BY DEF Idle, ViewState, WalkState, NoRequest
<1>9. ClientOK
  BY <1>4, <1>8 DEF ClientOK
<1>10. Walking
  BY <1>4, <1>6, <1>8 DEF Walking, Untouched
<1>11. Spaced
  <2> DEFINE slot == [j \in DOMAIN log |-> NoUser]
  <2>1. slot \in [DOMAIN log -> Requests \union {NoUser}]
    OBVIOUS
  <2> HIDE DEF slot
  <2>2. SpacedBy(log, slot)
    BY <1>6 DEF SpacedBy
  <2>3. \A r \in Requests : Clear(log, slot, r)
    BY <1>4, <1>8 DEF Clear
  <2> QED
    BY <2>1, <2>2, <2>3 DEF Spaced
<1> QED
  BY <1>7, <1>9, <1>10, <1>11 DEF IInv

\* The inductive invariant.
THEOREM Invariance == Spec => []IInv
<1>1. ASSUME IInv, [Next]_vars
      PROVE  IInv'
  <2>1. CASE Edit \/ Tick \/ Authenticate \/ Gate \/ GateRefuses \/ QueryPage \/ Leave
    BY <1>1, <2>1, EditKeeps, TickKeeps, AuthenticateKeeps, GateKeeps, LeaveKeeps, QueryPageKeeps
  <2>2. CASE \E u \in Users : \/ GetById(u) \/ \E list \in Lists : BeginWalk(u, list)
                             \/ \E p \in ProfilesOf[u] : ChangeRole(u, p) \/ ChangeClearance(u, p)
    BY <1>1, <2>2, GetByIdKeeps, BeginWalkKeeps, ChangeKeeps
  <2>3. CASE \E r \in Requests :
               \/ \E u \in Users : BeginNote(r, u) \/ Refuse(r, u)
               \/ CommitNote(r) \/ CheckDenial(r) \/ CreateAccessDenied(r) \/ Lose(r)
    BY <1>1, <2>3, BeginNoteKeeps, RefuseKeeps, CommitNoteKeeps, CheckDenialKeeps,
       CreateAccessDeniedKeeps, LoseKeeps
  <2>4. CASE UNCHANGED vars
    <3>1. UNCHANGED <<user, changes, row, version, log, now, req, client>>
      BY <2>4 DEF vars
    <3>2. Typed' = Typed /\ ClientOK' = ClientOK /\ Spaced' = Spaced /\ Walking' = Walking
      <4>1. Typed' = Typed
        BY <3>1 DEF Typed, LogOK
      <4>3. ClientOK' = ClientOK
        BY <3>1, ClientSame
      <4>4. Spaced' = Spaced
        BY <3>1 DEF Spaced, Clear
      <4>5. Walking' = Walking
        BY <3>1 DEF Walking
      <4> QED
        BY <4>1, <4>3, <4>4, <4>5
    <3> QED
      BY <1>1, <3>2 DEF IInv
  <2> QED
    BY <1>1, <2>1, <2>2, <2>3, <2>4 DEF Next
<1> QED
  BY <1>1, InitIInv, PTL DEF Spec

\* Types: among them, that the log is in the order of occurredAt, however late its rows
\* are inserted (createAuditEvent, ORDER BY of the timeline).
THEOREM TypeCorrect == Spec => []TypeOK
<1>1. IInv => TypeOK
  <2> SUFFICES ASSUME IInv PROVE TypeOK
    OBVIOUS
  <2>0. Typed /\ ClientOK
    BY DEF IInv
  <2>1. row.stage \in Stages /\ row.severity \in SeverityInputs /\ row.assignee \in Users \union {NoUser}
    BY <2>0 DEF Typed, Rows
  <2>2. /\ \A j \in DOMAIN log : log[j] \in Event
        /\ \A j, k \in DOMAIN log : j < k => log[j].at >= log[k].at
    BY <2>0 DEF Typed, LogOK
  <2>3. ASSUME NEW r \in Requests
        PROVE  req[r] = NoRequest \/ req[r].op = "note" \/ (req[r].op = "denial" /\ req[r].by \in Users)
    <3>1. req[r] = NoRequest \/ req[r] \in NoteState \/ req[r] \in DenialState
      BY <2>0 DEF Typed
    <3> QED
      BY <3>1 DEF NoteState, DenialState
  <2>4. \/ client = Idle
        \/ client.pc \in {"between", "authenticated", "gated", "done"} /\ client.by \in Users
        \/ client.pc = "viewing" /\ client.by \in Users /\ client.version \in 0..version
    <3>1. CASE client \in ViewState
      <4>1. client.pc = "viewing" /\ client.by \in Users /\ client.version \in Nat /\ client.version <= version
        BY <2>0, <3>1 DEF ViewState, ClientOK
      <4>2. client.version \in 0..version
        BY <2>0, <4>1, NowFacts
      <4> QED
        BY <4>1, <4>2
    <3>2. CASE client \in WalkState
      BY <3>2 DEF WalkState
    <3> QED
      BY <2>0, <3>1, <3>2 DEF Typed
  <2> QED
    BY <2>0, <2>1, <2>2, <2>3, <2>4 DEF Typed, TypeOK
<1> QED
  BY <1>1, Invariance, PTL

\* A finished walk over the timeline or the notes has shown each row it owed once, and no
\* row twice, for every page size and however rows arrive (occurredAtIdCursorWhere).
THEOREM WalksAreExact == Spec => []WalkExact
<1>1. IInv => WalkExact
  <2> SUFFICES ASSUME IInv PROVE WalkExact
    OBVIOUS
  <2>0. Typed /\ Walking
    BY DEF IInv
  <2>1. ASSUME client \in WalkState, NEW j \in DOMAIN log
        PROVE  log[j].shown < 2 /\ (client.pc = "done" => Behind(log[j]))
    <3>1. Marked(client, log)
      BY <2>0, <2>1 DEF Walking
    <3>2. CASE client.first
      BY <3>1, <3>2 DEF Marked, Untouched
    <3>3. CASE client.pc = "done"
      BY <3>1, <3>3 DEF Marked, Behind
    <3>4. CASE ~client.first /\ client.pc # "done"
      <4>1. PICK c \in DOMAIN log : IF j <= c THEN Behind(log[j]) ELSE log[j].shown = 0
        BY <3>1, <3>4 DEF Marked
      <4> QED
        BY <3>4, <4>1 DEF Behind
    <3> QED
      BY <3>2, <3>3, <3>4
  <2>2. ASSUME client \notin WalkState, NEW j \in DOMAIN log
        PROVE  log[j].shown < 2
    BY <2>0, <2>2 DEF Walking, Untouched
  <2>3. client.pc = "done" => client \in WalkState
    BY <2>0, ClientShape
  <2> QED
    BY <2>1, <2>2, <2>3 DEF WalkExact, Behind
<1> QED
  BY <1>1, Invariance, PTL

\* One user's refusals within a window leave no more rows than the server handles requests
\* at once (recordDenial).
THEOREM DenialsAreBounded == Spec => []DenialsBounded
<1>1. ASSUME IInv, NEW u \in Users, NEW t \in Times
      PROVE  Cardinality({j \in DOMAIN log : /\ log[j].type = "ACCESS_DENIED" /\ log[j].by = u
                                             /\ log[j].at \in t..(t + Window)}) <= Cardinality(Requests)
  <2> DEFINE D == {j \in DOMAIN log : /\ log[j].type = "ACCESS_DENIED" /\ log[j].by = u
                                      /\ log[j].at \in t..(t + Window)}
  <2>0. Typed
    BY <1>1 DEF IInv
  <2>1. log \in Seq(Event) /\ t \in Nat /\ Window \in Nat /\ IsFiniteSet(Requests) /\ DOMAIN log = 1..Len(log)
        /\ Len(log) \in Nat
    BY <2>0, NowFacts
  <2>2. PICK slot \in [DOMAIN log -> Requests \union {NoUser}] : SpacedBy(log, slot)
    BY <1>1 DEF IInv, Spaced
  <2>3. \A j \in D : /\ j \in DOMAIN log /\ log[j].type = "ACCESS_DENIED" /\ log[j].by = u
                     /\ t <= log[j].at /\ log[j].at <= t + Window /\ log[j].at \in Nat /\ j \in Nat
    <3> SUFFICES ASSUME NEW j \in D
                 PROVE  /\ j \in DOMAIN log /\ log[j].type = "ACCESS_DENIED" /\ log[j].by = u
                        /\ t <= log[j].at /\ log[j].at <= t + Window /\ log[j].at \in Nat /\ j \in Nat
      OBVIOUS
    <3>1. j \in DOMAIN log /\ log[j].type = "ACCESS_DENIED" /\ log[j].by = u /\ log[j].at \in t..(t + Window)
      OBVIOUS
    <3>2. log[j].at \in Nat
      BY <2>0, <2>1, <3>1, NowFacts
    <3>3. j \in Nat
      BY <2>1, <3>1
    <3> QED
      BY <2>1, <3>1, <3>2, <3>3
  <2> HIDE DEF D
  <2>4. ASSUME NEW j \in D, NEW k \in D, j < k
        PROVE  slot[j] # slot[k]
    <3>1. slot[j] = slot[k] => log[j].at > log[k].at + Window
      BY <2>2, <2>3, <2>4 DEF SpacedBy
    <3> QED
      BY <2>1, <2>3, <3>1
  <2> DEFINE f == [j \in D |-> slot[j]]
  <2>5. f \in Injection(D, Requests)
    <3>1. \A j \in D : slot[j] \in Requests
      BY <2>2, <2>3 DEF SpacedBy
    <3>2. \A j, k \in D : j < k \/ k < j \/ j = k
      BY <2>3
    <3>3. \A j, k \in D : slot[j] = slot[k] => j = k
      BY <2>4, <3>2
    <3> QED
      BY <3>1, <3>3 DEF Injection, IsInjective
  <2>6. Cardinality(D) <= Cardinality(Requests)
    <3> HIDE DEF f
    <3> QED
      BY <2>1, <2>5, FS_Injection
  <2> QED
    BY <2>6 DEF D
<1>2. IInv => DenialsBounded
  BY <1>1 DEF DenialsBounded
<1> QED
  BY <1>2, Invariance, PTL

\* An action offered for a version is accepted while the incident has that version and
\* the user the same role and clearance (computeActions of incident.mapper.ts).
THEOREM OffersHold == Spec => []OfferedIsAccepted
<1>1. ASSUME NEW u \in Users, NEW p \in Profiles, NEW a \in DOMAIN ComputeActions(u, p, row),
             ComputeActions(u, p, row)[a], row \in Rows
      PROVE  Accepts(u, p, row)[a]
  <2>1. a \in {"triage", "assign", "acknowledge", "readNotes", "addNote", "propose", "approve"}
    BY DEF ComputeActions
  <2>2. CASE a = "approve"
    <3>1. row.stage = "PENDING_CLOSURE" => CanTransition(row.stage, "CLOSED")
      BY DEF CanTransition, STAGE_TRANSITIONS
    <3> QED
      BY <1>1, <2>2, <3>1 DEF ComputeActions, Accepts, MayApprove
  <2>3. CASE a = "triage"
    BY <1>1, <2>3 DEF ComputeActions, Accepts, MayTriage
  <2>4. CASE a = "assign"
    BY <1>1, <2>4 DEF ComputeActions, Accepts, MayAssign
  <2>5. CASE a = "acknowledge"
    BY <1>1, <2>5 DEF ComputeActions, Accepts, MayAcknowledge
  <2>6. CASE a \in {"readNotes", "addNote"}
    BY <1>1, <2>6 DEF ComputeActions, Accepts
  <2>7. CASE a = "propose"
    <3>1. (p.role = "ADMIN" \/ row.assignee = u) /\ CanTransition(row.stage, "PENDING_CLOSURE")
      BY <1>1, <2>7 DEF ComputeActions
    <3>2. MayPropose(row, p.role = "ADMIN", u)
      BY <3>1 DEF MayPropose
    <3> QED
      BY <2>7, <3>2 DEF Accepts
  <2> QED
    BY <2>1, <2>2, <2>3, <2>4, <2>5, <2>6, <2>7
<1>2. IInv => OfferedIsAccepted
  <2> SUFFICES ASSUME IInv, client.pc = "viewing", client.version = version,
                      NEW a \in DOMAIN client.offers, client.offers[a]
               PROVE  Accepts(client.by, client.actor, row)[a]
    BY DEF OfferedIsAccepted
  <2>1. client \in ViewState /\ client.by \in Users /\ client.actor \in Profiles
    BY ClientShape DEF IInv, ViewState
  <2>2. client.offers = ComputeActions(client.by, client.actor, row) /\ row \in Rows
    BY <2>1 DEF IInv, ClientOK, Typed
  <2> QED
    BY <1>1, <2>1, <2>2
<1> QED
  BY <1>2, Invariance, PTL

\* What a page shows is allowed to a profile its reader had during that very request, for
\* any users and however their roles and clearances change (authenticate.middleware.ts,
\* noteScopeWhere of investigation.repository.ts, timeline.service.ts).
THEOREM ChangesAreEffective == Spec => EffectiveNextRequest
<1> DEFINE Allowed(j) ==
      IF client.list = "notes"
      THEN \E p \in client.held : CanReadNotes(client.by, p, row)
      ELSE /\ log[j].type = "ACCESS_DENIED" => \E p \in client.held : p.role = "ADMIN"
           /\ log[j].type = "NOTE_ADDED" /\ client.canSee => client.could
<1>1. ASSUME IInv, Next, client.pc = "gated", client'.pc # "gated",
             NEW j \in DOMAIN log, log'[j].shown > log[j].shown
      PROVE  Allowed(j)
  <2>0. Typed /\ ClientOK /\ client \in WalkState
    BY <1>1, ClientShape DEF IInv
  <2>1. ASSUME NEW users, NEW new, client' = Watched(users, new)
        PROVE  FALSE
    BY <1>1, <2>0, <2>1 DEF Watched, WalkState
  <2>2. ~Edit
    <3>1. Edit => \E new : Write(new)
      BY DEF Edit, ChangeSeverity, AssignInvestigator
    <3> QED
      BY <2>1, <3>1 DEF Write, Becomes
  <2>3. ~Tick /\ ~(\E r \in Requests :
                     \/ \E u \in Users : BeginNote(r, u) \/ Refuse(r, u)
                     \/ CommitNote(r) \/ CheckDenial(r) \/ CreateAccessDenied(r) \/ Lose(r))
    BY <1>1 DEF Tick, BeginNote, Refuse, CommitNote, CheckDenial, CreateAccessDenied, Lose
  <2>4. /\ ~Authenticate /\ ~Gate /\ ~GateRefuses /\ ~Leave
        /\ ~(\E u \in Users : GetById(u) \/ \E list \in Lists : BeginWalk(u, list))
    BY <1>1 DEF Authenticate, Gate, GateRefuses, Leave, GetById, BeginWalk
  <2>5. ~(\E u \in Users : \E p \in ProfilesOf[u] : ChangeRole(u, p) \/ ChangeClearance(u, p))
    BY <2>1 DEF ChangeRole, ChangeClearance, Alone, Becomes
  <2>6. QueryPage
    BY <1>1, <2>2, <2>3, <2>4, <2>5 DEF Next
  <2>7. j \in Page
    <3>1. ASSUME j \notin Page PROVE FALSE
      <4> DEFINE due == Listed(j) /\ (client.first \/ log[j].due)
                 cursor == HasMore /\ j = Max(Page)
      <4>1. log'[j] = [log[j] EXCEPT !.due = due, !.shown = log[j].shown, !.cursor = cursor]
        BY <2>6, <3>1 DEF QueryPage
      <4>2. log[j] \in Event
        BY <2>0, NowFacts
      <4> HIDE DEF due, cursor
      <4>3. log'[j].shown = log[j].shown /\ log[j].shown \in Nat
        BY <2>0, <4>1, <4>2, NowFacts DEF Event
      <4> QED
        BY <1>1, <4>3
    <3> QED
      BY <3>1
  <2>8. Listed(j)
    BY <2>7 DEF Page, Matching
  <2>9. client.actor \in client.held /\ (client.canSee => client.could)
    BY <1>1, <2>0 DEF ClientOK
  <2>10. CASE client.list = "notes"
    BY <2>8, <2>9, <2>10 DEF Listed, NoteScopeWhere
  <2>11. CASE client.list # "notes"
    BY <2>8, <2>9, <2>11 DEF Listed
  <2> QED
    BY <2>10, <2>11
<1>2. IInv /\ [Next]_vars =>
        [\A j \in DOMAIN log :
           client.pc = "gated" /\ client'.pc # "gated" /\ log'[j].shown > log[j].shown => Allowed(j)]_vars
  BY <1>1
<1> QED
  BY <1>2, Invariance, PTL DEF Spec, EffectiveNextRequest
===============================================================================
