----------------------------- MODULE MotifsProofs -----------------------------
(***************************************************************************)
(* The tables of motifs keep what their readers rely on, for any turns,    *)
(* agents, labels, limits and changes by the user.                         *)
(*                                                                         *)
(* None of the properties is inductive.  The status of a motif depends on  *)
(* its counter of turns, which only compares the turn that sees it with    *)
(* the last one that did; the invariant says what the row knows of its     *)
(* events: the counter is 1 exactly while one turn has seen the motif.     *)
(* That no beat records twice, and that a reply is not attached to a later *)
(* beat, depends on how far a turn has come; the invariant says that what  *)
(* is stored lies at or before its place, and places only move forward.    *)
(* That a preference is about a pattern that recurred depends on events    *)
(* that its check has seen and its write has not; the invariant says so    *)
(* already of the choice between them, and events only grow.               *)
(*                                                                         *)
(* A transaction is followed observation by observation: if what is said   *)
(* of the tables in it failed after some number of them, there would be a  *)
(* least such number.                                                      *)
(***************************************************************************)
EXTENDS Motifs, SequenceLemmas

Statuses == UserStatuses \cup {"candidate", "supported"}

Row == [observer : Observers, label : Labels, last : Turns, status : Statuses,
        support : Nat, distinct : Nat]

Evidences ==
  {<<Prompt(t)>> : t \in Turns} \cup {<<Prompt(t), Reply(t, p)>> : t \in Turns, p \in Places}

AgentEvent ==
  [motif : Nat, kind : {"created", "promoted", "reinforced"}, observer : Observers, turn : Turns,
   beat : Beats, primary : BOOLEAN, status : Statuses, evidence : Evidences]

UserEvent ==
  [motif : Nat, kind : {"status_changed"}, observer : Observers, turn : {None},
   beat : {None}, primary : {FALSE}, status : UserStatuses, evidence : {<<>>}]

Event == AgentEvent \cup UserEvent

Result == [motif : Nat, status : Statuses, support : Nat, primary : BOOLEAN]

\* The events about a motif that come from agents, and those from the user.
Seen(es, m) == {i \in DOMAIN es : es[i].motif = m /\ IsAgents(es[i])}
Said(es, m) == {i \in DOMAIN es : es[i].motif = m /\ ~IsAgents(es[i])}

\* What the row of a motif tells about the events.
Chronicle(row, es, m) ==
  /\ Seen(es, m) # {}
  /\ row.support = Cardinality(Seen(es, m))
  /\ \A i \in Seen(es, m) : (es[i].kind = "created") <=> (\A k \in Seen(es, m) : i <= k)
  /\ \E i \in Seen(es, m) : es[i].turn = row.last
  /\ row.distinct >= 1
  /\ row.distinct = 1 => \A i \in Seen(es, m) : es[i].turn = row.last
  /\ row.distinct >= 2 => \E i, k \in Seen(es, m) : es[i].turn # es[k].turn
  /\ Said(es, m) = {} => row.status = IF row.distinct >= 2 THEN "supported" ELSE "candidate"
  /\ \A i \in Said(es, m) : (\A k \in Said(es, m) : k <= i) => row.status = es[i].status
  /\ Said(es, m) # {} => row.status \in UserStatuses

RowsOK(ms, as) ==
  /\ ms \in Seq(Row)
  /\ as \subseteq [observer : Observers, label : Labels, motif : DOMAIN ms]
  /\ \A x, y \in as : x.observer = y.observer /\ x.label = y.label => x = y
  /\ \A x \in as : ms[x.motif].observer = x.observer
  /\ \A m \in DOMAIN ms : [observer |-> ms[m].observer, label |-> ms[m].label, motif |-> m] \in as

EventsOK(ms, es) ==
  /\ es \in Seq(Event)
  /\ \A i \in DOMAIN es : es[i].motif \in DOMAIN ms /\ ms[es[i].motif].observer = es[i].observer

\* The tables motifs, motif_aliases and motif_events fit each other.
Tables(ms, as, es) ==
  /\ RowsOK(ms, as) /\ EventsOK(ms, es)
  /\ \A m \in DOMAIN ms : Chronicle(ms[m], es, m)
-----------------------------------------------------------------------------
(* Rows and events.                                                        *)

LEMMA NewRow ==
  ASSUME NEW a \in Observers, NEW t \in Turns, NEW label \in Labels
  PROVE  /\ New(a, t, label) \in Row
         /\ New(a, t, label).observer = a /\ New(a, t, label).label = label
         /\ New(a, t, label).status = "candidate" /\ New(a, t, label).last = t
         /\ New(a, t, label).support = 1 /\ New(a, t, label).distinct = 1
BY DEF New, Row, Statuses

LEMMA ReinforcedRow ==
  ASSUME NEW row \in Row, NEW t \in Turns
  PROVE  /\ Reinforced(row, t) \in Row
         /\ Reinforced(row, t).observer = row.observer /\ Reinforced(row, t).label = row.label
         /\ Reinforced(row, t).last = t
         /\ Reinforced(row, t).support = row.support + 1
         /\ Reinforced(row, t).distinct = IF row.last # t THEN row.distinct + 1 ELSE row.distinct
         /\ Reinforced(row, t).status =
              IF row.status = "candidate" /\ Reinforced(row, t).distinct >= 2 THEN "supported"
              ELSE row.status
<1> DEFINE distinct == IF row.last # t THEN row.distinct + 1 ELSE row.distinct
           status == IF row.status = "candidate" /\ distinct >= 2 THEN "supported" ELSE row.status
           support == row.support + 1
<1>1. distinct \in Nat /\ support \in Nat /\ status \in Statuses
  BY DEF Row, Statuses
<1>2. Reinforced(row, t) = [row EXCEPT !.support = support, !.distinct = distinct, !.last = t,
                                       !.status = status]
  BY DEF Reinforced
<1>3. row = [observer |-> row.observer, label |-> row.label, last |-> row.last,
             status |-> row.status, support |-> row.support, distinct |-> row.distinct]
  BY DEF Row
<1> HIDE DEF distinct, status, support
<1>4. Reinforced(row, t) = [observer |-> row.observer, label |-> row.label, last |-> t,
                            status |-> status, support |-> support, distinct |-> distinct]
  BY <1>2, <1>3
<1>5. Reinforced(row, t) \in Row
  BY <1>1, <1>4 DEF Row
<1>6. /\ Reinforced(row, t).observer = row.observer /\ Reinforced(row, t).label = row.label
      /\ Reinforced(row, t).last = t /\ Reinforced(row, t).support = support
      /\ Reinforced(row, t).distinct = distinct /\ Reinforced(row, t).status = status
  BY <1>4
<1> QED BY <1>5, <1>6 DEF distinct, status, support

LEMMA ToldRow ==
  ASSUME NEW row \in Row, NEW status \in UserStatuses
  PROVE  LET told == [row EXCEPT !.status = status] IN
         /\ told \in Row
         /\ told.observer = row.observer /\ told.label = row.label /\ told.last = row.last
         /\ told.status = status /\ told.support = row.support /\ told.distinct = row.distinct
BY DEF Row, Statuses

LEMMA EventKinds ==
  /\ \A e \in AgentEvent : IsAgents(e) /\ e \in Event
  /\ \A e \in UserEvent : ~IsAgents(e) /\ e \in Event
  /\ \A e \in Event : IsAgents(e) => e \in AgentEvent
  /\ \A e \in Event : ~IsAgents(e) => e \in UserEvent
BY DEF AgentEvent, UserEvent, Event, IsAgents

\* An event is appended.
LEMMA Appended ==
  ASSUME NEW es \in Seq(Event), NEW e \in Event
  PROVE  /\ Append(es, e) \in Seq(Event) /\ Len(Append(es, e)) = Len(es) + 1
         /\ DOMAIN es = 1..Len(es) /\ DOMAIN Append(es, e) = 1..(Len(es) + 1)
         /\ Len(es) \in Nat
         /\ \A i \in DOMAIN es : Append(es, e)[i] = es[i]
         /\ Append(es, e)[Len(es) + 1] = e
OBVIOUS

LEMMA SeenAppended ==
  ASSUME NEW es \in Seq(Event), NEW e \in Event, NEW m
  PROVE  /\ Seen(Append(es, e), m) =
              Seen(es, m) \cup (IF e.motif = m /\ IsAgents(e) THEN {Len(es) + 1} ELSE {})
         /\ Said(Append(es, e), m) =
              Said(es, m) \cup (IF e.motif = m /\ ~IsAgents(e) THEN {Len(es) + 1} ELSE {})
<1>1. /\ DOMAIN es = 1..Len(es) /\ DOMAIN Append(es, e) = 1..(Len(es) + 1) /\ Len(es) \in Nat
      /\ \A i \in DOMAIN es : Append(es, e)[i] = es[i]
      /\ Append(es, e)[Len(es) + 1] = e
  BY Appended
<1> HIDE DEF IsAgents
<1> DEFINE es2 == Append(es, e)
<1> HIDE DEF es2
<1>2. /\ DOMAIN es2 = 1..(Len(es) + 1)
      /\ \A i \in DOMAIN es : es2[i] = es[i]
      /\ es2[Len(es) + 1] = e
  BY <1>1 DEF es2
<1>3. DOMAIN es2 = DOMAIN es \cup {Len(es) + 1} /\ Len(es) + 1 \notin DOMAIN es
  BY <1>1, <1>2
<1>4. Seen(es2, m) = Seen(es, m) \cup (IF e.motif = m /\ IsAgents(e) THEN {Len(es) + 1} ELSE {})
  BY <1>2, <1>3 DEF Seen
<1>5. Said(es2, m) = Said(es, m) \cup (IF e.motif = m /\ ~IsAgents(e) THEN {Len(es) + 1} ELSE {})
  BY <1>2, <1>3 DEF Said
<1> QED BY <1>4, <1>5 DEF es2

LEMMA SeenFinite ==
  ASSUME NEW es \in Seq(Event), NEW m
  PROVE  /\ Seen(es, m) \subseteq 1..Len(es) /\ Said(es, m) \subseteq 1..Len(es)
         /\ IsFiniteSet(Seen(es, m)) /\ Cardinality(Seen(es, m)) \in Nat
<1>1. DOMAIN es = 1..Len(es) /\ Len(es) \in Nat
  OBVIOUS
<1>2. IsFiniteSet(1..Len(es))
  BY <1>1, FS_Interval
<1>3. Seen(es, m) \subseteq 1..Len(es) /\ Said(es, m) \subseteq 1..Len(es)
  BY <1>1 DEF Seen, Said
<1> QED BY <1>2, <1>3, FS_Subset, FS_CardinalityType
-----------------------------------------------------------------------------
(* The row of a motif and its events.                                      *)

LEMMA ChronicleElsewhere ==
  ASSUME NEW es \in Seq(Event), NEW e \in Event, NEW row \in Row, NEW m,
         Chronicle(row, es, m), e.motif # m
  PROVE  Chronicle(row, Append(es, e), m)
<1> DEFINE es2 == Append(es, e)
<1>1. Seen(es2, m) = Seen(es, m) /\ Said(es2, m) = Said(es, m)
  <2>1. /\ Seen(es2, m) = Seen(es, m) \cup (IF e.motif = m /\ IsAgents(e) THEN {Len(es) + 1} ELSE {})
        /\ Said(es2, m) = Said(es, m) \cup (IF e.motif = m /\ ~IsAgents(e) THEN {Len(es) + 1} ELSE {})
    BY SeenAppended, ZenonT(30)
  <2> HIDE DEF es2
  <2> QED BY <2>1
<1>2. \A i \in Seen(es, m) \cup Said(es, m) : es2[i] = es[i]
  BY Appended DEF Seen, Said
<1> HIDE DEF es2
<1>3. Chronicle(row, es2, m)
  BY <1>1, <1>2 DEF Chronicle
<1> QED BY <1>3 DEF es2

LEMMA ChronicleBegins ==
  ASSUME NEW es \in Seq(Event), NEW e \in AgentEvent, NEW m, Seen(es, m) = {}, Said(es, m) = {},
         NEW a \in Observers, NEW t \in Turns, NEW label \in Labels,
         e.motif = m, e.kind = "created", e.turn = t
  PROVE  Chronicle(New(a, t, label), Append(es, e), m)
<1> DEFINE es2 == Append(es, e)
           n == Len(es) + 1
           row == New(a, t, label)
<1>1. e \in Event /\ IsAgents(e)
  BY EventKinds
<1>2. Seen(es2, m) = {n} /\ Said(es2, m) = {}
  <2>1. /\ Seen(es2, m) = Seen(es, m) \cup (IF e.motif = m /\ IsAgents(e) THEN {Len(es) + 1} ELSE {})
        /\ Said(es2, m) = Said(es, m) \cup (IF e.motif = m /\ ~IsAgents(e) THEN {Len(es) + 1} ELSE {})
    BY <1>1, SeenAppended, Zenon
  <2> HIDE DEF es2
  <2> QED BY <2>1, <1>1
<1>3. es2[n] = e /\ n \in Nat
  BY <1>1, Appended
<1>4. Cardinality(Seen(es2, m)) = 1
  BY <1>2, FS_Singleton
<1>5. row.status = "candidate" /\ row.last = t /\ row.support = 1 /\ row.distinct = 1
  BY NewRow
<1> HIDE DEF es2, n, row
<1>6. Chronicle(row, es2, m)
  BY <1>2, <1>3, <1>4, <1>5 DEF Chronicle
<1> QED BY <1>6 DEF es2, row

LEMMA ChronicleGoesOn ==
  ASSUME NEW es \in Seq(Event), NEW e \in AgentEvent, NEW row \in Row, NEW m, NEW t \in Turns,
         Chronicle(row, es, m), e.motif = m, e.kind # "created", e.turn = t
  PROVE  Chronicle(Reinforced(row, t), Append(es, e), m)
<1> DEFINE es2 == Append(es, e)
           n == Len(es) + 1
           again == Reinforced(row, t)
<1>1. e \in Event /\ IsAgents(e)
  BY EventKinds
<1>2. Seen(es2, m) = Seen(es, m) \cup {n} /\ Said(es2, m) = Said(es, m)
  <2>1. /\ Seen(es2, m) = Seen(es, m) \cup (IF e.motif = m /\ IsAgents(e) THEN {Len(es) + 1} ELSE {})
        /\ Said(es2, m) = Said(es, m) \cup (IF e.motif = m /\ ~IsAgents(e) THEN {Len(es) + 1} ELSE {})
    BY <1>1, SeenAppended, Zenon
  <2> HIDE DEF es2
  <2> QED BY <2>1, <1>1
<1>3. /\ es2[n] = e /\ n \in Nat
      /\ Seen(es, m) \subseteq 1..(n - 1) /\ Said(es, m) \subseteq 1..(n - 1)
      /\ IsFiniteSet(Seen(es, m)) /\ Cardinality(Seen(es, m)) \in Nat
  BY <1>1, Appended, SeenFinite
<1>4. \A i \in Seen(es, m) \cup Said(es, m) : es2[i] = es[i]
  BY <1>1, Appended DEF Seen, Said
<1>5. Cardinality(Seen(es2, m)) = Cardinality(Seen(es, m)) + 1
  <2>1. n \notin Seen(es, m)
    BY <1>3
  <2> QED BY <1>2, <1>3, <2>1, FS_AddElement, ZenonT(30)
<1>6. /\ again.last = t /\ again.support = row.support + 1
      /\ again.distinct = IF row.last # t THEN row.distinct + 1 ELSE row.distinct
      /\ again.status = IF row.status = "candidate" /\ again.distinct >= 2 THEN "supported"
                        ELSE row.status
  BY ReinforcedRow
<1>7. row.distinct \in Nat /\ row.support \in Nat /\ row.status \in Statuses
  BY DEF Row
<1> HIDE DEF es2, n, again
<1>8. Seen(es2, m) # {} /\ again.support = Cardinality(Seen(es2, m))
  BY <1>2, <1>5, <1>6 DEF Chronicle
<1>9. \A i \in Seen(es2, m) : (es2[i].kind = "created") <=> (\A k \in Seen(es2, m) : i <= k)
  <2> TAKE i \in Seen(es2, m)
  <2>1. CASE i = n
    <3>1. PICK k \in Seen(es, m) : TRUE
      BY DEF Chronicle
    <3>2. k < n
      BY <1>3, <3>1
    <3> QED BY <2>1, <3>1, <3>2, <1>2, <1>3
  <2>2. CASE i \in Seen(es, m)
    <3>1. (es[i].kind = "created") <=> (\A k \in Seen(es, m) : i <= k)
      BY <2>2 DEF Chronicle
    <3>2. i <= n
      BY <2>2, <1>3
    <3> QED BY <2>2, <3>1, <3>2, <1>2, <1>4
  <2> QED BY <2>1, <2>2, <1>2
<1>10. \E i \in Seen(es2, m) : es2[i].turn = again.last
  BY <1>2, <1>3, <1>6
<1>11. /\ again.distinct >= 1
       /\ again.distinct = 1 => \A i \in Seen(es2, m) : es2[i].turn = again.last
  BY <1>2, <1>3, <1>4, <1>6, <1>7, SMTT(30) DEF Chronicle
<1>12. again.distinct >= 2 => \E i, k \in Seen(es2, m) : es2[i].turn # es2[k].turn
  <2> SUFFICES ASSUME again.distinct >= 2
               PROVE  \E i, k \in Seen(es2, m) : es2[i].turn # es2[k].turn
    OBVIOUS
  <2>1. CASE row.last # t
    <3>1. PICK i \in Seen(es, m) : es[i].turn = row.last
      BY DEF Chronicle
    <3> QED BY <2>1, <3>1, <1>2, <1>3, <1>4
  <2>2. CASE row.last = t
    <3>1. PICK i \in Seen(es, m), k \in Seen(es, m) : es[i].turn # es[k].turn
      BY <2>2, <1>6 DEF Chronicle
    <3> QED BY <3>1, <1>2, <1>4
  <2> QED BY <2>1, <2>2
<1>13. Said(es2, m) = {} => again.status = IF again.distinct >= 2 THEN "supported" ELSE "candidate"
  BY <1>2, <1>6, <1>7 DEF Chronicle
<1>14. Said(es2, m) # {} => again.status = row.status /\ row.status \in UserStatuses
  BY <1>2, <1>6, MotifsAssumption DEF Chronicle
<1>15. \A i \in Said(es2, m) : (\A k \in Said(es2, m) : k <= i) => again.status = es2[i].status
  BY <1>2, <1>4, <1>14 DEF Chronicle
<1>16. Chronicle(again, es2, m)
  BY <1>8, <1>9, <1>10, <1>11, <1>12, <1>13, <1>14, <1>15 DEF Chronicle
<1> QED BY <1>16 DEF es2, again

LEMMA ChronicleTold ==
  ASSUME NEW es \in Seq(Event), NEW e \in UserEvent, NEW row \in Row, NEW m,
         NEW status \in UserStatuses,
         Chronicle(row, es, m), e.motif = m, e.status = status
  PROVE  Chronicle([row EXCEPT !.status = status], Append(es, e), m)
<1> DEFINE es2 == Append(es, e)
           n == Len(es) + 1
           told == [row EXCEPT !.status = status]
<1>1. e \in Event /\ ~IsAgents(e)
  BY EventKinds
<1>2. Seen(es2, m) = Seen(es, m) /\ Said(es2, m) = Said(es, m) \cup {n}
  <2>1. /\ Seen(es2, m) = Seen(es, m) \cup (IF e.motif = m /\ IsAgents(e) THEN {Len(es) + 1} ELSE {})
        /\ Said(es2, m) = Said(es, m) \cup (IF e.motif = m /\ ~IsAgents(e) THEN {Len(es) + 1} ELSE {})
    BY <1>1, SeenAppended, Zenon
  <2> HIDE DEF es2
  <2> QED BY <2>1, <1>1
<1>3. es2[n] = e /\ n \in Nat /\ Said(es, m) \subseteq 1..(n - 1)
  BY <1>1, Appended, SeenFinite
<1>4. \A i \in Seen(es, m) \cup Said(es, m) : es2[i] = es[i]
  BY <1>1, Appended DEF Seen, Said
<1>5. /\ told.last = row.last /\ told.status = status
      /\ told.support = row.support /\ told.distinct = row.distinct
  BY ToldRow
<1> HIDE DEF es2, n, told
<1>6. \A i \in Said(es2, m) : (\A k \in Said(es2, m) : k <= i) => told.status = es2[i].status
  <2> SUFFICES ASSUME NEW i \in Said(es2, m), \A k \in Said(es2, m) : k <= i
               PROVE  told.status = es2[i].status
    OBVIOUS
  <2>1. n <= i
    BY <1>2
  <2>2. i = n
    BY <2>1, <1>2, <1>3
  <2> QED BY <2>2, <1>3, <1>5
<1>7. Chronicle(told, es2, m)
  BY <1>2, <1>4, <1>5, <1>6 DEF Chronicle
<1> QED BY <1>7 DEF es2, told

\* Events of which only the evidence is different.
Alike(es, es2) ==
  /\ DOMAIN es2 = DOMAIN es
  /\ \A i \in DOMAIN es :
       /\ es2[i].motif = es[i].motif /\ es2[i].kind = es[i].kind /\ es2[i].turn = es[i].turn
       /\ es2[i].observer = es[i].observer /\ es2[i].beat = es[i].beat
       /\ es2[i].primary = es[i].primary /\ es2[i].status = es[i].status

LEMMA ChronicleAlike ==
  ASSUME NEW es, NEW es2, NEW row, NEW m, Alike(es, es2), Chronicle(row, es, m)
  PROVE  Chronicle(row, es2, m)
<1>1. Seen(es2, m) = Seen(es, m) /\ Said(es2, m) = Said(es, m)
  BY DEF Alike, Seen, Said, IsAgents
<1>2. Seen(es, m) \subseteq DOMAIN es /\ Said(es, m) \subseteq DOMAIN es
  BY DEF Seen, Said
<1> QED BY <1>1, <1>2 DEF Alike, Chronicle
-----------------------------------------------------------------------------
(* One observation is recorded.                                            *)

\* The table with a row for motif m.
Put(ms, m, row) == [i \in DOMAIN ms \cup {m} |-> IF i = m THEN row ELSE ms[i]]

LEMMA PutRows ==
  ASSUME NEW ms \in Seq(Row), NEW row \in Row, NEW m \in 1..(Len(ms) + 1)
  PROVE  /\ Put(ms, m, row) \in Seq(Row)
         /\ DOMAIN Put(ms, m, row) = DOMAIN ms \cup {m}
         /\ Put(ms, m, row)[m] = row
         /\ \A i \in DOMAIN ms : i # m => Put(ms, m, row)[i] = ms[i]
<1>1. DOMAIN ms = 1..Len(ms) /\ Len(ms) \in Nat
  OBVIOUS
<1>2. PICK n \in Nat : DOMAIN ms \cup {m} = 1..n
  <2>1. CASE m = Len(ms) + 1
    BY <1>1, <2>1
  <2>2. CASE m # Len(ms) + 1
    BY <1>1, <2>2
  <2> QED BY <2>1, <2>2
<1>3. Put(ms, m, row) \in [1..n -> Row]
  <2>1. \A i \in 1..n : (IF i = m THEN row ELSE ms[i]) \in Row
    BY <1>1, <1>2
  <2> QED BY <1>2, <2>1 DEF Put
<1>4. Put(ms, m, row) \in Seq(Row)
  BY <1>3
<1> QED BY <1>4 DEF Put

\* The table of labels after an observation.
LEMMA RowsPut ==
  ASSUME NEW ms, NEW as, RowsOK(ms, as), NEW row \in Row, NEW m \in 1..(Len(ms) + 1),
         NEW label \in Labels,
         \A x \in as : x.observer = row.observer /\ x.label = label => x.motif = m,
         m \in DOMAIN ms => ms[m].observer = row.observer /\ ms[m].label = row.label,
         m \notin DOMAIN ms => row.label = label
  PROVE  RowsOK(Put(ms, m, row),
                as \cup {[observer |-> row.observer, label |-> label, motif |-> m]})
<1> DEFINE ms2 == Put(ms, m, row)
           new == [observer |-> row.observer, label |-> label, motif |-> m]
           as2 == as \cup {new}
<1>1. ms \in Seq(Row)
  BY DEF RowsOK
<1>2. /\ ms2 \in Seq(Row) /\ DOMAIN ms2 = DOMAIN ms \cup {m} /\ ms2[m] = row
      /\ \A i \in DOMAIN ms : i # m => ms2[i] = ms[i]
  <2>1. ms \in Seq(Row) /\ row \in Row /\ m \in 1..(Len(ms) + 1)
    BY <1>1
  <2> QED BY ONLY <2>1, PutRows, ZenonT(30)
<1>3. /\ new.observer = row.observer /\ new.label = label /\ new.motif = m
      /\ row.observer \in Observers
  BY DEF Row
<1> HIDE DEF ms2
<1>4. as2 \subseteq [observer : Observers, label : Labels, motif : DOMAIN ms2]
  <2>1. \A x \in as : x \in [observer : Observers, label : Labels, motif : DOMAIN ms]
    BY DEF RowsOK
  <2>2. \A x \in as : x \in [observer : Observers, label : Labels, motif : DOMAIN ms2]
    BY <2>1, <1>2
  <2>3. new \in [observer : Observers, label : Labels, motif : DOMAIN ms2]
    BY <1>2, <1>3
  <2> QED BY <2>2, <2>3
<1>5. \A x \in as : x.observer = row.observer /\ x.label = label => x = new
  <2> TAKE x \in as
  <2> HAVE x.observer = row.observer /\ x.label = label
  <2>1. x.motif = m
    OBVIOUS
  <2>2. x = [observer |-> x.observer, label |-> x.label, motif |-> x.motif]
    BY DEF RowsOK
  <2> QED BY <2>1, <2>2
<1>6. \A x, y \in as2 : x.observer = y.observer /\ x.label = y.label => x = y
  <2>1. \A x, y \in as : x.observer = y.observer /\ x.label = y.label => x = y
    BY DEF RowsOK
  <2> HIDE DEF new
  <2> QED BY <2>1, <1>3, <1>5, ZenonT(30)
<1>7. \A x \in as2 : ms2[x.motif].observer = x.observer
  <2>1. \A x \in as : x.motif \in DOMAIN ms /\ ms[x.motif].observer = x.observer
    BY DEF RowsOK
  <2>2. \A x \in as : ms2[x.motif].observer = x.observer
    BY <2>1, <1>2
  <2> HIDE DEF new
  <2> QED BY <2>2, <1>2, <1>3
<1>8. \A i \in DOMAIN ms2 : [observer |-> ms2[i].observer, label |-> ms2[i].label, motif |-> i] \in as2
  <2> TAKE i \in DOMAIN ms2
  <2>1. CASE i \in DOMAIN ms
    <3>1. [observer |-> ms[i].observer, label |-> ms[i].label, motif |-> i] \in as
      BY <2>1 DEF RowsOK
    <3>2. ms2[i].observer = ms[i].observer /\ ms2[i].label = ms[i].label
      BY <2>1, <1>2
    <3> QED BY <3>1, <3>2
  <2>2. CASE i \notin DOMAIN ms
    <3>1. i = m /\ ms2[i] = row /\ row.label = label
      BY <2>2, <1>2
    <3> QED BY <3>1
  <2> QED BY <2>1, <2>2
<1>9. RowsOK(ms2, as2)
  <2> HIDE DEF as2
  <2> QED BY <1>2, <1>4, <1>6, <1>7, <1>8 DEF RowsOK
<1> QED BY <1>9 DEF ms2

LEMMA EventsPut ==
  ASSUME NEW ms \in Seq(Row), NEW es, EventsOK(ms, es), NEW row \in Row,
         NEW m \in 1..(Len(ms) + 1), m \in DOMAIN ms => ms[m].observer = row.observer,
         NEW e \in Event, e.motif = m, e.observer = row.observer
  PROVE  EventsOK(Put(ms, m, row), Append(es, e))
<1> DEFINE ms2 == Put(ms, m, row)
           es2 == Append(es, e)
<1>1. es \in Seq(Event)
  BY DEF EventsOK
<1>2. /\ DOMAIN ms2 = DOMAIN ms \cup {m} /\ ms2[m] = row
      /\ \A i \in DOMAIN ms : i # m => ms2[i] = ms[i]
  <2>1. ms \in Seq(Row) /\ row \in Row /\ m \in 1..(Len(ms) + 1)
    OBVIOUS
  <2> QED BY ONLY <2>1, PutRows, ZenonT(30)
<1>3. /\ es2 \in Seq(Event) /\ DOMAIN es2 = 1..(Len(es) + 1) /\ DOMAIN es = 1..Len(es)
      /\ Len(es) \in Nat
      /\ \A i \in DOMAIN es : es2[i] = es[i]
      /\ es2[Len(es) + 1] = e
  BY <1>1, Appended
<1> HIDE DEF ms2, es2
<1>4. \A i \in DOMAIN es2 : es2[i].motif \in DOMAIN ms2 /\ ms2[es2[i].motif].observer = es2[i].observer
  <2> TAKE i \in DOMAIN es2
  <2>1. CASE i \in DOMAIN es
    <3>1. es[i].motif \in DOMAIN ms /\ ms[es[i].motif].observer = es[i].observer
      BY <2>1 DEF EventsOK
    <3> QED BY <2>1, <3>1, <1>2, <1>3
  <2>2. CASE i = Len(es) + 1
    BY <2>2, <1>2, <1>3
  <2> QED BY <2>1, <2>2, <1>3
<1>5. EventsOK(ms2, es2)
  BY <1>3, <1>4 DEF EventsOK
<1> QED BY <1>5 DEF ms2, es2

\* Motif m is the only one that the label may mean.
Claimed(as, a, label, m) ==
  \A x \in as : x.observer = a /\ x.label = label => x.motif = m

\* The row that event e leaves for motif m, seen by agent a in turn t.
Follows(ms, m, row, e, a, t, label) ==
  /\ e.motif = m /\ e.observer = a /\ e.turn = t
  /\ \/ m = Len(ms) + 1 /\ row = New(a, t, label) /\ e.kind = "created"
     \/ m \in DOMAIN ms /\ ms[m].observer = a /\ row = Reinforced(ms[m], t) /\ e.kind # "created"

\* An observation of motif m by agent a in turn t.
LEMMA TablesPut ==
  ASSUME NEW ms, NEW as, NEW es, Tables(ms, as, es),
         NEW a \in Observers, NEW t \in Turns, NEW label \in Labels, NEW m, NEW row,
         NEW e \in AgentEvent, Follows(ms, m, row, e, a, t, label), Claimed(as, a, label, m)
  PROVE  /\ Tables(Put(ms, m, row), as \cup {[observer |-> a, label |-> label, motif |-> m]},
                   Append(es, e))
         /\ row \in Row /\ m \in 1..(Len(ms) + 1)
<1> DEFINE ms2 == Put(ms, m, row)
           as2 == as \cup {[observer |-> a, label |-> label, motif |-> m]}
           es2 == Append(es, e)
<1>1. ms \in Seq(Row) /\ es \in Seq(Event) /\ RowsOK(ms, as) /\ EventsOK(ms, es)
  BY DEF Tables, RowsOK, EventsOK
<1>2. e \in Event
  BY EventKinds
<1>3. DOMAIN ms = 1..Len(ms) /\ Len(ms) \in Nat /\ \A i \in DOMAIN ms : ms[i] \in Row
  BY <1>1
<1>4. /\ m \in 1..(Len(ms) + 1) /\ row \in Row /\ row.observer = a
      /\ m \in DOMAIN ms => ms[m].observer = a /\ ms[m].label = row.label
      /\ m \notin DOMAIN ms => row.label = label
  <2>1. CASE m = Len(ms) + 1 /\ row = New(a, t, label) /\ e.kind = "created"
    <3>1. row \in Row /\ row.observer = a /\ row.label = label
      BY <2>1, NewRow
    <3>2. m \in 1..(Len(ms) + 1) /\ m \notin DOMAIN ms
      BY <2>1, <1>3
    <3> QED BY <3>1, <3>2
  <2>2. CASE m \in DOMAIN ms /\ ms[m].observer = a /\ row = Reinforced(ms[m], t) /\ e.kind # "created"
    <3>1. row \in Row /\ row.observer = a /\ row.label = ms[m].label
      BY <2>2, <1>3, ReinforcedRow
    <3>2. m \in 1..(Len(ms) + 1)
      BY <2>2, <1>3
    <3> QED BY <2>2, <3>1, <3>2
  <2> QED BY <2>1, <2>2 DEF Follows
<1>5. RowsOK(ms2, as2)
  <2>1. \A x \in as : x.observer = row.observer /\ x.label = label => x.motif = m
    BY <1>4 DEF Claimed
  <2>2. m \in DOMAIN ms => ms[m].observer = row.observer /\ ms[m].label = row.label
    BY <1>4
  <2>3. RowsOK(ms2, as \cup {[observer |-> row.observer, label |-> label, motif |-> m]})
    BY <2>1, <2>2, <1>1, <1>4, RowsPut, Zenon
  <2> QED BY <2>3, <1>4, Zenon
<1>6. EventsOK(ms2, es2)
  BY <1>1, <1>2, <1>4, EventsPut DEF Follows
<1>7. /\ DOMAIN ms2 = DOMAIN ms \cup {m} /\ ms2[m] = row
      /\ \A i \in DOMAIN ms : i # m => ms2[i] = ms[i]
  <2>1. ms \in Seq(Row) /\ row \in Row /\ m \in 1..(Len(ms) + 1)
    BY <1>1, <1>4
  <2> QED BY ONLY <2>1, PutRows, ZenonT(30)
<1>8. Chronicle(row, es2, m)
  <2>1. CASE m = Len(ms) + 1 /\ row = New(a, t, label) /\ e.kind = "created"
    <3>1. m \notin DOMAIN ms
      BY <2>1, <1>3
    <3>2. Seen(es, m) = {} /\ Said(es, m) = {}
      BY <3>1, <1>1 DEF EventsOK, Seen, Said
    <3> QED BY <2>1, <3>2, <1>1, ChronicleBegins DEF Follows
  <2>2. CASE m \in DOMAIN ms /\ row = Reinforced(ms[m], t) /\ e.kind # "created"
    <3>1. Chronicle(ms[m], es, m) /\ ms[m] \in Row
      BY <2>2, <1>3 DEF Tables
    <3> QED BY <2>2, <3>1, <1>1, ChronicleGoesOn DEF Follows
  <2> QED BY <2>1, <2>2 DEF Follows
<1>9. \A i \in DOMAIN ms : i # m => Chronicle(ms[i], es2, i)
  <2> SUFFICES ASSUME NEW i \in DOMAIN ms, i # m
               PROVE  Chronicle(ms[i], es2, i)
    OBVIOUS
  <2>1. Chronicle(ms[i], es, i) /\ ms[i] \in Row
    BY <1>3 DEF Tables
  <2> QED BY <2>1, <1>1, <1>2, ChronicleElsewhere DEF Follows
<1>10. \A i \in DOMAIN ms2 : Chronicle(ms2[i], es2, i)
  <2> HIDE DEF ms2, es2
  <2> QED BY <1>7, <1>8, <1>9
<1>11. Tables(ms2, as2, es2)
  <2> HIDE DEF ms2, es2, as2
  <2> QED BY <1>5, <1>6, <1>10 DEF Tables
<1> QED BY <1>4, <1>11 DEF ms2, as2, es2
-----------------------------------------------------------------------------
(* A transaction.                                                          *)

\* Names for the parts of RecordOne.
Known(a, db, o) ==
  IF o.motif = None THEN Claims(db, a, o.label)
  ELSE {m \in {o.motif} \cap DOMAIN db.motifs : db.motifs[m].observer = a}
Meant(a, db, o) ==
  IF Known(a, db, o) = {} THEN Len(db.motifs) + 1 ELSE CHOOSE x \in Known(a, db, o) : TRUE
RowOf(a, t, db, o) ==
  IF Known(a, db, o) = {} THEN New(a, t, o.label) ELSE Reinforced(db.motifs[Meant(a, db, o)], t)
KindOf(a, t, db, o) ==
  CASE Known(a, db, o) = {} -> "created"
    [] Known(a, db, o) # {} /\ RowOf(a, t, db, o).status # db.motifs[Meant(a, db, o)].status
         -> "promoted"
    [] OTHER -> "reinforced"
EventOf(a, t, b, db, o) ==
  [motif |-> Meant(a, db, o), kind |-> KindOf(a, t, db, o), observer |-> a, turn |-> t,
   beat |-> b, primary |-> o.primary, status |-> RowOf(a, t, db, o).status,
   evidence |-> <<Prompt(t)>>]
ResultOf(a, t, db, o) ==
  [motif |-> Meant(a, db, o), status |-> RowOf(a, t, db, o).status,
   support |-> RowOf(a, t, db, o).support, primary |-> o.primary]
Fits(a, db, o) ==
  /\ o.motif # None => Known(a, db, o) # {}
  /\ Claims(db, a, o.label) \subseteq {Meant(a, db, o)}
  /\ \A r \in Range(db.results) : r.motif # Meant(a, db, o)

LEMMA RecordOneIs ==
  ASSUME NEW a, NEW t, NEW b, NEW db, NEW o
  PROVE  LET after == RecordOne(a, t, b, db, o) IN
         /\ after.valid = (db.valid /\ Fits(a, db, o))
         /\ after.motifs = Put(db.motifs, Meant(a, db, o), RowOf(a, t, db, o))
         /\ after.aliases =
              db.aliases \cup {[observer |-> a, label |-> o.label, motif |-> Meant(a, db, o)]}
         /\ after.events = Append(db.events, EventOf(a, t, b, db, o))
         /\ after.results = Append(db.results, ResultOf(a, t, db, o))
<1>1. RecordOne(a, t, b, db, o) =
        [valid |-> db.valid /\ Fits(a, db, o),
         motifs |-> Put(db.motifs, Meant(a, db, o), RowOf(a, t, db, o)),
         aliases |-> db.aliases \cup {[observer |-> a, label |-> o.label, motif |-> Meant(a, db, o)]},
         events |-> Append(db.events, EventOf(a, t, b, db, o)),
         results |-> Append(db.results, ResultOf(a, t, db, o))]
  BY DEF RecordOne, Fits, Put, Meant, RowOf, EventOf, ResultOf, KindOf, Known
<1> QED BY <1>1

\* Rows go on: their observer stays, and none becomes a candidate again.
Later(ms, ms2) ==
  /\ DOMAIN ms \subseteq DOMAIN ms2
  /\ \A m \in DOMAIN ms :
       /\ ms2[m].observer = ms[m].observer
       /\ ms[m].status # "candidate" => ms2[m].status # "candidate"

\* An event of the batch, and what the result tells of it.
Entry(e, r, a, t, b) ==
  /\ e \in AgentEvent
  /\ e.observer = a /\ e.turn = t /\ e.beat = b /\ e.evidence = <<Prompt(t)>>
  /\ e.motif = r.motif /\ e.status = r.status /\ e.primary = r.primary

\* A transaction in which n of the observations have been recorded.
Recorded(db, a, t, b, observations, n) ==
  /\ Tables(db.motifs, db.aliases, db.events)
  /\ db.results \in Seq(Result) /\ Len(db.results) = n
  /\ Len(db.events) = Len(events) + n
  /\ \A i \in DOMAIN events : db.events[i] = events[i]
  /\ \A i \in 1..n : Entry(db.events[Len(events) + i], db.results[i], a, t, b)
  /\ \A i \in 1..n : db.results[i].primary = observations[i].primary
  /\ \A i, k \in 1..n : db.results[i].motif = db.results[k].motif => i = k
  /\ Later(motifs, db.motifs)

\* The motif that an observation means, when it is accepted.
LEMMA MeantMotif ==
  ASSUME NEW a \in Observers, NEW t \in Turns, NEW db, NEW o,
         RowsOK(db.motifs, db.aliases), Fits(a, db, o)
  PROVE  LET m == Meant(a, db, o)
             row == RowOf(a, t, db, o)
         IN
         /\ \A x \in db.aliases : x.observer = a /\ x.label = o.label => x.motif = m
         /\ \/ /\ m = Len(db.motifs) + 1 /\ row = New(a, t, o.label)
               /\ KindOf(a, t, db, o) = "created"
            \/ /\ m \in DOMAIN db.motifs /\ db.motifs[m].observer = a
               /\ row = Reinforced(db.motifs[m], t)
               /\ KindOf(a, t, db, o) \in {"promoted", "reinforced"}
<1> DEFINE m == Meant(a, db, o)
           row == RowOf(a, t, db, o)
           known == Known(a, db, o)
<1>1. \A x \in db.aliases : x.observer = a /\ x.label = o.label => x.motif = m
  <2> SUFFICES ASSUME NEW x \in db.aliases, x.observer = a, x.label = o.label
               PROVE  x.motif = m
    OBVIOUS
  <2>1. x.motif \in Claims(db, a, o.label)
    BY DEF Claims
  <2>2. Claims(db, a, o.label) \subseteq {m}
    BY DEF Fits
  <2> QED BY <2>1, <2>2
<1>2. CASE known = {}
  <2>1. m = Len(db.motifs) + 1 /\ row = New(a, t, o.label) /\ KindOf(a, t, db, o) = "created"
    BY <1>2 DEF Meant, RowOf, KindOf
  <2> QED BY <1>1, <2>1
<1>3. CASE known # {}
  <2>1. row = Reinforced(db.motifs[m], t)
    BY <1>3 DEF RowOf
  <2>2. KindOf(a, t, db, o) \in {"promoted", "reinforced"}
    <3>1. CASE row.status # db.motifs[m].status
      BY <1>3, <3>1 DEF KindOf
    <3>2. CASE row.status = db.motifs[m].status
      BY <1>3, <3>2 DEF KindOf
    <3> QED BY <3>1, <3>2
  <2>3. m \in known
    BY <1>3 DEF Meant
  <2>4. m \in DOMAIN db.motifs /\ db.motifs[m].observer = a
    <3>1. CASE o.motif = None
      <4>1. PICK x \in db.aliases : x.observer = a /\ x.motif = m
        BY <2>3, <3>1 DEF Known, Claims
      <4>2. x.motif \in DOMAIN db.motifs /\ db.motifs[x.motif].observer = x.observer
        BY <4>1 DEF RowsOK
      <4> QED BY <4>1, <4>2
    <3>2. CASE o.motif # None
      BY <2>3, <3>2 DEF Known
    <3> QED BY <3>1, <3>2
  <2> QED BY <1>1, <2>1, <2>2, <2>4
<1> QED BY <1>2, <1>3

LEMMA PromptIsEvidence ==
  ASSUME NEW t \in Turns
  PROVE  <<Prompt(t)>> \in Evidences
BY DEF Evidences

LEMMA EventOfType ==
  ASSUME NEW a \in Observers, NEW t \in Turns, NEW b \in Beats, NEW db, NEW o \in Observations,
         Meant(a, db, o) \in Nat, RowOf(a, t, db, o) \in Row,
         KindOf(a, t, db, o) \in {"created", "promoted", "reinforced"}
  PROVE  /\ EventOf(a, t, b, db, o) \in AgentEvent
         /\ ResultOf(a, t, db, o) \in Result
         /\ Entry(EventOf(a, t, b, db, o), ResultOf(a, t, db, o), a, t, b)
         /\ EventOf(a, t, b, db, o).kind = KindOf(a, t, db, o)
         /\ ResultOf(a, t, db, o).motif = Meant(a, db, o)
         /\ ResultOf(a, t, db, o).primary = o.primary
<1> DEFINE m == Meant(a, db, o)
           row == RowOf(a, t, db, o)
           kind == KindOf(a, t, db, o)
           cited == <<Prompt(t)>>
<1>1. cited \in Evidences
  BY PromptIsEvidence
<1>2. row.status \in Statuses /\ row.support \in Nat /\ o.primary \in BOOLEAN
  BY DEF Row, Observations
<1>3. /\ EventOf(a, t, b, db, o) =
           [motif |-> m, kind |-> kind, observer |-> a, turn |-> t, beat |-> b,
            primary |-> o.primary, status |-> row.status, evidence |-> cited]
      /\ ResultOf(a, t, db, o) =
           [motif |-> m, status |-> row.status, support |-> row.support, primary |-> o.primary]
  BY DEF EventOf, ResultOf
<1>4. m \in Nat /\ kind \in {"created", "promoted", "reinforced"}
  OBVIOUS
<1> HIDE DEF m, row, kind, cited
<1>5. EventOf(a, t, b, db, o) \in AgentEvent
  BY <1>1, <1>2, <1>3, <1>4 DEF AgentEvent
<1>6. ResultOf(a, t, db, o) \in Result
  BY <1>2, <1>3, <1>4 DEF Result
<1>7. Entry(EventOf(a, t, b, db, o), ResultOf(a, t, db, o), a, t, b)
  BY <1>3, <1>5 DEF Entry, cited
<1> QED BY <1>3, <1>5, <1>6, <1>7 DEF m, kind

\* One more observation of the batch.
LEMMA RecordOneKeeps ==
  ASSUME NEW a \in Observers, NEW t \in Turns, NEW b \in Beats, NEW db, NEW n \in Nat,
         NEW observations \in Seq(Observations), n + 1 \in DOMAIN observations,
         events \in Seq(Event),
         Recorded(db, a, t, b, observations, n),
         RecordOne(a, t, b, db, observations[n + 1]).valid
  PROVE  Recorded(RecordOne(a, t, b, db, observations[n + 1]), a, t, b, observations, n + 1)
<1> DEFINE o == observations[n + 1]
           after == RecordOne(a, t, b, db, o)
           m == Meant(a, db, o)
           row == RowOf(a, t, db, o)
           e == EventOf(a, t, b, db, o)
           r == ResultOf(a, t, db, o)
<1>1. Tables(db.motifs, db.aliases, db.events) /\ RowsOK(db.motifs, db.aliases)
  BY DEF Recorded, Tables
<1>2. o \in Observations /\ o.label \in Labels
  <2>1. o \in Observations
    OBVIOUS
  <2>2. \A x \in Observations : x.label \in Labels
    BY DEF Observations
  <2> QED BY <2>1, <2>2
<1>3. Fits(a, db, o)
  BY RecordOneIs
<1> HIDE DEF o
<1>4. /\ \A x \in db.aliases : x.observer = a /\ x.label = o.label => x.motif = m
      /\ \/ m = Len(db.motifs) + 1 /\ row = New(a, t, o.label) /\ KindOf(a, t, db, o) = "created"
         \/ /\ m \in DOMAIN db.motifs /\ db.motifs[m].observer = a
            /\ row = Reinforced(db.motifs[m], t)
            /\ KindOf(a, t, db, o) \in {"promoted", "reinforced"}
  BY <1>1, <1>3, MeantMotif, Zenon
<1>5. db.motifs \in Seq(Row) /\ db.events \in Seq(Event)
  BY <1>1 DEF Tables, RowsOK, EventsOK
<1>6. m \in Nat /\ row \in Row /\ KindOf(a, t, db, o) \in {"created", "promoted", "reinforced"}
  <2>1. CASE m = Len(db.motifs) + 1 /\ row = New(a, t, o.label) /\ KindOf(a, t, db, o) = "created"
    BY <2>1, <1>2, <1>5, NewRow
  <2>2. CASE /\ m \in DOMAIN db.motifs /\ row = Reinforced(db.motifs[m], t)
             /\ KindOf(a, t, db, o) \in {"promoted", "reinforced"}
    BY <2>2, <1>5, ReinforcedRow
  <2> QED BY <2>1, <2>2, <1>4
<1>7. /\ e \in AgentEvent /\ r \in Result /\ Entry(e, r, a, t, b)
      /\ e.kind = KindOf(a, t, db, o) /\ r.motif = m /\ r.primary = o.primary
  <2>1. a \in Observers /\ t \in Turns /\ b \in Beats /\ o \in Observations
    BY <1>2
  <2>2. m \in Nat /\ row \in Row /\ KindOf(a, t, db, o) \in {"created", "promoted", "reinforced"}
    BY <1>6
  <2> QED BY ONLY <2>1, <2>2, EventOfType
<1>8. e.motif = m /\ e.observer = a /\ e.turn = t /\ e \in Event
  BY <1>7, EventKinds DEF Entry
<1>9. /\ after.motifs = Put(db.motifs, m, row)
      /\ after.aliases = db.aliases \cup {[observer |-> a, label |-> o.label, motif |-> m]}
      /\ after.events = Append(db.events, e)
      /\ after.results = Append(db.results, r)
  BY ONLY RecordOneIs
<1> HIDE DEF after, m, row, e, r
<1>10. \/ m = Len(db.motifs) + 1 /\ row = New(a, t, o.label) /\ e.kind = "created"
       \/ /\ m \in DOMAIN db.motifs /\ db.motifs[m].observer = a
          /\ row = Reinforced(db.motifs[m], t) /\ e.kind # "created"
  BY <1>4, <1>7
<1>11. /\ Tables(after.motifs, after.aliases, after.events)
       /\ row.observer = a /\ m \in 1..(Len(db.motifs) + 1)
  <2>1. /\ Tables(Put(db.motifs, m, row),
                  db.aliases \cup {[observer |-> a, label |-> o.label, motif |-> m]},
                  Append(db.events, e))
        /\ row.observer = a /\ m \in 1..(Len(db.motifs) + 1)
    <3>1. /\ a \in Observers /\ t \in Turns /\ o.label \in Labels /\ e \in AgentEvent
          /\ Tables(db.motifs, db.aliases, db.events)
      BY <1>1, <1>2, <1>7
    <3>2. Follows(db.motifs, m, row, e, a, t, o.label)
      BY <1>8, <1>10 DEF Follows
    <3>3. Claimed(db.aliases, a, o.label, m)
      BY <1>4 DEF Claimed
    <3>4. Tables(Put(db.motifs, m, row),
                  db.aliases \cup {[observer |-> a, label |-> o.label, motif |-> m]},
                  Append(db.events, e))
      BY ONLY <3>1, <3>2, <3>3, TablesPut
    <3>5. row.observer = a
      <4>1. CASE row = New(a, t, o.label)
        BY <4>1, <1>2, NewRow
      <4>2. CASE m \in DOMAIN db.motifs /\ db.motifs[m].observer = a /\ row = Reinforced(db.motifs[m], t)
        BY <4>2, <1>5, ReinforcedRow
      <4> QED BY <4>1, <4>2, <1>10
    <3>6. m \in 1..(Len(db.motifs) + 1)
      BY ONLY <3>1, <3>2, <3>3, TablesPut
    <3> QED BY ONLY <3>4, <3>5, <3>6
  <2> QED BY <1>9, <2>1, Zenon
<1>12. Len(db.results) = n /\ db.results \in Seq(Result) /\ Len(db.events) = Len(events) + n
  BY DEF Recorded
<1>13. /\ after.results \in Seq(Result) /\ Len(after.results) = n + 1
       /\ after.results[n + 1] = r
       /\ \A i \in 1..n : after.results[i] = db.results[i]
  BY <1>7, <1>9, <1>12
<1>14. /\ Len(after.events) = Len(events) + (n + 1)
       /\ after.events[Len(events) + (n + 1)] = e
       /\ \A i \in 1..(Len(events) + n) : after.events[i] = db.events[i]
  BY <1>5, <1>8, <1>9, <1>12, SMTT(30)
<1>15. \A i \in DOMAIN events : after.events[i] = events[i]
  <2>1. \A i \in DOMAIN events : i \in 1..(Len(events) + n)
    OBVIOUS
  <2>2. \A i \in DOMAIN events : db.events[i] = events[i]
    BY DEF Recorded
  <2> QED BY <2>1, <2>2, <1>14
<1>16. \A i \in 1..(n + 1) : Entry(after.events[Len(events) + i], after.results[i], a, t, b)
  <2> TAKE i \in 1..(n + 1)
  <2>1. CASE i = n + 1
    BY <2>1, <1>7, <1>13, <1>14
  <2>2. CASE i # n + 1
    <3>1. i \in 1..n /\ Len(events) + i \in 1..(Len(events) + n)
      BY <2>2
    <3>2. Entry(db.events[Len(events) + i], db.results[i], a, t, b)
      BY <3>1 DEF Recorded
    <3> QED BY <3>1, <3>2, <1>13, <1>14
  <2> QED BY <2>1, <2>2
<1>17. \A i \in 1..(n + 1) : after.results[i].primary = observations[i].primary
  <2> USE DEF o
  <2>1. \A i \in 1..n : db.results[i].primary = observations[i].primary
    BY DEF Recorded
  <2>2. after.results[n + 1].primary = observations[n + 1].primary
    BY <1>7, <1>13
  <2>3. \A i \in 1..n : after.results[i].primary = db.results[i].primary
    BY <1>13
  <2>4. \A i \in 1..(n + 1) : i \in 1..n \/ i = n + 1
    OBVIOUS
  <2> QED BY ONLY <2>1, <2>2, <2>3, <2>4
<1>18. \A i, k \in 1..(n + 1) : after.results[i].motif = after.results[k].motif => i = k
  <2>1. \A i, k \in 1..n : db.results[i].motif = db.results[k].motif => i = k
    BY DEF Recorded
  <2>2. \A i \in 1..n : db.results[i].motif # m
    <3> TAKE i \in 1..n
    <3>1. db.results[i] \in Range(db.results)
      BY <1>12 DEF Range
    <3> QED BY <3>1, <1>3 DEF Fits, m
  <2>3. after.results[n + 1].motif = m
    BY <1>7, <1>13
  <2>4. \A i \in 1..n : after.results[i].motif = db.results[i].motif
    BY <1>13
  <2>5. \A i \in 1..(n + 1) : i \in 1..n \/ i = n + 1
    OBVIOUS
  <2> QED BY ONLY <2>1, <2>2, <2>3, <2>4, <2>5
<1>19. Later(motifs, after.motifs)
  <2>1. /\ DOMAIN after.motifs = DOMAIN db.motifs \cup {m} /\ after.motifs[m] = row
        /\ \A i \in DOMAIN db.motifs : i # m => after.motifs[i] = db.motifs[i]
    <3>1. db.motifs \in Seq(Row) /\ row \in Row /\ m \in 1..(Len(db.motifs) + 1)
      BY <1>5, <1>6, <1>11 DEF m, row
    <3>2. /\ DOMAIN Put(db.motifs, m, row) = DOMAIN db.motifs \cup {m}
          /\ Put(db.motifs, m, row)[m] = row
          /\ \A i \in DOMAIN db.motifs : i # m => Put(db.motifs, m, row)[i] = db.motifs[i]
      BY ONLY <3>1, PutRows, ZenonT(30)
    <3> QED BY <3>2, <1>9
  <2>2. Later(motifs, db.motifs)
    BY DEF Recorded
  <2>3. m \in DOMAIN db.motifs =>
          row.observer = db.motifs[m].observer
          /\ (db.motifs[m].status # "candidate" => row.status # "candidate")
    <3> SUFFICES ASSUME m \in DOMAIN db.motifs
                 PROVE  row.observer = db.motifs[m].observer
                        /\ (db.motifs[m].status # "candidate" => row.status # "candidate")
      OBVIOUS
    <3>1. m # Len(db.motifs) + 1 /\ db.motifs[m] \in Row
      BY <1>5
    <3>2. row = Reinforced(db.motifs[m], t) /\ db.motifs[m].observer = a
      BY <3>1, <1>10
    <3> QED BY <3>1, <3>2, <1>11, ReinforcedRow
  <2> QED BY <2>1, <2>2, <2>3 DEF Later
<1>20. Recorded(after, a, t, b, observations, n + 1)
  BY <1>11, <1>13, <1>14, <1>15, <1>16, <1>17, <1>18, <1>19 DEF Recorded
<1> QED BY <1>20 DEF after, o
-----------------------------------------------------------------------------
(* All observations of a batch.                                            *)

Start == [valid |-> TRUE, motifs |-> motifs, aliases |-> aliases, events |-> events, results |-> <<>>]

\* The function f holds the transaction after each of the first n observations.
Stages(a, t, b, observations, n, f) ==
  f = [k \in 0..n |-> IF k = 0 THEN Start ELSE Advance(a, t, b, f[k - 1], observations[k])]

LEMMA StagesOne ==
  ASSUME NEW a, NEW t, NEW b, NEW observations, NEW n \in Nat, NEW f,
         Stages(a, t, b, observations, n, f)
  PROVE  /\ f[0] = Start
         /\ \A k \in 1..n : f[k] = Advance(a, t, b, f[k - 1], observations[k])
         /\ DOMAIN f = 0..n
<1> DEFINE F(k) == IF k = 0 THEN Start ELSE Advance(a, t, b, f[k - 1], observations[k])
<1> HIDE DEF F
<1>1. f = [k \in 0..n |-> F(k)]
  BY DEF Stages, F
<1>2. DOMAIN f = 0..n /\ \A k \in 0..n : f[k] = F(k)
  BY <1>1
<1>3. F(0) = Start
  BY DEF F
<1>4. \A k \in 1..n : k \in 0..n /\ F(k) = Advance(a, t, b, f[k - 1], observations[k])
  BY DEF F
<1> QED BY <1>2, <1>3, <1>4

LEMMA StagesAdd ==
  ASSUME NEW a, NEW t, NEW b, NEW observations, NEW n \in Nat, NEW f,
         Stages(a, t, b, observations, n, f)
  PROVE  \E g : Stages(a, t, b, observations, n + 1, g)
<1> DEFINE next == Advance(a, t, b, f[n], observations[n + 1])
           g == [k \in 0..(n + 1) |-> IF k = n + 1 THEN next ELSE f[k]]
           G(k) == IF k = 0 THEN Start ELSE Advance(a, t, b, g[k - 1], observations[k])
<1>1. /\ f[0] = Start
      /\ \A k \in 1..n : f[k] = Advance(a, t, b, f[k - 1], observations[k])
  BY StagesOne
<1> HIDE DEF next
<1>2. \A k \in 0..n : g[k] = f[k]
  OBVIOUS
<1>3. \A k \in 0..(n + 1) : g[k] = G(k)
  <2> TAKE k \in 0..(n + 1)
  <2>1. CASE k = 0
    BY <2>1, <1>1, <1>2
  <2>2. CASE k = n + 1
    <3>1. g[k] = next /\ g[k - 1] = f[n] /\ k # 0
      BY <2>2, <1>2
    <3> QED BY <2>2, <3>1 DEF next
  <2>3. CASE k \in 1..n
    <3>1. g[k] = f[k] /\ g[k - 1] = f[k - 1] /\ k # 0
      BY <2>3, <1>2
    <3> QED BY <2>3, <3>1, <1>1
  <2> QED BY <2>1, <2>2, <2>3
<1>4. g = [k \in 0..(n + 1) |-> g[k]]
  OBVIOUS
<1>5. g = [k \in 0..(n + 1) |-> G(k)]
  <2> HIDE DEF g
  <2> QED BY <1>3, <1>4
<1>6. Stages(a, t, b, observations, n + 1, g)
  BY <1>5 DEF Stages
<1> QED BY <1>6

LEMMA StagesExist ==
  ASSUME NEW a, NEW t, NEW b, NEW observations
  PROVE  \A n \in Nat : \E f : Stages(a, t, b, observations, n, f)
<1> DEFINE Open == {n \in Nat : ~\E f : Stages(a, t, b, observations, n, f)}
<1>1. Open = {}
  <2> SUFFICES ASSUME Open # {} PROVE FALSE
    OBVIOUS
  <2>1. PICK n \in Open : \A k \in Open : n <= k
    <3>1. Open \subseteq Nat
      OBVIOUS
    <3> HIDE DEF Open
    <3> QED BY <3>1, NaturalsHaveMinima, Zenon
  <2>2. n \in Nat /\ ~\E f : Stages(a, t, b, observations, n, f)
    OBVIOUS
  <2>3. CASE n = 0
    <3> DEFINE f == [k \in 0..0 |-> Start]
               F(k) == IF k = 0 THEN Start ELSE Advance(a, t, b, f[k - 1], observations[k])
    <3>1. \A k \in 0..0 : Start = F(k)
      OBVIOUS
    <3> HIDE DEF F
    <3>2. f = [k \in 0..0 |-> F(k)]
      BY <3>1
    <3>3. Stages(a, t, b, observations, 0, f)
      BY <3>2 DEF Stages, F
    <3> QED BY <2>2, <2>3, <3>3
  <2>4. CASE n # 0
    <3>1. n - 1 \in Nat /\ ~(n <= n - 1) /\ (n - 1) + 1 = n
      BY <2>2, <2>4
    <3>2. n - 1 \notin Open
      BY <2>1, <3>1
    <3>3. \E f : Stages(a, t, b, observations, n - 1, f)
      BY <3>1, <3>2
    <3>4. PICK f : Stages(a, t, b, observations, n - 1, f)
      BY <3>3, Zenon
    <3>5. \E g : Stages(a, t, b, observations, (n - 1) + 1, g)
      <4> HIDE DEF Open
      <4> QED BY ONLY <3>1, <3>4, StagesAdd
    <3> QED BY <2>2, <3>1, <3>5
  <2> QED BY <2>3, <2>4
<1>2. \A n \in Nat : n \notin Open
  BY <1>1
<1> QED BY <1>2

LEMMA TransactionIs ==
  ASSUME NEW a, NEW t, NEW b, NEW observations
  PROVE  LET f == CHOOSE f : Stages(a, t, b, observations, Len(observations), f)
         IN Transaction(a, t, b, observations) = f[Len(observations)]
BY DEF Transaction, Stages, Start

LEMMA StartRecorded ==
  ASSUME Tables(motifs, aliases, events), NEW a, NEW t, NEW b, NEW observations
  PROVE  Recorded(Start, a, t, b, observations, 0)
<1>1. /\ Start.valid = TRUE /\ Start.motifs = motifs /\ Start.aliases = aliases
      /\ Start.events = events /\ Start.results = <<>>
  BY DEF Start
<1>2. events \in Seq(Event)
  BY DEF Tables, EventsOK
<1>3. <<>> \in Seq(Result) /\ Len(<<>>) = 0 /\ Len(events) = Len(events) + 0 /\ 1..0 = {}
  BY <1>2
<1>4. Later(motifs, motifs)
  BY DEF Later
<1> HIDE DEF Start
<1> QED BY <1>1, <1>3, <1>4 DEF Recorded

LEMMA StagesRecorded ==
  ASSUME Tables(motifs, aliases, events),
         NEW a \in Observers, NEW t \in Turns, NEW b \in Beats,
         NEW observations \in Seq(Observations), NEW f,
         Stages(a, t, b, observations, Len(observations), f)
  PROVE  \A n \in 0..Len(observations) : f[n].valid => Recorded(f[n], a, t, b, observations, n)
<1> DEFINE Holds(n) == f[n].valid => Recorded(f[n], a, t, b, observations, n)
           Open == {n \in Nat : n <= Len(observations) /\ ~Holds(n)}
<1>0. Len(observations) \in Nat /\ events \in Seq(Event)
  BY DEF Tables, EventsOK
<1>1. Open = {}
  <2> SUFFICES ASSUME Open # {} PROVE FALSE
    OBVIOUS
  <2>1. PICK n \in Open : \A k \in Open : n <= k
    <3>1. Open \subseteq Nat
      OBVIOUS
    <3> HIDE DEF Open
    <3> QED BY <3>1, NaturalsHaveMinima, Zenon
  <2>2. n \in Nat /\ n <= Len(observations) /\ ~Holds(n)
    <3> HIDE DEF Holds
    <3> QED OBVIOUS
  <2>3. f[n].valid /\ ~Recorded(f[n], a, t, b, observations, n)
    BY <2>2
  <2>4. CASE n = 0
    <3>1. f[0] = Start
      BY <1>0, StagesOne
    <3>2. Recorded(Start, a, t, b, observations, 0)
      BY StartRecorded
    <3> QED BY <2>3, <2>4, <3>1, <3>2
  <2>5. CASE n # 0
    <3>1. /\ n - 1 \in Nat /\ ~(n <= n - 1) /\ (n - 1) + 1 = n /\ n \in 1..Len(observations)
          /\ n - 1 <= Len(observations)
      BY <1>0, <2>2, <2>5
    <3>2. n - 1 \notin Open
      <4> HIDE DEF Open
      <4> QED BY <2>1, <3>1
    <3>3. Holds(n - 1)
      <4> HIDE DEF Holds
      <4> QED BY <3>1, <3>2
    <3>4. f[n] = Advance(a, t, b, f[n - 1], observations[n])
      BY <1>0, <3>1, StagesOne
    <3>5. f[n - 1].valid /\ f[n] = RecordOne(a, t, b, f[n - 1], observations[n])
      BY <2>3, <3>4 DEF Advance
    <3>6. Recorded(f[n - 1], a, t, b, observations, n - 1)
      BY <3>3, <3>5
    <3>7. /\ n \in DOMAIN observations
          /\ RecordOne(a, t, b, f[n - 1], observations[n]).valid
      BY <2>3, <3>1, <3>5
    <3>8. Recorded(RecordOne(a, t, b, f[n - 1], observations[(n - 1) + 1]), a, t, b, observations,
                   (n - 1) + 1)
      <4>1. /\ a \in Observers /\ t \in Turns /\ b \in Beats /\ observations \in Seq(Observations)
            /\ (n - 1) + 1 \in DOMAIN observations
            /\ RecordOne(a, t, b, f[n - 1], observations[(n - 1) + 1]).valid
        BY <3>1, <3>7
      <4> QED BY ONLY <4>1, <1>0, <3>1, <3>6, RecordOneKeeps
    <3> QED BY <2>3, <3>1, <3>5, <3>8
  <2> QED BY <2>4, <2>5
<1>2. \A n \in 0..Len(observations) : Holds(n)
  <2> HIDE DEF Holds
  <2>1. \A n \in Nat : n \notin Open
    <3> HIDE DEF Open
    <3> QED BY <1>1
  <2> QED BY <1>0, <2>1
<1> QED BY <1>2

\* A transaction that is not refused has recorded all observations.
LEMMA TransactionRecorded ==
  ASSUME Tables(motifs, aliases, events),
         NEW a \in Observers, NEW t \in Turns, NEW b \in Beats,
         NEW observations \in Seq(Observations),
         Transaction(a, t, b, observations).valid
  PROVE  Recorded(Transaction(a, t, b, observations), a, t, b, observations, Len(observations))
<1> DEFINE n == Len(observations)
           f == CHOOSE f : Stages(a, t, b, observations, n, f)
<1>1. n \in Nat
  OBVIOUS
<1> HIDE DEF n
<1>2. \E g : Stages(a, t, b, observations, n, g)
  BY <1>1, StagesExist
<1>3. Stages(a, t, b, observations, n, f)
  BY <1>2, Zenon
<1>4. Transaction(a, t, b, observations) = f[n]
  BY TransactionIs DEF n
<1> HIDE DEF f
<1>5. n \in 0..Len(observations)
  BY <1>1 DEF n
<1>6. f[n].valid => Recorded(f[n], a, t, b, observations, n)
  BY <1>3, <1>5, StagesRecorded DEF n
<1> QED BY <1>4, <1>6 DEF n
-----------------------------------------------------------------------------
(* Places.                                                                 *)

\* A place is reached before another one.
Before(p, q) == p[1] < q[1] \/ (p[1] = q[1] /\ p[2] < q[2])

AtOf(e) == <<e.observer, e.beat>>
ReplyOf(e) == Reply(e.turn, AtOf(e))

\* No turn is at a place before those of its events and messages.
Reached(p, q) == p = q \/ Before(p, q)

LEMMA PlaceType ==
  ASSUME NEW p \in Places \cup {Finished}
  PROVE  /\ p = <<p[1], p[2]>> /\ p[1] \in Nat /\ p[2] \in Nat
         /\ p # Finished => p[1] \in Observers /\ p[2] \in Beats
<1>1. NumAgents \in Nat /\ MaxBeats \in Nat
  BY MotifsAssumption
<1> QED BY <1>1 DEF Places, Finished, Observers, Beats

LEMMA BeforeMoves ==
  ASSUME NEW p \in Places \cup {Finished}, NEW q \in Places \cup {Finished},
         NEW r \in Places \cup {Finished}, Reached(p, q), Before(q, r)
  PROVE  Before(p, r) /\ p # r
<1>1. /\ p = <<p[1], p[2]>> /\ q = <<q[1], q[2]>> /\ r = <<r[1], r[2]>>
      /\ p[1] \in Nat /\ p[2] \in Nat /\ q[1] \in Nat /\ q[2] \in Nat /\ r[1] \in Nat /\ r[2] \in Nat
  BY PlaceType
<1>2. Before(p, r)
  BY <1>1 DEF Reached, Before
<1>3. ~Before(p, p)
  BY <1>1 DEF Before
<1> QED BY <1>2, <1>3

LEMMA FirstPlaces ==
  ASSUME NEW t \in Turns, NEW agents \in SUBSET Observers
  PROVE  \/ FirstPlace(t, agents) = Finished
         \/ \E a \in agents : FirstPlace(t, agents) = <<a, 1>> /\ <<a, 1>> \in Places
<1>1. CASE agents \cap AgentsOf[t] = {}
  BY <1>1 DEF FirstPlace
<1>2. CASE agents \cap AgentsOf[t] # {}
  <2> DEFINE S == agents \cap AgentsOf[t]
  <2>1. S \subseteq Nat /\ 1 \in Beats
    BY MotifsAssumption DEF Observers, Beats
  <2>2. Min(S) \in S
    <3> HIDE DEF S
    <3>1. \E x \in S : \A y \in S : x <= y
      <4>1. S # {}
        BY <1>2 DEF S
      <4> QED BY <2>1, <4>1, NaturalsHaveMinima
    <3> QED BY <3>1 DEF Min
  <2>3. FirstPlace(t, agents) = <<Min(S), 1>>
    BY <1>2 DEF FirstPlace
  <2> HIDE DEF S
  <2>4. Min(S) \in agents
    BY <2>2 DEF S
  <2> QED BY <2>1, <2>3, <2>4 DEF Places
<1> QED BY <1>1, <1>2

LEMMA NextPlaces ==
  ASSUME NEW t \in Turns, NEW p \in Places
  PROVE  /\ NextAgent(t, p) \in Places \cup {Finished} /\ Before(p, NextAgent(t, p))
         /\ p[2] < MaxBeats => <<p[1], p[2] + 1>> \in Places /\ Before(p, <<p[1], p[2] + 1>>)
<1> DEFINE agents == (p[1] + 1)..NumAgents
<1>0. NumAgents \in Nat /\ MaxBeats \in Nat
  BY MotifsAssumption
<1>1. p[1] \in 1..NumAgents /\ p[2] \in 1..MaxBeats
  BY DEF Places, Observers, Beats
<1>2. agents \in SUBSET Observers /\ \A a \in agents : p[1] < a
  BY <1>0, <1>1 DEF Observers
<1>3. \/ NextAgent(t, p) = Finished
      \/ \E a \in agents : NextAgent(t, p) = <<a, 1>> /\ <<a, 1>> \in Places
  BY <1>2, FirstPlaces DEF NextAgent
<1>4. CASE NextAgent(t, p) = Finished
  BY <1>0, <1>1, <1>4 DEF Finished, Before, Places, Observers, Beats
<1>5. CASE \E a \in agents : NextAgent(t, p) = <<a, 1>> /\ <<a, 1>> \in Places
  <2>1. PICK a \in agents : NextAgent(t, p) = <<a, 1>> /\ <<a, 1>> \in Places
    BY <1>5
  <2>2. p[1] < a
    BY <1>2
  <2>3. NextAgent(t, p) \in Places /\ Before(p, NextAgent(t, p))
    BY <2>1, <2>2 DEF Before
  <2>4. p[2] < MaxBeats => <<p[1], p[2] + 1>> \in Places /\ Before(p, <<p[1], p[2] + 1>>)
    BY <1>0, <1>1 DEF Before, Places, Observers, Beats
  <2> QED BY <2>3, <2>4
<1> QED BY <1>3, <1>4, <1>5

\* A reply is that of one beat, and no prompt.
LEMMA RepliesDiffer ==
  ASSUME NEW t, NEW u, NEW p \in Places, NEW q \in Places
  PROVE  /\ Reply(t, p) = Reply(u, q) => t = u /\ p = q
         /\ Prompt(t) # Reply(u, q)
<1>1. p = <<p[1], p[2]>> /\ q = <<q[1], q[2]>>
  BY DEF Places
<1> QED BY <1>1 DEF Reply, Prompt

LEMMA AppendedCitation ==
  ASSUME NEW x, NEW y
  PROVE  Append(<<x>>, y) = <<x, y>>
<1> DEFINE S == {x, y}
           s == <<x>>
           r == Append(s, y)
<1>1. s \in Seq(S) /\ y \in S /\ Len(s) = 1 /\ s[1] = x
  OBVIOUS
<1> HIDE DEF S, s
<1>2. r \in Seq(S) /\ Len(r) = 2 /\ r[1] = x /\ r[2] = y
  <2>1. r \in Seq(S) /\ Len(r) = Len(s) + 1 /\ r[Len(s) + 1] = y
        /\ \A i \in 1..Len(s) : r[i] = s[i]
    <3>1. s \in Seq(S) /\ y \in S
      BY <1>1
    <3> QED BY ONLY <3>1, AppendProperties
  <2> HIDE DEF r
  <2> QED BY <1>1, <2>1
<1> HIDE DEF r
<1>3. r = [i \in 1..2 |-> r[i]]
  BY <1>2
<1>4. <<x, y>> = [i \in 1..2 |-> IF i = 1 THEN x ELSE y]
  OBVIOUS
<1>5. r = <<x, y>>
  BY <1>2, <1>3, <1>4
<1> QED BY <1>5 DEF r, s

LEMMA RangeOfCitations ==
  ASSUME NEW x, NEW y
  PROVE  Range(<<x>>) = {x} /\ Range(<<x, y>>) = {x, y}
<1>1. DOMAIN <<x>> = {1} /\ DOMAIN <<x, y>> = {1, 2}
  OBVIOUS
<1> QED BY <1>1 DEF Range
-----------------------------------------------------------------------------
(* The turns, and the evidence.                                            *)

\* The running turn is unfinished, and messages are replies of beats.
TurnInv ==
  /\ place \in [Turns -> Places \cup {Finished}]
  /\ step \in {"asking", "attaching", "finishing"}
  /\ running # None => running \in Turns /\ place[running] # Finished
  /\ messages \subseteq {Reply(t, p) : t \in Turns, p \in Places}

\* What is stored of a turn lies at or before its place.
ReachedInv ==
  /\ \A i \in DOMAIN events : IsAgents(events[i]) => Reached(AtOf(events[i]), place[events[i].turn])
  /\ \A t \in Turns, p \in Places : Reply(t, p) \in messages => Reached(p, place[t])

Cites(e) == ReplyOf(e) \in Range(e.evidence)

\* What EvidenceIsOfTheBeat says of one event.
Evident(e, stored, places) ==
  /\ e.evidence \in {<<Prompt(e.turn)>>, <<Prompt(e.turn), ReplyOf(e)>>}
  /\ Cites(e) => ReplyOf(e) \in stored
  /\ places[e.turn] # AtOf(e) /\ ReplyOf(e) \in stored => Cites(e)

\* A reply is stored before it is attached, and attached before the beat is over.
AttachInv ==
  /\ running # None /\ step # "asking" => Reply(running, place[running]) \in messages
  /\ running # None /\ step = "finishing" =>
       \A i \in DOMAIN events :
         IsAgents(events[i]) /\ events[i].turn = running /\ AtOf(events[i]) = place[running]
           => Cites(events[i])

EvidenceInv == ReachedInv /\ AttachInv /\ EvidenceIsOfTheBeat

EventTypes == events \in Seq(Event)

LEMMA EvidenceAnew ==
  EvidenceIsOfTheBeat <=>
    \A i \in DOMAIN events : IsAgents(events[i]) => Evident(events[i], messages, place)
BY DEF EvidenceIsOfTheBeat, Evident, Cites, ReplyOf, AtOf

LEMMA EvidenceNext ==
  (EvidenceIsOfTheBeat <=>
     \A i \in DOMAIN events : IsAgents(events[i]) => Evident(events[i], messages, place))'
BY EvidenceAnew, PTL

LEMMA AgentEventFields ==
  ASSUME NEW e \in Event, IsAgents(e)
  PROVE  e.turn \in Turns /\ AtOf(e) \in Places /\ e.observer \in Observers /\ e.beat \in Beats
BY EventKinds DEF AgentEvent, AtOf, Places

\* The running turn is at a beat of one of its agents.
LEMMA RunningPlace ==
  ASSUME TurnInv, running # None
  PROVE  running \in Turns /\ place[running] \in Places
BY DEF TurnInv

\* Nothing is written of the events, messages and places.
LEMMA EvidenceSame ==
  ASSUME EvidenceInv, UNCHANGED <<events, messages, place>>,
         UNCHANGED <<running, step>> \/ step' = "asking"
  PROVE  EvidenceInv'
<1>1. ReachedInv' /\ EvidenceIsOfTheBeat'
  BY EvidenceAnew, EvidenceNext DEF EvidenceInv, ReachedInv
<1>2. AttachInv'
  BY DEF EvidenceInv, AttachInv
<1> QED BY <1>1, <1>2 DEF EvidenceInv

LEMMA EvidenceRecord ==
  ASSUME TurnInv, EvidenceInv, EventTypes, running # None, step = "asking",
         Reply(running, place[running]) \notin messages,
         NEW n \in Nat, events' \in Seq(Event), Len(events') = Len(events) + n,
         \A i \in DOMAIN events : events'[i] = events[i],
         \A i \in 1..n : LET e == events'[Len(events) + i] IN
           AtOf(e) = place[running] /\ e.turn = running /\ e.evidence = <<Prompt(running)>>,
         UNCHANGED round
  PROVE  EvidenceInv'
<1>0. DOMAIN events = 1..Len(events) /\ DOMAIN events' = 1..(Len(events) + n) /\ Len(events) \in Nat
  BY DEF EventTypes
<1>1. UNCHANGED <<messages, running, place, step>>
  BY DEF round
<1>2. running \in Turns /\ place[running] \in Places
  BY RunningPlace
<1>3. ASSUME NEW i \in DOMAIN events', IsAgents(events'[i])
      PROVE  /\ Reached(AtOf(events'[i]), place[events'[i].turn])
             /\ Evident(events'[i], messages, place)
  <2>1. CASE i \in DOMAIN events
    <3>1. events'[i] = events[i]
      BY <2>1
    <3> QED BY <2>1, <3>1, <1>3, EvidenceAnew DEF EvidenceInv, ReachedInv
  <2>2. CASE i \notin DOMAIN events
    <3> DEFINE e == events'[i]
               reply == Reply(running, place[running])
    <3>1. PICK k \in 1..n : i = Len(events) + k
      <4>1. i - Len(events) \in 1..n /\ i = Len(events) + (i - Len(events))
        BY <1>0, <2>2
      <4> QED BY <4>1
    <3>2. AtOf(e) = place[running] /\ e.turn = running /\ e.evidence = <<Prompt(running)>>
      BY <3>1
    <3> HIDE DEF e
    <3>3. ReplyOf(e) = reply /\ Range(e.evidence) = {Prompt(running)}
      BY <3>2, RangeOfCitations DEF ReplyOf
    <3>4. ~Cites(e)
      BY <3>3, <1>2, RepliesDiffer DEF Cites
    <3>5. Evident(e, messages, place)
      BY <3>2, <3>3, <3>4 DEF Evident
    <3>6. Reached(AtOf(e), place[e.turn])
      BY <3>2 DEF Reached
    <3> QED BY <3>5, <3>6 DEF e
  <2> QED BY <2>1, <2>2
<1>4. EvidenceIsOfTheBeat'
  BY <1>1, <1>3, EvidenceNext
<1>5. ReachedInv'
  BY <1>1, <1>3 DEF ReachedInv, EvidenceInv
<1>6. AttachInv'
  BY <1>1 DEF AttachInv
<1> QED BY <1>4, <1>5, <1>6 DEF EvidenceInv

LEMMA EvidenceStore ==
  ASSUME TurnInv, EvidenceInv, EventTypes, StoreReply
  PROVE  EvidenceInv'
<1> DEFINE reply == Reply(running, place[running])
<1>1. /\ running # None /\ messages' = messages \cup {reply} /\ step' = "attaching"
      /\ UNCHANGED <<events, running, place>>
  BY DEF StoreReply, library
<1>2. running \in Turns /\ place[running] \in Places
  BY <1>1, RunningPlace
<1>3. ASSUME NEW i \in DOMAIN events, IsAgents(events[i])
      PROVE  Evident(events[i], messages', place)
  <2> DEFINE e == events[i]
  <2>1. Evident(e, messages, place)
    BY <1>3, EvidenceAnew DEF EvidenceInv
  <2>2. e.turn \in Turns /\ AtOf(e) \in Places
    BY <1>3, AgentEventFields DEF EventTypes
  <2> HIDE DEF e
  <2>3. ReplyOf(e) = reply => place[e.turn] = AtOf(e)
    BY <2>2, <1>2, RepliesDiffer DEF ReplyOf
  <2>4. Evident(e, messages', place)
    BY <2>1, <2>3, <1>1 DEF Evident
  <2> QED BY <2>4 DEF e
<1>4. EvidenceIsOfTheBeat'
  BY <1>1, <1>3, EvidenceNext
<1>5. ReachedInv'
  <2>1. \A i \in DOMAIN events : IsAgents(events[i]) =>
          Reached(AtOf(events[i]), place[events[i].turn])
    BY DEF EvidenceInv, ReachedInv
  <2>2. \A t \in Turns, p \in Places : Reply(t, p) \in messages' => Reached(p, place[t])
    <3> SUFFICES ASSUME NEW t \in Turns, NEW p \in Places, Reply(t, p) \in messages'
                 PROVE  Reached(p, place[t])
      OBVIOUS
    <3>1. CASE Reply(t, p) \in messages
      BY <3>1 DEF EvidenceInv, ReachedInv
    <3>2. CASE Reply(t, p) = reply
      <4>1. t = running /\ p = place[running]
        BY <3>2, <1>2, RepliesDiffer
      <4> QED BY <4>1 DEF Reached
    <3> QED BY <3>1, <3>2, <1>1
  <2> QED BY <2>1, <2>2, <1>1 DEF ReachedInv
<1>6. AttachInv'
  BY <1>1 DEF AttachInv
<1> QED BY <1>4, <1>5, <1>6 DEF EvidenceInv

\* What the events become when the reply is attached.
LEMMA AttachedEvents ==
  ASSUME TurnInv, EvidenceInv, EventTypes, AttachReply
  PROVE  /\ Alike(events, events') /\ events' \in Seq(Event) /\ Len(events') = Len(events)
         /\ \A i \in DOMAIN events :
              LET e == events[i]
                  reply == Reply(running, place[running])
              IN
              /\ ~(IsAgents(e) /\ e.turn = running /\ AtOf(e) = place[running]) => events'[i] = e
              /\ IsAgents(e) /\ e.turn = running /\ AtOf(e) = place[running] =>
                   events'[i].evidence = <<Prompt(running), reply>>
<1> DEFINE p == place[running]
           reply == Reply(running, p)
           Here(e) == IsAgents(e) /\ e.turn = running /\ AtOf(e) = p
           To(e) == IF Here(e) /\ reply \notin Range(e.evidence)
                    THEN [e EXCEPT !.evidence = Append(e.evidence, reply)] ELSE e
<1>1. running # None
  BY DEF AttachReply
<1>2. running \in Turns /\ p \in Places /\ p = <<p[1], p[2]>>
  BY <1>1, RunningPlace DEF Places
<1>3. \A i \in DOMAIN events : Here(events[i]) <=>
        /\ IsAgents(events[i]) /\ events[i].observer = p[1] /\ events[i].turn = running
        /\ events[i].beat = p[2]
  BY <1>2 DEF AtOf
<1>4. events' = [i \in DOMAIN events |-> To(events[i])]
  <2> HIDE DEF p, reply
  <2>1. events' = [i \in DOMAIN events |->
          IF /\ IsAgents(events[i]) /\ events[i].observer = p[1] /\ events[i].turn = running
             /\ events[i].beat = p[2] /\ reply \notin Range(events[i].evidence)
          THEN [events[i] EXCEPT !.evidence = Append(@, reply)]
          ELSE events[i]]
    BY DEF AttachReply, p, reply
  <2> QED BY <2>1, <1>3
<1>5. ASSUME NEW i \in DOMAIN events
      PROVE  LET e == events[i] IN
             /\ To(e) \in Event
             /\ ~Here(e) => To(e) = e
             /\ Here(e) => To(e).evidence = <<Prompt(running), reply>>
             /\ To(e).motif = e.motif /\ To(e).kind = e.kind /\ To(e).turn = e.turn
             /\ To(e).observer = e.observer /\ To(e).beat = e.beat
             /\ To(e).primary = e.primary /\ To(e).status = e.status
  <2> DEFINE e == events[i]
             both == <<Prompt(running), reply>>
  <2>1. e \in Event
    BY DEF EventTypes
  <2> HIDE DEF e
  <2>2. CASE ~Here(e)
    BY <2>1, <2>2 DEF e
  <2>3. CASE Here(e)
    <3>1. Evident(e, messages, place)
      BY <2>3, EvidenceAnew DEF EvidenceInv, e
    <3>2. ReplyOf(e) = reply /\ e.turn = running
      BY <2>3 DEF ReplyOf
    <3>3. e.evidence = <<Prompt(running)>> \/ e.evidence = both
      BY <3>1, <3>2 DEF Evident
    <3>4. reply \in Range(both) /\ reply \notin Range(<<Prompt(running)>>)
      BY <1>2, RangeOfCitations, RepliesDiffer
    <3>5. Append(<<Prompt(running)>>, reply) = both
      BY ONLY AppendedCitation
    <3>6. both \in Evidences
      BY <1>2 DEF Evidences
    <3>7. e \in AgentEvent
      BY <2>1, <2>3, EventKinds
    <3> HIDE DEF both, reply
    <3>8. CASE e.evidence = <<Prompt(running)>>
      <4>1. To(e) = [e EXCEPT !.evidence = both]
        BY <2>3, <3>4, <3>5, <3>8
      <4>2. /\ To(e) \in AgentEvent /\ To(e).evidence = both
            /\ To(e).motif = e.motif /\ To(e).kind = e.kind /\ To(e).turn = e.turn
            /\ To(e).observer = e.observer /\ To(e).beat = e.beat
            /\ To(e).primary = e.primary /\ To(e).status = e.status
        <5> HIDE DEF To
        <5> QED BY <4>1, <3>6, <3>7 DEF AgentEvent
      <4> QED BY <2>3, <4>2, EventKinds DEF e, both
    <3>9. CASE e.evidence = both
      <4>1. To(e) = e
        BY <3>4, <3>9
      <4> QED BY <2>1, <2>3, <3>9, <4>1 DEF e, both
    <3> QED BY <3>3, <3>8, <3>9
  <2> QED BY <2>2, <2>3
<1> HIDE DEF To
<1>6. DOMAIN events' = DOMAIN events /\ \A i \in DOMAIN events : events'[i] = To(events[i])
  BY <1>4
<1>7. Alike(events, events')
  BY <1>5, <1>6 DEF Alike
<1>8. events' \in Seq(Event) /\ Len(events') = Len(events)
  <2>1. DOMAIN events = 1..Len(events) /\ Len(events) \in Nat
    BY DEF EventTypes
  <2>2. events' \in [1..Len(events) -> Event]
    BY <2>1, <1>4, <1>5
  <2> QED BY <2>1, <2>2
<1> QED BY <1>5, <1>6, <1>7, <1>8

LEMMA EvidenceAttach ==
  ASSUME TurnInv, EvidenceInv, EventTypes, AttachReply
  PROVE  EvidenceInv'
<1> DEFINE reply == Reply(running, place[running])
           Here(e) == IsAgents(e) /\ e.turn = running /\ AtOf(e) = place[running]
<1>1. /\ running # None /\ step = "attaching" /\ step' = "finishing"
      /\ UNCHANGED <<messages, running, place>>
  BY DEF AttachReply
<1>2. running \in Turns /\ place[running] \in Places
  BY <1>1, RunningPlace
<1>3. reply \in messages
  BY <1>1 DEF EvidenceInv, AttachInv
<1>4. /\ DOMAIN events' = DOMAIN events
      /\ \A i \in DOMAIN events :
           /\ events'[i].kind = events[i].kind /\ events'[i].turn = events[i].turn
           /\ AtOf(events'[i]) = AtOf(events[i])
           /\ ~Here(events[i]) => events'[i] = events[i]
           /\ Here(events[i]) => events'[i].evidence = <<Prompt(running), reply>>
  BY AttachedEvents DEF Alike, AtOf
<1>5. ASSUME NEW i \in DOMAIN events, IsAgents(events'[i])
      PROVE  /\ Reached(AtOf(events'[i]), place[events'[i].turn])
             /\ Evident(events'[i], messages, place)
             /\ Here(events'[i]) => Cites(events'[i])
  <2> DEFINE e == events'[i]
  <2>1. IsAgents(events[i]) /\ (Here(events'[i]) <=> Here(events[i]))
    BY <1>4, <1>5 DEF IsAgents
  <2>2. Reached(AtOf(events'[i]), place[events'[i].turn])
    BY <2>1, <1>4 DEF EvidenceInv, ReachedInv
  <2>3. CASE ~Here(events[i])
    BY <2>1, <2>2, <2>3, <1>4, EvidenceAnew DEF EvidenceInv
  <2>4. CASE Here(events[i])
    <3>1. e.turn = running /\ AtOf(e) = place[running] /\ e.evidence = <<Prompt(running), reply>>
      BY <2>4, <1>4
    <3> HIDE DEF e
    <3>2. ReplyOf(e) = reply
      BY <3>1 DEF ReplyOf
    <3>3. Cites(e)
      <4> HIDE DEF reply
      <4>1. Range(e.evidence) = {Prompt(running), reply}
        BY <3>1, RangeOfCitations
      <4> QED BY <3>2, <4>1 DEF Cites
    <3>4. Evident(e, messages, place)
      BY <3>1, <3>2, <3>3, <1>3 DEF Evident
    <3> QED BY <2>2, <3>3, <3>4 DEF e
  <2> QED BY <2>3, <2>4
<1>6. EvidenceIsOfTheBeat'
  BY <1>1, <1>4, <1>5, EvidenceNext
<1>7. ReachedInv'
  <2>1. \A t \in Turns, p \in Places : Reply(t, p) \in messages => Reached(p, place[t])
    BY DEF EvidenceInv, ReachedInv
  <2> QED BY <2>1, <1>1, <1>4, <1>5 DEF ReachedInv
<1>8. AttachInv'
  BY <1>1, <1>3, <1>4, <1>5 DEF AttachInv
<1> QED BY <1>6, <1>7, <1>8 DEF EvidenceInv

\* The running turn leaves its beat.
LEMMA EvidenceMoves ==
  ASSUME TurnInv, EvidenceInv, EventTypes, running # None,
         \/ step = "finishing"
         \/ Reply(running, place[running]) \notin messages,
         NEW next \in Places \cup {Finished}, Before(place[running], next),
         place' = [place EXCEPT ![running] = next], step' = "asking",
         UNCHANGED <<events, messages>>
  PROVE  EvidenceInv'
<1>1. running \in Turns /\ place[running] \in Places
  BY RunningPlace
<1>2. place'[running] = next /\ \A t \in Turns : t # running => place'[t] = place[t]
  BY <1>1 DEF TurnInv
<1>3. ASSUME NEW p \in Places, NEW t \in Turns, Reached(p, place[t])
      PROVE  Reached(p, place'[t]) /\ (t = running => place'[t] # p)
  <2>1. CASE t = running
    BY <2>1, <1>1, <1>2, <1>3, BeforeMoves DEF Reached
  <2>2. CASE t # running
    BY <2>2, <1>2, <1>3
  <2> QED BY <2>1, <2>2
<1>4. ASSUME NEW i \in DOMAIN events, IsAgents(events[i])
      PROVE  /\ Reached(AtOf(events[i]), place'[events[i].turn])
             /\ Evident(events[i], messages, place')
  <2> DEFINE e == events[i]
  <2>1. Evident(e, messages, place) /\ Reached(AtOf(e), place[e.turn])
    BY <1>4, EvidenceAnew DEF EvidenceInv, ReachedInv
  <2>2. e.turn \in Turns /\ AtOf(e) \in Places
    BY <1>4, AgentEventFields DEF EventTypes
  <2>3. e.turn = running /\ AtOf(e) = place[running] /\ ReplyOf(e) \in messages => Cites(e)
    <3>1. CASE step = "finishing"
      BY <3>1, <1>4 DEF EvidenceInv, AttachInv
    <3>2. CASE Reply(running, place[running]) \notin messages
      BY <3>2 DEF ReplyOf
    <3> QED BY <3>1, <3>2
  <2> HIDE DEF e
  <2>4. Reached(AtOf(e), place'[e.turn])
    BY <2>1, <2>2, <1>3
  <2>5. Evident(e, messages, place')
    BY <2>1, <2>2, <2>3, <1>2 DEF Evident
  <2> QED BY <2>4, <2>5 DEF e
<1>5. EvidenceIsOfTheBeat'
  BY <1>4, EvidenceNext
<1>6. ReachedInv'
  <2>1. \A t \in Turns, p \in Places : Reply(t, p) \in messages => Reached(p, place'[t])
    BY <1>3 DEF EvidenceInv, ReachedInv
  <2> QED BY <2>1, <1>4 DEF ReachedInv
<1>7. AttachInv'
  BY DEF AttachInv
<1> QED BY <1>5, <1>6, <1>7 DEF EvidenceInv
-----------------------------------------------------------------------------
(* The batches.                                                            *)

BatchRow == [turn : Turns, place : Places, results : Seq(Result)]

\* The events of a beat.
EventsAt(es, t, p) == {i \in DOMAIN es : IsAgents(es[i]) /\ es[i].turn = t /\ AtOf(es[i]) = p}

Tells(r, e) == e.motif = r.motif /\ e.status = r.status /\ e.primary = r.primary

\* The events of a batch are what its result tells, one after the other.
Whole(x, es) ==
  /\ \E before \in 0..Len(es) :
       /\ EventsAt(es, x.turn, x.place) = (before + 1)..(before + Len(x.results))
       /\ \A i \in DOMAIN x.results : Tells(x.results[i], es[before + i])
  /\ \A i, k \in DOMAIN x.results : x.results[i].motif = x.results[k].motif => i = k
  /\ Cardinality({i \in DOMAIN x.results : x.results[i].primary}) = 1

\* Each beat has at most one batch, and each event one.
BatchesOK(bs, es) ==
  /\ bs \subseteq BatchRow
  /\ \A x, y \in bs : x.turn = y.turn /\ x.place = y.place => x = y
  /\ \A x \in bs : Whole(x, es)
  /\ \A i \in DOMAIN es : IsAgents(es[i]) => \E x \in bs : x.turn = es[i].turn /\ x.place = AtOf(es[i])

\* Nothing but evidence is written to the events there were.
Kept(es, es2) ==
  /\ es2 \in Seq(Event) /\ Len(es) <= Len(es2)
  /\ \A i \in DOMAIN es :
       /\ es2[i].motif = es[i].motif /\ es2[i].kind = es[i].kind /\ es2[i].turn = es[i].turn
       /\ es2[i].observer = es[i].observer /\ es2[i].beat = es[i].beat
       /\ es2[i].primary = es[i].primary /\ es2[i].status = es[i].status

\* A batch stays whole if the new events are not of its beat.
LEMMA StaysWhole ==
  ASSUME NEW es \in Seq(Event), NEW es2, Kept(es, es2), NEW x \in BatchRow, Whole(x, es),
         \A i \in DOMAIN es2 \ DOMAIN es :
           ~(IsAgents(es2[i]) /\ es2[i].turn = x.turn /\ AtOf(es2[i]) = x.place)
  PROVE  Whole(x, es2)
<1>1. /\ DOMAIN es = 1..Len(es) /\ DOMAIN es2 = 1..Len(es2) /\ Len(es) \in Nat /\ Len(es2) \in Nat
      /\ Len(es) <= Len(es2) /\ DOMAIN es \subseteq DOMAIN es2
  BY DEF Kept
<1>2. \A i \in DOMAIN es :
        /\ IsAgents(es2[i]) <=> IsAgents(es[i])
        /\ es2[i].turn = es[i].turn /\ AtOf(es2[i]) = AtOf(es[i])
        /\ es2[i].motif = es[i].motif /\ es2[i].status = es[i].status
        /\ es2[i].primary = es[i].primary
  BY DEF Kept, AtOf, IsAgents
<1>3. EventsAt(es2, x.turn, x.place) = EventsAt(es, x.turn, x.place)
  BY <1>1, <1>2 DEF EventsAt
<1>4. PICK before \in 0..Len(es) :
        /\ EventsAt(es, x.turn, x.place) = (before + 1)..(before + Len(x.results))
        /\ \A i \in DOMAIN x.results : Tells(x.results[i], es[before + i])
  BY DEF Whole
<1>5. \A i \in DOMAIN x.results : before + i \in DOMAIN es => Tells(x.results[i], es2[before + i])
  BY <1>2, <1>4 DEF Tells
<1>6. Whole(x, es2)
  <2>0. x.results \in Seq(Result)
    BY DEF BatchRow
  <2>1. \A i \in DOMAIN x.results : before + i \in (before + 1)..(before + Len(x.results))
    BY <1>4, <2>0
  <2>2. \A i \in DOMAIN x.results : before + i \in DOMAIN es
    BY <2>1, <1>4 DEF EventsAt
  <2>3. before \in 0..Len(es2)
    BY <1>1, <1>4
  <2> QED BY <1>3, <1>4, <1>5, <2>2, <2>3 DEF Whole
<1> QED BY <1>6

LEMMA BatchesStay ==
  ASSUME NEW es \in Seq(Event), NEW es2, Kept(es, es2), NEW bs, BatchesOK(bs, es),
         \A i \in DOMAIN es2 \ DOMAIN es : ~IsAgents(es2[i])
  PROVE  BatchesOK(bs, es2)
<1>1. \A x \in bs : Whole(x, es2)
  <2> TAKE x \in bs
  <2>1. x \in BatchRow /\ Whole(x, es)
    BY DEF BatchesOK
  <2> QED BY <2>1, StaysWhole
<1>2. ASSUME NEW i \in DOMAIN es2, IsAgents(es2[i])
      PROVE  \E x \in bs : x.turn = es2[i].turn /\ x.place = AtOf(es2[i])
  <2>1. i \in DOMAIN es
    BY <1>2
  <2>2. IsAgents(es[i]) /\ es2[i].turn = es[i].turn /\ AtOf(es2[i]) = AtOf(es[i])
    BY <1>2, <2>1 DEF Kept, IsAgents, AtOf
  <2> QED BY <2>1, <2>2 DEF BatchesOK
<1> QED BY <1>1, <1>2 DEF BatchesOK

\* A batch is added with its events.
LEMMA BatchesGrow ==
  ASSUME NEW es \in Seq(Event), NEW es2, Kept(es, es2), NEW bs, BatchesOK(bs, es),
         NEW new \in BatchRow, NEW n \in Nat, Len(new.results) = n, Len(es2) = Len(es) + n,
         \A x \in bs : ~(x.turn = new.turn /\ x.place = new.place),
         \A i \in 1..n :
           /\ IsAgents(es2[Len(es) + i]) /\ es2[Len(es) + i].turn = new.turn
           /\ AtOf(es2[Len(es) + i]) = new.place
           /\ Tells(new.results[i], es2[Len(es) + i]),
         \A i, k \in 1..n : new.results[i].motif = new.results[k].motif => i = k,
         Cardinality({i \in 1..n : new.results[i].primary}) = 1
  PROVE  BatchesOK(bs \cup {new}, es2)
<1>1. /\ DOMAIN es = 1..Len(es) /\ DOMAIN es2 = 1..(Len(es) + n) /\ Len(es) \in Nat
      /\ DOMAIN new.results = 1..n
  BY DEF Kept, BatchRow
<1>2. \A i \in DOMAIN es :
        /\ IsAgents(es2[i]) <=> IsAgents(es[i])
        /\ es2[i].turn = es[i].turn /\ AtOf(es2[i]) = AtOf(es[i])
  BY DEF Kept, IsAgents, AtOf
<1>3. \A i \in DOMAIN es2 \ DOMAIN es : \E k \in 1..n : i = Len(es) + k
  <2> TAKE i \in DOMAIN es2 \ DOMAIN es
  <2>1. i - Len(es) \in 1..n /\ i = Len(es) + (i - Len(es))
    BY <1>1
  <2> QED BY <2>1
<1>4. \A i \in DOMAIN es2 \ DOMAIN es :
        IsAgents(es2[i]) /\ es2[i].turn = new.turn /\ AtOf(es2[i]) = new.place
  <2> TAKE i \in DOMAIN es2 \ DOMAIN es
  <2>1. PICK k \in 1..n : i = Len(es) + k
    BY <1>3
  <2>2. IsAgents(es2[Len(es) + k]) /\ es2[Len(es) + k].turn = new.turn
        /\ AtOf(es2[Len(es) + k]) = new.place
    OBVIOUS
  <2> QED BY ONLY <2>1, <2>2
<1>5. \A x \in bs : Whole(x, es2)
  <2> TAKE x \in bs
  <2>1. x \in BatchRow /\ Whole(x, es)
    BY DEF BatchesOK
  <2>2. \A i \in DOMAIN es2 \ DOMAIN es :
          ~(IsAgents(es2[i]) /\ es2[i].turn = x.turn /\ AtOf(es2[i]) = x.place)
    BY <1>4
  <2>3. es \in Seq(Event) /\ Kept(es, es2)
    OBVIOUS
  <2> QED BY ONLY <2>1, <2>2, <2>3, StaysWhole
<1>6. Whole(new, es2)
  <2>1. EventsAt(es2, new.turn, new.place) = (Len(es) + 1)..(Len(es) + n)
    <3>1. ASSUME NEW i \in DOMAIN es
          PROVE  i \notin EventsAt(es2, new.turn, new.place)
      <4> SUFFICES ASSUME i \in EventsAt(es2, new.turn, new.place) PROVE FALSE
        OBVIOUS
      <4>1. IsAgents(es[i]) /\ es[i].turn = new.turn /\ AtOf(es[i]) = new.place
        BY <1>2 DEF EventsAt
      <4>2. PICK x \in bs : x.turn = es[i].turn /\ x.place = AtOf(es[i])
        BY <4>1 DEF BatchesOK
      <4> QED BY <4>1, <4>2
    <3>2. DOMAIN es2 \ DOMAIN es \subseteq EventsAt(es2, new.turn, new.place)
      BY <1>4 DEF EventsAt
    <3>3. DOMAIN es2 \ DOMAIN es = (Len(es) + 1)..(Len(es) + n)
      BY <1>1
    <3>4. EventsAt(es2, new.turn, new.place) \subseteq DOMAIN es2
      BY DEF EventsAt
    <3> QED BY <3>1, <3>2, <3>3, <3>4
  <2>2. Len(es) \in 0..Len(es2)
    BY <1>1
  <2>3. \A i \in DOMAIN new.results : Tells(new.results[i], es2[Len(es) + i])
    BY <1>1
  <2> QED BY <1>1, <2>1, <2>2, <2>3 DEF Whole
<1>7. ASSUME NEW i \in DOMAIN es2, IsAgents(es2[i])
      PROVE  \E x \in bs \cup {new} : x.turn = es2[i].turn /\ x.place = AtOf(es2[i])
  <2>1. CASE i \in DOMAIN es
    <3>1. IsAgents(es[i]) /\ es2[i].turn = es[i].turn /\ AtOf(es2[i]) = AtOf(es[i])
      BY <1>2, <1>7, <2>1
    <3> QED BY <2>1, <3>1 DEF BatchesOK
  <2>2. CASE i \notin DOMAIN es
    BY <1>4, <2>2
  <2> QED BY <2>1, <2>2
<1>8. \A x, y \in bs \cup {new} : x.turn = y.turn /\ x.place = y.place => x = y
  BY DEF BatchesOK
<1>9. bs \cup {new} \subseteq BatchRow
  BY DEF BatchesOK
<1> QED BY <1>5, <1>6, <1>7, <1>8, <1>9 DEF BatchesOK

\* BatchesAreWhole follows from what the tables tell of each other.
LEMMA WholeFollows ==
  ASSUME Tables(motifs, aliases, events), BatchesOK(batches, events)
  PROVE  BatchesAreWhole
<1>1. events \in Seq(Event)
  BY DEF Tables, EventsOK
<1>2. \A b, c \in batches : b.turn = c.turn /\ b.place = c.place => b = c
  BY DEF BatchesOK
<1>3. ASSUME NEW b \in batches
      PROVE  /\ \E before \in 0..Len(events) :
                  /\ EventsAt(events, b.turn, b.place) = (before + 1)..(before + Len(b.results))
                  /\ \A i \in DOMAIN b.results : Tells(b.results[i], events[before + i])
             /\ \A i \in DOMAIN b.results : motifs[b.results[i].motif].observer = b.place[1]
             /\ \A i, k \in DOMAIN b.results : b.results[i].motif = b.results[k].motif => i = k
             /\ Cardinality({i \in DOMAIN b.results : b.results[i].primary}) = 1
  <2>1. Whole(b, events) /\ b \in BatchRow
    BY DEF BatchesOK
  <2>2. PICK before \in 0..Len(events) :
          /\ EventsAt(events, b.turn, b.place) = (before + 1)..(before + Len(b.results))
          /\ \A i \in DOMAIN b.results : Tells(b.results[i], events[before + i])
    BY <2>1 DEF Whole
  <2>3. ASSUME NEW i \in DOMAIN b.results
        PROVE  motifs[b.results[i].motif].observer = b.place[1]
    <3>1. before + i \in (before + 1)..(before + Len(b.results))
      BY <2>1 DEF BatchRow
    <3>2. before + i \in DOMAIN events /\ AtOf(events[before + i]) = b.place
      BY <2>2, <3>1 DEF EventsAt
    <3>3. events[before + i].motif = b.results[i].motif
      BY <2>2 DEF Tells
    <3>4. motifs[events[before + i].motif].observer = events[before + i].observer
      BY <3>2 DEF Tables, EventsOK
    <3>5. events[before + i].observer = b.place[1]
      BY <3>2 DEF AtOf
    <3> QED BY <3>3, <3>4, <3>5
  <2> QED BY <2>1, <2>2, <2>3 DEF Whole
<1>4. \A i \in DOMAIN events : IsAgents(events[i]) =>
        \E b \in batches : b.turn = events[i].turn /\ b.place = AtOf(events[i])
  BY DEF BatchesOK
<1>5. ASSUME NEW m \in DOMAIN motifs
      PROVE  /\ motifs[m].support = Cardinality(AgentEvents(m))
             /\ \A i \in AgentEvents(m) :
                  events[i].kind = "created" <=> \A k \in AgentEvents(m) : i <= k
  <2>1. Chronicle(motifs[m], events, m)
    BY DEF Tables
  <2>2. AgentEvents(m) = Seen(events, m)
    BY DEF AgentEvents, Seen
  <2> QED BY <2>1, <2>2 DEF Chronicle
<1> QED BY <1>2, <1>3, <1>4, <1>5 DEF BatchesAreWhole, EventsAt, Tells, AtOf
-----------------------------------------------------------------------------
(* The status of a motif.                                                  *)

TurnsAt(es, S) == {es[i].turn : i \in S}

LEMMA TurnsFinite ==
  ASSUME NEW es \in Seq(Event), NEW S \in SUBSET (1..Len(es))
  PROVE  IsFiniteSet(TurnsAt(es, S)) /\ Cardinality(TurnsAt(es, S)) \in Nat
<1> DEFINE f == [i \in S |-> es[i].turn]
<1>1. Len(es) \in Nat
  OBVIOUS
<1>2. IsFiniteSet(S)
  <2>1. IsFiniteSet(1..Len(es))
    BY <1>1, FS_Interval
  <2> QED BY <2>1, FS_Subset
<1>3. f \in Surjection(S, TurnsAt(es, S))
  BY DEF Surjection, TurnsAt
<1>4. IsFiniteSet(TurnsAt(es, S))
  BY <1>2, <1>3, FS_Surjection
<1> QED BY <1>4, FS_CardinalityType

\* UserHasTheLastWord follows from what the rows tell of the events.
LEMMA LastWordFollows ==
  ASSUME Tables(motifs, aliases, events)
  PROVE  UserHasTheLastWord
<1> SUFFICES ASSUME NEW m \in DOMAIN motifs
             PROVE  LET said == UserEvents(m) IN
                    IF said # {}
                    THEN motifs[m].status = events[CHOOSE i \in said : \A k \in said : k <= i].status
                    ELSE motifs[m].status =
                           IF Cardinality(TurnsThatSaw(m)) >= 2 THEN "supported" ELSE "candidate"
  BY DEF UserHasTheLastWord
<1> DEFINE row == motifs[m]
           said == Said(events, m)
           seen == Seen(events, m)
<1>1. events \in Seq(Event) /\ Chronicle(row, events, m) /\ row \in Row
  BY DEF Tables, EventsOK, RowsOK
<1>2. UserEvents(m) = said /\ TurnsThatSaw(m) = TurnsAt(events, seen)
  BY DEF UserEvents, Said, TurnsThatSaw, AgentEvents, Seen, TurnsAt
<1>3. said \subseteq 1..Len(events) /\ seen \subseteq 1..Len(events) /\ Len(events) \in Nat
  BY <1>1, SeenFinite
<1>4. CASE said # {}
  <2> DEFINE last == CHOOSE i \in said : \A k \in said : k <= i
  <2>1. \E i \in said : \A k \in said : k <= i
    <3> HIDE DEF said
    <3>1. said \in SUBSET Nat /\ \A x \in said : x <= Len(events)
      BY <1>3
    <3> QED BY <1>3, <1>4, <3>1, BoundedHaveMaxima
  <2>2. last \in said /\ \A k \in said : k <= last
    <3> HIDE DEF said
    <3> QED BY <2>1
  <2> HIDE DEF last
  <2>3. row.status = events[last].status
    BY <1>1, <2>2 DEF Chronicle
  <2> QED BY <1>2, <1>4, <2>3 DEF last
<1>5. CASE said = {}
  <2> DEFINE turns == TurnsAt(events, seen)
  <2>1. row.status = IF row.distinct >= 2 THEN "supported" ELSE "candidate"
    BY <1>1, <1>5 DEF Chronicle
  <2>2. IsFiniteSet(turns) /\ Cardinality(turns) \in Nat
    BY <1>1, <1>3, TurnsFinite
  <2>3. CASE row.distinct = 1
    <3>1. turns = {row.last}
      BY <1>1, <2>3 DEF Chronicle, TurnsAt
    <3>2. Cardinality(turns) = 1
      BY <3>1, FS_Singleton
    <3> QED BY <1>2, <1>5, <2>1, <2>3, <3>2
  <2>4. CASE row.distinct >= 2
    <3>1. PICK i \in seen, k \in seen : events[i].turn # events[k].turn
      BY <1>1, <2>4 DEF Chronicle
    <3> DEFINE x == events[i].turn
               y == events[k].turn
    <3>2. {x, y} \subseteq turns /\ x # y
      BY <3>1 DEF TurnsAt
    <3> HIDE DEF x, y, turns
    <3>3. IsFiniteSet({x}) /\ Cardinality({x}) = 1 /\ y \notin {x}
      BY <3>2, FS_Singleton
    <3>4. Cardinality({x} \cup {y}) = 2
      BY <3>3, FS_AddElement
    <3>5. {x} \cup {y} = {x, y}
      OBVIOUS
    <3>6. Cardinality(turns) >= 2
      BY <2>2, <3>2, <3>4, <3>5, FS_Subset
    <3> QED BY <1>2, <1>5, <2>1, <2>4, <3>6 DEF turns
  <2>5. row.distinct = 1 \/ row.distinct >= 2
    BY <1>1 DEF Chronicle, Row
  <2> QED BY <2>3, <2>4, <2>5
<1> QED BY <1>4, <1>5
-----------------------------------------------------------------------------
(* Patterns.                                                               *)

\* The primary observations of a motif.
Primary(es, m) == {i \in Seen(es, m) : es[i].primary}

\* The events that end the pattern, after one that begins it.
EndsOf(es, p) == {i \in Primary(es, p[Len(p)]) : \E k \in Primary(es, p[1]) : k < i}

\* What PreferencesAreEarned says of one choice.
Earned(c, ms, es) ==
  /\ c \in [observer : Observers, pattern : Seq(DOMAIN ms)]
  /\ Len(c.pattern) >= 1
  /\ \A i \in DOMAIN c.pattern :
       ms[c.pattern[i]].observer = c.observer /\ ms[c.pattern[i]].status # "candidate"
  /\ Cardinality(TurnsAt(es, EndsOf(es, c.pattern))) >= MinTurns

\* A choice is earned from its check on, before it is written.
EarnedInv ==
  /\ \A c \in DOMAIN preferences : Earned(c, motifs, events)
  /\ choosing # None => Earned(choosing, motifs, events)

LEMMA EarnedStays ==
  ASSUME NEW ms, NEW ms2, NEW es \in Seq(Event), NEW es2,
         Later(ms, ms2), Kept(es, es2), NEW c, Earned(c, ms, es)
  PROVE  Earned(c, ms2, es2)
<1> DEFINE p == c.pattern
<1>1. p \in Seq(DOMAIN ms) /\ Len(p) >= 1 /\ c.observer \in Observers
      /\ c = [observer |-> c.observer, pattern |-> p]
  BY DEF Earned
<1>2. DOMAIN ms \subseteq DOMAIN ms2
  BY DEF Later
<1>3. p \in Seq(DOMAIN ms2)
  BY <1>1, <1>2
<1>4. c \in [observer : Observers, pattern : Seq(DOMAIN ms2)]
  <2> HIDE DEF p
  <2> QED BY <1>1, <1>3
<1>5. \A i \in DOMAIN p : ms2[p[i]].observer = c.observer /\ ms2[p[i]].status # "candidate"
  <2> TAKE i \in DOMAIN p
  <2>1. p[i] \in DOMAIN ms
    BY <1>1
  <2>2. ms[p[i]].observer = c.observer /\ ms[p[i]].status # "candidate"
    BY DEF Earned
  <2> QED BY <2>1, <2>2 DEF Later
<1> HIDE DEF p
<1>6. /\ \A i \in DOMAIN es : i \in DOMAIN es2
      /\ \A i \in DOMAIN es : /\ IsAgents(es2[i]) <=> IsAgents(es[i])
                              /\ es2[i].motif = es[i].motif /\ es2[i].primary = es[i].primary
                              /\ es2[i].turn = es[i].turn
  BY DEF Kept, IsAgents
<1>7. \A m : Primary(es, m) \subseteq Primary(es2, m)
  BY <1>6 DEF Primary, Seen
<1>8. EndsOf(es, p) \subseteq EndsOf(es2, p) /\ EndsOf(es, p) \subseteq DOMAIN es
  BY <1>7 DEF EndsOf, Primary, Seen
<1>9. TurnsAt(es, EndsOf(es, p)) \subseteq TurnsAt(es2, EndsOf(es2, p))
  BY <1>6, <1>8 DEF TurnsAt
<1>10. es2 \in Seq(Event) /\ EndsOf(es2, p) \subseteq 1..Len(es2)
  BY DEF Kept, EndsOf, Primary, Seen
<1>11. /\ IsFiniteSet(TurnsAt(es2, EndsOf(es2, p)))
       /\ Cardinality(TurnsAt(es2, EndsOf(es2, p))) \in Nat
  BY <1>10, TurnsFinite
<1>12. /\ Cardinality(TurnsAt(es, EndsOf(es, p))) \in Nat
       /\ Cardinality(TurnsAt(es, EndsOf(es, p))) <= Cardinality(TurnsAt(es2, EndsOf(es2, p)))
  <2>1. IsFiniteSet(TurnsAt(es, EndsOf(es, p)))
    BY <1>9, <1>11, FS_Subset
  <2> QED BY <1>9, <1>11, <2>1, FS_Subset, FS_CardinalityType
<1>13. Cardinality(TurnsAt(es, EndsOf(es, p))) >= MinTurns /\ MinTurns \in Nat
  BY MotifsAssumption DEF Earned, p
<1>14. Cardinality(TurnsAt(es2, EndsOf(es2, p))) >= MinTurns
  BY <1>11, <1>12, <1>13
<1> QED BY <1>1, <1>4, <1>5, <1>14 DEF Earned, p

\* A finite set of numbers can be put in order.
Ordered(s) == \A i, k \in DOMAIN s : i < k => s[i] < s[k]

LEMMA OrderExists ==
  ASSUME NEW b \in Nat, NEW S \in SUBSET (1..b)
  PROVE  \E s \in [1..Cardinality(S) -> S] : Ordered(s)
<1> DEFINE Sorted(T) == \E s \in [1..Cardinality(T) -> T] : Ordered(s)
           Open == {n \in Nat : \E T \in SUBSET (1..b) : Cardinality(T) = n /\ ~Sorted(T)}
<1>0. \A T \in SUBSET (1..b) : IsFiniteSet(T) /\ Cardinality(T) \in Nat
  <2>1. IsFiniteSet(1..b)
    BY FS_Interval
  <2> TAKE T \in SUBSET (1..b)
  <2>2. IsFiniteSet(T)
    BY <2>1, FS_Subset
  <2> QED BY <2>2, FS_CardinalityType
<1>1. Open = {}
  <2> SUFFICES ASSUME Open # {} PROVE FALSE
    OBVIOUS
  <2>1. PICK n \in Open : \A k \in Open : n <= k
    <3>1. Open \subseteq Nat
      OBVIOUS
    <3> HIDE DEF Open
    <3> QED BY <3>1, NaturalsHaveMinima, Zenon
  <2> HIDE DEF Sorted
  <2>2. PICK T \in SUBSET (1..b) : Cardinality(T) = n /\ ~Sorted(T)
    OBVIOUS
  <2>3. n \in Nat
    OBVIOUS
  <2>4. CASE T = {}
    <3> DEFINE s == [i \in 1..0 |-> 0]
    <3>1. Cardinality(T) = 0
      BY <2>4, FS_EmptySet
    <3>2. s \in [1..0 -> T] /\ Ordered(s)
      BY DEF Ordered
    <3> QED BY <2>2, <3>1, <3>2 DEF Sorted
  <2>5. CASE T # {}
    <3> DEFINE top == Max(T)
               U == T \ {top}
    <3>1. top \in T /\ \A x \in T : x <= top
      <4>1. T \in SUBSET Nat /\ \A x \in T : x <= b
        OBVIOUS
      <4> QED BY <2>5, <4>1, BoundedHaveMaxima
    <3> HIDE DEF top
    <3>2. U \in SUBSET (1..b) /\ Cardinality(U) = n - 1 /\ n - 1 \in Nat
      <4>1. Cardinality(U) = Cardinality(T) - 1
        BY <1>0, <3>1, FS_RemoveElement
      <4>2. Cardinality(U) \in Nat
        BY <1>0
      <4> QED BY <2>2, <4>1, <4>2
    <3>3. Sorted(U)
      <4>1. n - 1 \notin Open
        <5>1. ~(n <= n - 1)
          BY <2>3
        <5> HIDE DEF Open
        <5> QED BY <2>1, <5>1
      <4> HIDE DEF U
      <4> QED BY <3>2, <4>1
    <3>4. PICK s \in [1..(n - 1) -> U] : Ordered(s)
      BY <3>2, <3>3 DEF Sorted
    <3> DEFINE r == [i \in 1..n |-> IF i = n THEN top ELSE s[i]]
    <3>5. \A i \in 1..n : i # n => i \in 1..(n - 1)
      BY <2>3
    <3>6. r \in [1..n -> T]
      <4>1. \A i \in 1..n : (IF i = n THEN top ELSE s[i]) \in T
        BY <3>1, <3>4, <3>5
      <4> QED BY <4>1
    <3>7. Ordered(r)
      <4> SUFFICES ASSUME NEW i \in 1..n, NEW k \in 1..n, i < k
                   PROVE  r[i] < r[k]
        BY DEF Ordered
      <4>1. i # n /\ i \in 1..(n - 1) /\ r[i] = s[i]
        BY <2>3
      <4>2. CASE k = n
        <5>1. s[i] \in U
          BY <4>1
        <5>2. s[i] \in T /\ s[i] # top
          BY <5>1
        <5>3. s[i] <= top /\ s[i] \in Int /\ top \in Int
          <6>1. T \subseteq Int
            OBVIOUS
          <6> HIDE DEF U
          <6> QED BY <3>1, <5>2, <6>1
        <5> QED BY <4>1, <4>2, <5>2, <5>3
      <4>3. CASE k # n
        BY <3>4, <3>5, <4>1, <4>3 DEF Ordered
      <4> QED BY <4>2, <4>3
    <3> HIDE DEF r
    <3> QED BY <2>2, <3>6, <3>7 DEF Sorted
  <2> QED BY <2>4, <2>5
<1>2. Cardinality(S) \in Nat
  BY <1>0
<1>3. Cardinality(S) \notin Open
  <2> HIDE DEF Open
  <2> QED BY <1>1
<1>4. Sorted(S)
  <2> HIDE DEF Sorted
  <2> QED BY <1>2, <1>3
<1> QED BY <1>4

\* The places s in the table of events make up the trajectory.
Traces(a, n, s) ==
  /\ Ordered(s)
  /\ Trajectory(a) = [i \in 1..n |-> events[s[i]]]
  /\ \A i \in 1..n :
       /\ IsAgents(events[s[i]]) /\ events[s[i]].observer = a /\ events[s[i]].primary
       /\ motifs[events[s[i]].motif].status \in Established

\* The trajectory is made of established primary observations, in order.
LEMMA TrajectoryIs ==
  ASSUME events \in Seq(Event), NEW a
  PROVE  \E n \in Nat : \E s \in [1..n -> DOMAIN events] : Traces(a, n, s)
<1> DEFINE shown == {i \in DOMAIN events :
                       /\ IsAgents(events[i]) /\ events[i].observer = a /\ events[i].primary
                       /\ motifs[events[i].motif].status \in Established}
           recent == {i \in shown : Cardinality({k \in shown : k >= i}) <= Window}
           path == CHOOSE s \in [1..Cardinality(recent) -> recent] :
                     \A i, k \in DOMAIN s : i < k => s[i] < s[k]
           n == Cardinality(recent)
<1>1. DOMAIN events = 1..Len(events) /\ Len(events) \in Nat
  OBVIOUS
<1>2. Trajectory(a) = [i \in DOMAIN path |-> events[path[i]]]
  BY DEF Trajectory
<1>3. recent \subseteq shown /\ recent \in SUBSET (1..Len(events))
  BY <1>1
<1>4. \A i \in shown : /\ i \in DOMAIN events
                       /\ IsAgents(events[i]) /\ events[i].observer = a /\ events[i].primary
                       /\ motifs[events[i].motif].status \in Established
  OBVIOUS
<1> HIDE DEF recent, shown
<1>5. \E s \in [1..n -> recent] : Ordered(s)
  BY <1>1, <1>3, OrderExists
<1>6. path \in [1..n -> recent] /\ Ordered(path)
  BY <1>5 DEF Ordered
<1>7. n \in Nat
  <2>1. IsFiniteSet(1..Len(events))
    BY <1>1, FS_Interval
  <2>2. IsFiniteSet(recent)
    BY <1>3, <2>1, FS_Subset
  <2> QED BY <2>2, FS_CardinalityType
<1> HIDE DEF n, path
<1>8. \A i \in 1..n : path[i] \in shown
  BY <1>3, <1>6
<1>9. path \in [1..n -> DOMAIN events] /\ DOMAIN path = 1..n
  BY <1>4, <1>6, <1>8
<1>10. Trajectory(a) = [i \in 1..n |-> events[path[i]]]
  BY <1>2, <1>9
<1>11. Traces(a, n, path)
  BY <1>4, <1>6, <1>8, <1>10 DEF Traces
<1> QED BY <1>7, <1>9, <1>11

LEMMA SpanEnds ==
  ASSUME NEW n \in Nat, NEW i \in 1..n, NEW k \in 1..n
  PROVE  i + 1 - 1 = i /\ i + (k - i + 1) - 1 = k
OBVIOUS

\* A pattern that is found has been earned.
LEMMA PatternsEarned ==
  ASSUME Tables(motifs, aliases, events), NEW a \in Observers, NEW p \in Patterns(a)
  PROVE  Earned([observer |-> a, pattern |-> p], motifs, events)
<1> DEFINE path == Trajectory(a)
           MotifsOf(i, k) == [j \in 1..(k - i + 1) |-> path[i + j - 1].motif]
           runs == {r \in (1..Len(path)) \X (1..Len(path)) :
                      LET size == r[2] - r[1] + 1 IN
                      \/ size \in {2, 3}
                      \/ size \in 3..6 /\ path[r[1]].motif = path[r[2]].motif}
           TurnsOf(x) == {path[r[2]].turn : r \in {y \in runs : MotifsOf(y[1], y[2]) = x}}
<1>1. events \in Seq(Event)
  BY DEF Tables, EventsOK
<1>2. PICK n \in Nat : \E s \in [1..n -> DOMAIN events] : Traces(a, n, s)
  BY <1>1, TrajectoryIs
<1>3. PICK s \in [1..n -> DOMAIN events] : Traces(a, n, s)
  BY <1>2
<1>4. /\ Ordered(s)
      /\ path = [i \in 1..n |-> events[s[i]]]
      /\ \A i \in 1..n :
           /\ IsAgents(events[s[i]]) /\ events[s[i]].observer = a /\ events[s[i]].primary
           /\ motifs[events[s[i]].motif].status \in Established
  BY <1>3 DEF Traces
<1>5. p \in {MotifsOf(r[1], r[2]) : r \in runs} /\ Cardinality(TurnsOf(p)) >= MinTurns
  BY DEF Patterns
<1>6. Len(path) = n /\ \A i \in 1..n : path[i] = events[s[i]]
  <2>1. path \in Seq(Event)
    BY <1>1, <1>4
  <2> QED BY <1>4, <2>1
<1> HIDE DEF path
<1>7. ASSUME NEW r \in runs
      PROVE  /\ r[1] \in 1..n /\ r[2] \in 1..n /\ r[1] < r[2]
             /\ \A j \in 1..(r[2] - r[1] + 1) : r[1] + j - 1 \in 1..n
             /\ r[2] - r[1] + 1 \in Nat
  <2>1. r[1] \in 1..n /\ r[2] \in 1..n
    BY <1>6
  <2>2. r[1] < r[2]
    BY <2>1
  <2> QED BY <2>1, <2>2
<1>8. \A i \in 1..n : /\ path[i].motif \in DOMAIN motifs
                      /\ motifs[path[i].motif].observer = a
                      /\ motifs[path[i].motif].status # "candidate"
  <2> TAKE i \in 1..n
  <2>1. path[i] = events[s[i]] /\ s[i] \in DOMAIN events
    BY <1>4, <1>6
  <2>2. events[s[i]].motif \in DOMAIN motifs /\ motifs[events[s[i]].motif].observer = a
    BY <1>4, <2>1 DEF Tables, EventsOK
  <2>3. motifs[events[s[i]].motif].status # "candidate"
    BY <1>4 DEF Established
  <2> QED BY <2>1, <2>2, <2>3
<1>9. PICK r \in runs : p = MotifsOf(r[1], r[2])
  BY <1>5
<1>10. p \in [1..(r[2] - r[1] + 1) -> DOMAIN motifs]
  BY <1>7, <1>8, <1>9
<1>11. p \in Seq(DOMAIN motifs) /\ Len(p) = r[2] - r[1] + 1 /\ Len(p) >= 1
  <2> DEFINE size == r[2] - r[1] + 1
  <2>1. size \in Nat /\ size >= 1
    BY <1>7
  <2>2. p \in [1..size -> DOMAIN motifs]
    BY <1>10
  <2> HIDE DEF size
  <2>3. p \in Seq(DOMAIN motifs) /\ Len(p) = size
    BY <2>1, <2>2
  <2> QED BY <2>1, <2>3 DEF size
<1>12. \A j \in DOMAIN p : motifs[p[j]].observer = a /\ motifs[p[j]].status # "candidate"
  <2> TAKE j \in DOMAIN p
  <2>1. j \in 1..(r[2] - r[1] + 1) /\ r[1] + j - 1 \in 1..n
    BY <1>7, <1>10
  <2>2. p[j] = path[r[1] + j - 1].motif
    BY <1>9, <2>1
  <2> QED BY <1>8, <2>1, <2>2
<1>13. TurnsOf(p) \subseteq TurnsAt(events, EndsOf(events, p))
  <2> SUFFICES ASSUME NEW y \in runs, MotifsOf(y[1], y[2]) = p
               PROVE  path[y[2]].turn \in TurnsAt(events, EndsOf(events, p))
    OBVIOUS
  <2>1. y[1] \in 1..n /\ y[2] \in 1..n /\ y[1] < y[2] /\ y[2] - y[1] + 1 \in Nat
    BY <1>7
  <2>2. p \in [1..(y[2] - y[1] + 1) -> DOMAIN motifs]
    BY <1>7, <1>8
  <2>3. Len(p) = y[2] - y[1] + 1 /\ 1 \in 1..Len(p) /\ Len(p) \in 1..Len(p)
    BY <2>1, <2>2
  <2>4. p[1] = path[y[1]].motif /\ p[Len(p)] = path[y[2]].motif
    <3>1. y[1] + 1 - 1 = y[1] /\ y[1] + (y[2] - y[1] + 1) - 1 = y[2]
      <4>1. n \in Nat /\ y[1] \in 1..n /\ y[2] \in 1..n
        BY <2>1
      <4> QED BY ONLY <4>1, SpanEnds
    <3>2. \A j \in 1..(y[2] - y[1] + 1) : p[j] = path[y[1] + j - 1].motif
      OBVIOUS
    <3> QED BY <2>3, <3>1, <3>2
  <2>5. s[y[1]] < s[y[2]]
    BY <1>4, <2>1 DEF Ordered
  <2>6. /\ s[y[1]] \in DOMAIN events /\ s[y[2]] \in DOMAIN events
        /\ path[y[1]] = events[s[y[1]]] /\ path[y[2]] = events[s[y[2]]]
    BY <1>4, <1>6, <2>1
  <2>7. s[y[1]] \in Primary(events, p[1]) /\ s[y[2]] \in Primary(events, p[Len(p)])
    BY <1>4, <2>1, <2>4, <2>6 DEF Primary, Seen
  <2>8. s[y[2]] \in EndsOf(events, p)
    BY <2>5, <2>7 DEF EndsOf
  <2> QED BY <2>6, <2>8 DEF TurnsAt
<1> HIDE DEF TurnsOf
<1>14. Cardinality(TurnsAt(events, EndsOf(events, p))) >= MinTurns
  <2>1. EndsOf(events, p) \subseteq 1..Len(events)
    BY <1>1 DEF EndsOf, Primary, Seen
  <2>2. /\ IsFiniteSet(TurnsAt(events, EndsOf(events, p)))
        /\ Cardinality(TurnsAt(events, EndsOf(events, p))) \in Nat
    BY <1>1, <2>1, TurnsFinite
  <2>3. IsFiniteSet(TurnsOf(p))
    BY <1>13, <2>2, FS_Subset
  <2>4. /\ Cardinality(TurnsOf(p)) \in Nat
        /\ Cardinality(TurnsOf(p)) <= Cardinality(TurnsAt(events, EndsOf(events, p)))
    BY <1>13, <2>2, <2>3, FS_Subset, FS_CardinalityType
  <2>5. MinTurns \in Nat
    BY MotifsAssumption
  <2> QED BY <1>5, <2>2, <2>4, <2>5
<1> DEFINE c == [observer |-> a, pattern |-> p]
<1>15. c \in [observer : Observers, pattern : Seq(DOMAIN motifs)] /\ c.pattern = p /\ c.observer = a
  BY <1>11
<1> HIDE DEF c
<1>16. Earned(c, motifs, events)
  BY <1>11, <1>12, <1>14, <1>15 DEF Earned
<1> QED BY <1>16 DEF c

LEMMA EarnedFollows ==
  ASSUME EarnedInv
  PROVE  PreferencesAreEarned
<1> SUFFICES ASSUME NEW c \in DOMAIN preferences
             PROVE  LET Primary_(m) == {i \in AgentEvents(m) : events[i].primary}
                        Ends == {i \in Primary_(c.pattern[Len(c.pattern)]) :
                                   \E k \in Primary_(c.pattern[1]) : k < i}
                    IN
                    /\ \A i \in DOMAIN c.pattern :
                         LET m == motifs[c.pattern[i]] IN m.observer = c.observer /\ m.status # "candidate"
                    /\ Cardinality({events[i].turn : i \in Ends}) >= MinTurns
  BY DEF PreferencesAreEarned
<1>1. Earned(c, motifs, events)
  BY DEF EarnedInv
<1>2. \A m : Primary(events, m) = {i \in AgentEvents(m) : events[i].primary}
  BY DEF Primary, AgentEvents, Seen
<1>3. EndsOf(events, c.pattern) =
        {i \in {j \in AgentEvents(c.pattern[Len(c.pattern)]) : events[j].primary} :
           \E k \in {j \in AgentEvents(c.pattern[1]) : events[j].primary} : k < i}
  BY <1>2 DEF EndsOf
<1> QED BY <1>1, <1>3 DEF Earned, TurnsAt
-----------------------------------------------------------------------------
(* The steps.                                                              *)

\* The inductive invariant.
IInv ==
  /\ Tables(motifs, aliases, events)
  /\ TurnInv /\ EvidenceInv
  /\ BatchesOK(batches, events)
  /\ EarnedInv

LEMMA InitIInv == ASSUME Init PROVE IInv
<1>1. /\ motifs = <<>> /\ aliases = {} /\ events = <<>> /\ batches = {} /\ preferences = <<>>
      /\ choosing = None /\ messages = {} /\ running = None /\ step = "asking"
      /\ place = [t \in Turns |-> FirstPlace(t, Observers)]
  BY DEF Init
<1>2. DOMAIN <<>> = {} /\ <<>> \in Seq(Row) /\ <<>> \in Seq(Event)
  OBVIOUS
<1>3. Tables(motifs, aliases, events)
  BY <1>1, <1>2 DEF Tables, RowsOK, EventsOK
<1>4. TurnInv
  <2>1. \A t \in Turns : FirstPlace(t, Observers) \in Places \cup {Finished}
    BY FirstPlaces
  <2> QED BY <1>1, <2>1 DEF TurnInv
<1>5. EvidenceInv
  BY <1>1, <1>2 DEF EvidenceInv, ReachedInv, AttachInv, EvidenceIsOfTheBeat
<1>6. BatchesOK(batches, events)
  BY <1>1, <1>2 DEF BatchesOK
<1>7. EarnedInv
  BY <1>1, <1>2 DEF EarnedInv
<1> QED BY <1>3, <1>4, <1>5, <1>6, <1>7 DEF IInv

LEMMA TablesEvents == ASSUME Tables(motifs, aliases, events) PROVE EventTypes
BY DEF Tables, EventsOK, EventTypes

\* Nothing is written to the tables of motifs.
LEMMA LibrarySame ==
  ASSUME IInv, UNCHANGED library
  PROVE  /\ Tables(motifs, aliases, events)' /\ BatchesOK(batches, events)'
         /\ UNCHANGED <<preferences, choosing>> => EarnedInv'
<1>1. motifs' = motifs /\ aliases' = aliases /\ events' = events /\ batches' = batches
  BY DEF library
<1>2. Tables(motifs', aliases', events') /\ BatchesOK(batches', events')
  BY <1>1 DEF IInv
<1>3. UNCHANGED <<preferences, choosing>> => EarnedInv'
  BY <1>1 DEF IInv, EarnedInv
<1> QED BY <1>2, <1>3

\* They grow.
LEMMA EarnedGrows ==
  ASSUME EarnedInv, EventTypes, Later(motifs, motifs'), Kept(events, events'),
         UNCHANGED <<preferences, choosing>>
  PROVE  EarnedInv'
<1>1. ASSUME NEW c, Earned(c, motifs, events)
      PROVE  Earned(c, motifs', events')
  BY <1>1, EarnedStays DEF EventTypes
<1> QED BY <1>1 DEF EarnedInv

LEMMA ValidBatchIs ==
  ASSUME NEW observations \in ValidBatches
  PROVE  /\ observations \in Seq(Observations)
         /\ Cardinality({i \in DOMAIN observations : observations[i].primary}) = 1
<1> DEFINE left == MaxObservations - Cardinality({i \in DOMAIN events : IsAgents(events[i])})
           most == Min({BatchSize, left})
<1>1. /\ observations \in UNION {[1..n -> Observations] : n \in 1..most}
      /\ Cardinality({i \in DOMAIN observations : observations[i].primary}) = 1
  BY DEF ValidBatches
<1>2. PICK n \in 1..most : observations \in [1..n -> Observations]
  BY <1>1
<1> QED BY <1>1, <1>2

LEMMA RecordStep ==
  ASSUME IInv, RecordMotifObservations
  PROVE  IInv'
<1> DEFINE t == running
           p == place[t]
<1>0. PICK observations \in ValidBatches :
        LET after == Transaction(p[1], t, p[2], observations) IN
        /\ after.valid
        /\ motifs' = after.motifs /\ aliases' = after.aliases /\ events' = after.events
        /\ batches' = batches \cup {[turn |-> t, place |-> p, results |-> after.results]}
  BY DEF RecordMotifObservations
<1> DEFINE after == Transaction(p[1], t, p[2], observations)
           n == Len(observations)
           new == [turn |-> t, place |-> p, results |-> after.results]
<1>1. /\ running # None /\ step = "asking" /\ Reply(t, p) \notin messages
      /\ ~\E x \in batches : x.turn = t /\ x.place = p
      /\ after.valid
      /\ motifs' = after.motifs /\ aliases' = after.aliases /\ events' = after.events
      /\ batches' = batches \cup {new}
      /\ UNCHANGED <<preferences, choosing, round>>
  BY <1>0 DEF RecordMotifObservations
<1>2. /\ Tables(motifs, aliases, events) /\ TurnInv /\ EvidenceInv
      /\ BatchesOK(batches, events) /\ EarnedInv /\ EventTypes
  BY TablesEvents DEF IInv
<1>3. t \in Turns /\ p \in Places /\ p[1] \in Observers /\ p[2] \in Beats /\ p = <<p[1], p[2]>>
  BY <1>1, <1>2, RunningPlace DEF Places
<1>4. /\ observations \in Seq(Observations)
      /\ Cardinality({i \in DOMAIN observations : observations[i].primary}) = 1
  BY ValidBatchIs
<1>5. Recorded(after, p[1], t, p[2], observations, n)
  <2> HIDE DEF p, t
  <2> QED BY <1>1, <1>2, <1>3, <1>4, TransactionRecorded
<1> HIDE DEF after, p, t
<1>6. /\ Tables(after.motifs, after.aliases, after.events)
      /\ after.results \in Seq(Result) /\ Len(after.results) = n
      /\ Len(after.events) = Len(events) + n
      /\ \A i \in DOMAIN events : after.events[i] = events[i]
      /\ Later(motifs, after.motifs)
  BY <1>5 DEF Recorded
<1>7. ASSUME NEW i \in 1..n
      PROVE  LET e == after.events[Len(events) + i] IN
             /\ e \in AgentEvent /\ AtOf(e) = p /\ e.turn = t /\ e.evidence = <<Prompt(t)>>
             /\ Tells(after.results[i], e)
  BY <1>3, <1>5 DEF Recorded, Entry, AtOf, Tells
<1>8. n \in Nat /\ events \in Seq(Event) /\ after.events \in Seq(Event)
  BY <1>2, <1>4, <1>6 DEF Tables, EventsOK
<1> HIDE DEF n
<1>9. Kept(events, after.events)
  BY <1>6, <1>8 DEF Kept
<1>10. Tables(motifs, aliases, events)'
  BY <1>1, <1>6
<1>11. TurnInv'
  BY <1>1, <1>2 DEF TurnInv, round
<1>12. EvidenceInv'
  <2>1. /\ events' \in Seq(Event) /\ Len(events') = Len(events) + n
        /\ \A i \in DOMAIN events : events'[i] = events[i]
        /\ \A i \in 1..n : LET e == events'[Len(events) + i] IN
             AtOf(e) = place[running] /\ e.turn = running /\ e.evidence = <<Prompt(running)>>
    BY <1>1, <1>6, <1>7, <1>8 DEF p, t
  <2>2. UNCHANGED round /\ Reply(running, place[running]) \notin messages
    BY <1>1 DEF p, t
  <2> QED BY <1>1, <1>2, <1>8, <2>1, <2>2, EvidenceRecord
<1>13. BatchesOK(batches, events)'
  <2>1. new \in BatchRow /\ new.turn = t /\ new.place = p /\ new.results = after.results
    BY <1>3, <1>6 DEF BatchRow
  <2> HIDE DEF new
  <2>2. \A i \in 1..n :
          /\ IsAgents(after.events[Len(events) + i])
          /\ after.events[Len(events) + i].turn = new.turn
          /\ AtOf(after.events[Len(events) + i]) = new.place
          /\ Tells(new.results[i], after.events[Len(events) + i])
    BY <1>7, <2>1, EventKinds
  <2>3. \A i, k \in 1..n : new.results[i].motif = new.results[k].motif => i = k
    BY <1>5, <2>1 DEF Recorded
  <2>4. {i \in 1..n : new.results[i].primary} = {i \in DOMAIN observations : observations[i].primary}
    <3>1. \A i \in 1..n : after.results[i].primary = observations[i].primary
      BY <1>5 DEF Recorded
    <3>2. DOMAIN observations = 1..n
      BY <1>4 DEF n
    <3> QED BY <2>1, <3>1, <3>2
  <2>5. \A x \in batches : ~(x.turn = new.turn /\ x.place = new.place)
    BY <1>1, <2>1
  <2>6. Cardinality({i \in 1..n : new.results[i].primary}) = 1
    BY <1>4, <2>4
  <2>7. BatchesOK(batches \cup {new}, after.events)
    <3>1. /\ events \in Seq(Event) /\ Kept(events, after.events) /\ BatchesOK(batches, events)
          /\ new \in BatchRow /\ n \in Nat /\ Len(new.results) = n
          /\ Len(after.events) = Len(events) + n
      BY <1>2, <1>6, <1>8, <1>9, <2>1
    <3> QED BY ONLY <3>1, <2>2, <2>3, <2>5, <2>6, BatchesGrow
  <2> QED BY <1>1, <2>7
<1>14. EarnedInv'
  BY <1>1, <1>2, <1>6, <1>9, EarnedGrows
<1> QED BY <1>10, <1>11, <1>12, <1>13, <1>14 DEF IInv

\* The row and the event of a status set by the user.
LEMMA StatusTables ==
  ASSUME Tables(motifs, aliases, events), NEW m \in DOMAIN motifs, NEW status \in UserStatuses,
         SetMotifStatus(m, status)
  PROVE  /\ Tables(motifs', aliases, events')
         /\ Kept(events, events') /\ Len(events') = Len(events) + 1
         /\ \A i \in DOMAIN events : events'[i] = events[i]
         /\ events'[Len(events) + 1] \in UserEvent
         /\ Later(motifs, motifs')
<1> DEFINE row == motifs[m]
           told == [row EXCEPT !.status = status]
           e == [motif |-> m, kind |-> "status_changed", observer |-> row.observer,
                 turn |-> None, beat |-> None, primary |-> FALSE, status |-> status,
                 evidence |-> <<>>]
           ms == [motifs EXCEPT ![m] = told]
           es == Append(events, e)
<1>1. motifs' = ms /\ events' = es
  BY DEF SetMotifStatus
<1>2. /\ motifs \in Seq(Row) /\ events \in Seq(Event) /\ RowsOK(motifs, aliases)
      /\ EventsOK(motifs, events)
  BY DEF Tables, RowsOK, EventsOK
<1>3. row \in Row /\ m \in Nat
  BY <1>2
<1>4. /\ told \in Row /\ told.observer = row.observer /\ told.label = row.label
      /\ told.status = status
  BY <1>3, ToldRow
<1>5. e \in UserEvent /\ e.motif = m /\ e.status = status /\ e.observer = row.observer
  BY <1>3 DEF UserEvent, Row
<1>6. e \in Event
  BY <1>5, EventKinds
<1> HIDE DEF e
<1>7. /\ es \in Seq(Event) /\ Len(es) = Len(events) + 1
      /\ DOMAIN events = 1..Len(events) /\ DOMAIN es = 1..(Len(events) + 1)
      /\ Len(events) \in Nat
      /\ \A i \in DOMAIN events : es[i] = events[i]
      /\ es[Len(events) + 1] = e
  BY <1>2, <1>6, Appended
<1> HIDE DEF told
<1>8. /\ ms \in Seq(Row) /\ DOMAIN ms = DOMAIN motifs /\ ms[m] = told
      /\ \A i \in DOMAIN motifs : i # m => ms[i] = motifs[i]
  BY <1>2, <1>4
<1> HIDE DEF ms
<1>9. \A i \in DOMAIN motifs : ms[i].observer = motifs[i].observer /\ ms[i].label = motifs[i].label
  BY <1>4, <1>8
<1>10. RowsOK(ms, aliases)
  <2>1. \A x \in aliases : x.motif \in DOMAIN motifs /\ motifs[x.motif].observer = x.observer
    BY <1>2 DEF RowsOK
  <2>2. \A x \in aliases : ms[x.motif].observer = x.observer
    BY <1>9, <2>1
  <2>3. \A i \in DOMAIN ms :
          [observer |-> ms[i].observer, label |-> ms[i].label, motif |-> i] \in aliases
    BY <1>2, <1>8, <1>9 DEF RowsOK
  <2>4. aliases \subseteq [observer : Observers, label : Labels, motif : DOMAIN ms]
    BY <1>2, <1>8 DEF RowsOK
  <2>5. \A x, y \in aliases : x.observer = y.observer /\ x.label = y.label => x = y
    BY <1>2 DEF RowsOK
  <2> QED BY <1>8, <2>2, <2>3, <2>4, <2>5 DEF RowsOK
<1>11. EventsOK(ms, es)
  <2>1. ASSUME NEW i \in DOMAIN es
        PROVE  es[i].motif \in DOMAIN ms /\ ms[es[i].motif].observer = es[i].observer
    <3>1. CASE i \in DOMAIN events
      <4>1. /\ events[i].motif \in DOMAIN motifs
            /\ motifs[events[i].motif].observer = events[i].observer
        BY <1>2, <3>1 DEF EventsOK
      <4> QED BY <1>7, <1>8, <1>9, <3>1, <4>1
    <3>2. CASE i = Len(events) + 1
      BY <1>4, <1>5, <1>7, <1>8, <3>2
    <3> QED BY <1>7, <3>1, <3>2
  <2> HIDE DEF es
  <2> QED BY <1>7, <2>1 DEF EventsOK
<1>12. ASSUME NEW i \in DOMAIN ms
       PROVE  Chronicle(ms[i], es, i)
  <2>1. Chronicle(motifs[i], events, i) /\ motifs[i] \in Row
    BY <1>2, <1>8 DEF Tables
  <2>2. CASE i = m
    <3>1. Chronicle(told, es, m)
      BY <1>2, <1>3, <1>5, <2>1, <2>2, ChronicleTold DEF told
    <3> QED BY <1>8, <2>2, <3>1
  <2>3. CASE i # m
    <3>1. Chronicle(motifs[i], es, i)
      BY <1>2, <1>5, <1>6, <2>1, <2>3, ChronicleElsewhere
    <3> QED BY <1>8, <2>3, <3>1
  <2> QED BY <2>2, <2>3
<1>13. Tables(ms, aliases, es)
  <2> HIDE DEF es
  <2> QED BY <1>10, <1>11, <1>12 DEF Tables
<1>14. Kept(events, es)
  <2> HIDE DEF es
  <2> QED BY <1>7 DEF Kept
<1>15. Later(motifs, ms)
  <2>1. status # "candidate"
    BY MotifsAssumption
  <2> QED BY <1>4, <1>8, <1>9, <2>1 DEF Later
<1> HIDE DEF es
<1> QED BY <1>1, <1>5, <1>7, <1>13, <1>14, <1>15

LEMMA StatusStep ==
  ASSUME IInv, NEW m \in DOMAIN motifs, NEW status \in UserStatuses, SetMotifStatus(m, status)
  PROVE  IInv'
<1>1. /\ Tables(motifs, aliases, events) /\ TurnInv /\ EvidenceInv
      /\ BatchesOK(batches, events) /\ EarnedInv /\ EventTypes
  BY TablesEvents DEF IInv
<1>2. UNCHANGED <<aliases, batches, preferences, choosing, round>>
  BY DEF SetMotifStatus
<1>3. /\ Tables(motifs', aliases, events')
      /\ Kept(events, events') /\ Len(events') = Len(events) + 1
      /\ \A i \in DOMAIN events : events'[i] = events[i]
      /\ events'[Len(events) + 1] \in UserEvent
      /\ Later(motifs, motifs')
  BY <1>1, StatusTables
<1>4. /\ DOMAIN events = 1..Len(events) /\ DOMAIN events' = 1..(Len(events) + 1)
      /\ Len(events) \in Nat
  BY <1>1, <1>3 DEF EventTypes, Kept
<1>5. \A i \in DOMAIN events' \ DOMAIN events : ~IsAgents(events'[i])
  <2> TAKE i \in DOMAIN events' \ DOMAIN events
  <2>1. i = Len(events) + 1
    BY <1>4
  <2> QED BY <1>3, <2>1, EventKinds
<1>6. TurnInv'
  BY <1>1, <1>2 DEF TurnInv, round
<1>7. BatchesOK(batches, events)'
  <2>1. BatchesOK(batches, events')
    BY <1>1, <1>3, <1>5, BatchesStay DEF EventTypes
  <2> QED BY <1>2, <2>1
<1>8. EarnedInv'
  BY <1>1, <1>2, <1>3, EarnedGrows
<1>9. EvidenceInv'
  <2>1. UNCHANGED <<messages, running, place, step>>
    BY <1>2 DEF round
  <2>2. \A i \in DOMAIN events' : IsAgents(events'[i]) => i \in DOMAIN events /\ events'[i] = events[i]
    BY <1>3, <1>5
  <2>3. \A i \in DOMAIN events' : IsAgents(events'[i]) =>
          /\ Evident(events'[i], messages, place)
          /\ Reached(AtOf(events'[i]), place[events'[i].turn])
    BY <1>1, <2>2, EvidenceAnew DEF EvidenceInv, ReachedInv
  <2>4. EvidenceIsOfTheBeat'
    BY <2>1, <2>3, EvidenceNext
  <2>5. ReachedInv'
    BY <1>1, <2>1, <2>3 DEF EvidenceInv, ReachedInv
  <2>6. AttachInv'
    BY <1>1, <2>1, <2>2 DEF EvidenceInv, AttachInv
  <2> QED BY <2>4, <2>5, <2>6 DEF EvidenceInv
<1>10. Tables(motifs, aliases, events)'
  BY <1>2, <1>3
<1> QED BY <1>6, <1>7, <1>8, <1>9, <1>10 DEF IInv

LEMMA AttachStep ==
  ASSUME IInv, AttachReply
  PROVE  IInv'
<1>1. /\ Tables(motifs, aliases, events) /\ TurnInv /\ EvidenceInv
      /\ BatchesOK(batches, events) /\ EarnedInv /\ EventTypes
  BY TablesEvents DEF IInv
<1>2. /\ step' = "finishing"
      /\ UNCHANGED <<motifs, aliases, batches, preferences, choosing, messages, running, place>>
  BY DEF AttachReply
<1>3. Alike(events, events') /\ events' \in Seq(Event) /\ Len(events') = Len(events)
  BY <1>1, AttachedEvents
<1>4. Kept(events, events') /\ DOMAIN events' = DOMAIN events
  BY <1>1, <1>3 DEF Kept, Alike, EventTypes
<1>5. Tables(motifs, aliases, events')
  <2>1. EventsOK(motifs, events')
    BY <1>1, <1>3 DEF Tables, EventsOK, Alike
  <2>2. \A m \in DOMAIN motifs : Chronicle(motifs[m], events', m)
    BY <1>1, <1>3, ChronicleAlike DEF Tables
  <2> QED BY <1>1, <2>1, <2>2 DEF Tables
<1>6. BatchesOK(batches, events')
  BY <1>1, <1>4, BatchesStay DEF EventTypes
<1>7. TurnInv'
  BY <1>1, <1>2 DEF TurnInv
<1>8. EarnedInv'
  <2>1. Later(motifs, motifs')
    BY <1>2 DEF Later
  <2> QED BY <1>1, <1>2, <1>4, <2>1, EarnedGrows
<1>9. EvidenceInv'
  BY <1>1, EvidenceAttach
<1>10. Tables(motifs, aliases, events)' /\ BatchesOK(batches, events)'
  BY <1>2, <1>5, <1>6
<1> QED BY <1>7, <1>8, <1>9, <1>10 DEF IInv

LEMMA StoreStep ==
  ASSUME IInv, StoreReply
  PROVE  IInv'
<1>1. TurnInv /\ EvidenceInv /\ EventTypes
  BY TablesEvents DEF IInv
<1>2. /\ running # None /\ step' = "attaching"
      /\ messages' = messages \cup {Reply(running, place[running])}
      /\ UNCHANGED <<library, preferences, choosing, running, place>>
  BY DEF StoreReply
<1>3. TurnInv'
  <2>1. running \in Turns /\ place[running] \in Places
    BY <1>1, <1>2, RunningPlace
  <2> QED BY <1>1, <1>2, <2>1 DEF TurnInv
<1>4. EvidenceInv'
  BY <1>1, EvidenceStore
<1> QED BY <1>2, <1>3, <1>4, LibrarySame DEF IInv

LEMMA StartStep ==
  ASSUME IInv, NEW t \in Turns, StartOrResume(t)
  PROVE  IInv'
<1>1. /\ place[t] # Finished /\ running' = t /\ step' = "asking"
      /\ UNCHANGED <<library, preferences, choosing, messages, place>>
  BY DEF StartOrResume
<1>2. TurnInv'
  BY <1>1 DEF IInv, TurnInv
<1>3. EvidenceInv'
  BY <1>1, EvidenceSame DEF IInv, library
<1> QED BY <1>1, <1>2, <1>3, LibrarySame DEF IInv

LEMMA StopStep ==
  ASSUME IInv, Stop
  PROVE  IInv'
<1>1. /\ running' = None /\ step' = "asking"
      /\ UNCHANGED <<library, preferences, choosing, messages, place>>
  BY DEF Stop
<1>2. TurnInv'
  BY <1>1 DEF IInv, TurnInv
<1>3. EvidenceInv'
  BY <1>1, EvidenceSame DEF IInv, library
<1> QED BY <1>1, <1>2, <1>3, LibrarySame DEF IInv

\* The running turn goes on to the next place, or ends.
LEMMA MoveStep ==
  ASSUME IInv, running # None,
         \/ step = "finishing"
         \/ Reply(running, place[running]) \notin messages,
         NEW next \in Places \cup {Finished}, Before(place[running], next),
         place' = [place EXCEPT ![running] = next], step' = "asking",
         running' = IF place'[running] = Finished THEN None ELSE running,
         UNCHANGED <<library, preferences, choosing, messages>>
  PROVE  IInv'
<1>1. TurnInv /\ EvidenceInv /\ EventTypes
  BY TablesEvents DEF IInv
<1>2. running \in Turns /\ place[running] \in Places
  BY <1>1, RunningPlace
<1>3. TurnInv'
  BY <1>1, <1>2 DEF TurnInv
<1>4. EvidenceInv'
  BY <1>1, EvidenceMoves DEF library
<1> QED BY <1>3, <1>4, LibrarySame DEF IInv

LEMMA FinishStep ==
  ASSUME IInv, FinishBeat
  PROVE  IInv'
<1> DEFINE p == place[running]
<1>1. PICK next \in {NextAgent(running, p)} \cup
                    (IF p[2] < MaxBeats THEN {<<p[1], p[2] + 1>>} ELSE {}) :
        place' = [place EXCEPT ![running] = next]
  BY DEF FinishBeat
<1>2. /\ running # None /\ step = "finishing" /\ step' = "asking"
      /\ running' = IF place'[running] = Finished THEN None ELSE running
      /\ UNCHANGED <<library, preferences, choosing, messages>>
  BY DEF FinishBeat
<1>3. running \in Turns /\ p \in Places
  BY <1>2, RunningPlace DEF IInv
<1>4. next \in Places \cup {Finished} /\ Before(p, next)
  <2> HIDE DEF p
  <2>1. NextAgent(running, p) \in Places \cup {Finished} /\ Before(p, NextAgent(running, p))
    BY <1>3, NextPlaces
  <2>2. p[2] < MaxBeats => <<p[1], p[2] + 1>> \in Places /\ Before(p, <<p[1], p[2] + 1>>)
    BY <1>3, NextPlaces
  <2> QED BY <1>1, <2>1, <2>2
<1> QED BY <1>1, <1>2, <1>4, MoveStep

LEMMA FailStep ==
  ASSUME IInv, FailBeat
  PROVE  IInv'
<1> DEFINE p == place[running]
           next == NextAgent(running, p)
<1>1. /\ running # None /\ step = "asking" /\ Reply(running, p) \notin messages
      /\ place' = [place EXCEPT ![running] = next]
      /\ running' = IF place'[running] = Finished THEN None ELSE running
      /\ UNCHANGED <<library, preferences, choosing, messages, step>>
  BY DEF FailBeat
<1>2. running \in Turns /\ p \in Places
  BY <1>1, RunningPlace DEF IInv
<1>3. next \in Places \cup {Finished} /\ Before(p, next)
  BY <1>2, NextPlaces
<1> HIDE DEF next
<1> QED BY <1>1, <1>3, MoveStep

LEMMA ChooseStep ==
  ASSUME IInv, NEW a \in Observers, ChoosePreference(a)
  PROVE  IInv'
<1>1. PICK p \in Patterns(a) :
      /\ choosing' = [observer |-> a, pattern |-> p]
      /\ UNCHANGED <<library, preferences, round>>
  BY DEF ChoosePreference
<1>2. UNCHANGED <<motifs, events, messages, running, place, step>>
  BY <1>1 DEF library, round
<1>3. Earned([observer |-> a, pattern |-> p], motifs, events)
  BY PatternsEarned DEF IInv
<1>4. EarnedInv'
  <2>1. \A c \in DOMAIN preferences' : Earned(c, motifs', events')
    BY <1>1, <1>2 DEF IInv, EarnedInv
  <2>2. Earned(choosing', motifs', events')
    BY <1>1, <1>2, <1>3
  <2> QED BY <2>1, <2>2 DEF EarnedInv
<1>5. TurnInv'
  BY <1>2 DEF IInv, TurnInv
<1>6. EvidenceInv'
  BY <1>2, EvidenceSame DEF IInv
<1> QED BY <1>1, <1>4, <1>5, <1>6, LibrarySame DEF IInv

LEMMA SetStep ==
  ASSUME IInv, NEW preference \in Preferences, SetPreference(preference)
  PROVE  IInv'
<1>1. /\ choosing # None
      /\ preferences' = [k \in DOMAIN preferences \cup {choosing} |->
                           IF k = choosing THEN preference ELSE preferences[k]]
      /\ choosing' = None
      /\ UNCHANGED <<library, round>>
  BY DEF SetPreference
<1>2. UNCHANGED <<motifs, events, messages, running, place, step>>
  BY <1>1 DEF library, round
<1>3. EarnedInv'
  <2>1. DOMAIN preferences' = DOMAIN preferences \cup {choosing}
    BY <1>1
  <2>2. \A c \in DOMAIN preferences' : Earned(c, motifs, events)
    BY <1>1, <2>1 DEF IInv, EarnedInv
  <2> QED BY <1>1, <1>2, <2>2 DEF EarnedInv
<1>4. TurnInv'
  BY <1>2 DEF IInv, TurnInv
<1>5. EvidenceInv'
  BY <1>2, EvidenceSame DEF IInv
<1> QED BY <1>1, <1>3, <1>4, <1>5, LibrarySame DEF IInv

LEMMA StutterStep ==
  ASSUME IInv, UNCHANGED vars
  PROVE  IInv'
<1>1. UNCHANGED <<library, preferences, choosing, messages, running, place, step>>
  BY DEF vars, round
<1>2. TurnInv'
  BY <1>1 DEF IInv, TurnInv
<1>3. EvidenceInv'
  BY <1>1, EvidenceSame DEF IInv, library
<1> QED BY <1>1, <1>2, <1>3, LibrarySame DEF IInv

\* IInv holds in every reachable state.
THEOREM MotifsInductive == Spec => []IInv
<1>1. Init => IInv
  BY InitIInv
<1>2. IInv /\ [Next]_vars => IInv'
  <2> SUFFICES ASSUME IInv, [Next]_vars PROVE IInv'
    OBVIOUS
  <2>1. CASE \E m \in DOMAIN motifs, status \in UserStatuses : SetMotifStatus(m, status)
    BY <2>1, StatusStep
  <2>2. CASE \E a \in Observers : ChoosePreference(a)
    BY <2>2, ChooseStep
  <2>3. CASE \E preference \in Preferences : SetPreference(preference)
    BY <2>3, SetStep
  <2>4. CASE \E t \in Turns : StartOrResume(t)
    BY <2>4, StartStep
  <2>5. CASE RecordMotifObservations
    BY <2>5, RecordStep
  <2>6. CASE StoreReply
    BY <2>6, StoreStep
  <2>7. CASE AttachReply
    BY <2>7, AttachStep
  <2>8. CASE FinishBeat
    BY <2>8, FinishStep
  <2>9. CASE FailBeat
    BY <2>9, FailStep
  <2>10. CASE Stop
    BY <2>10, StopStep
  <2>11. CASE UNCHANGED vars
    BY <2>11, StutterStep
  <2> QED BY <2>1, <2>2, <2>3, <2>4, <2>5, <2>6, <2>7, <2>8, <2>9, <2>10, <2>11
         DEF Next, UserStep, TurnStep
<1> QED BY <1>1, <1>2, PTL DEF Spec

\* The tables keep their types, and a label of an observer means one motif.
THEOREM MotifTypesHold == Spec => []TypeOK
<1>1. IInv => TypeOK
  <2> SUFFICES ASSUME IInv PROVE TypeOK
    OBVIOUS
  <2>1. RowsOK(motifs, aliases) /\ TurnInv
    BY DEF IInv, Tables
  <2>2. DOMAIN preferences \subseteq [observer : Observers, pattern : Seq(DOMAIN motifs)]
    BY DEF IInv, EarnedInv, Earned
  <2>3. motifs \in Seq([observer : Observers, label : Labels, last : Turns,
                        status : UserStatuses \cup {"candidate", "supported"},
                        support : Nat, distinct : Nat])
    BY <2>1 DEF RowsOK, Row, Statuses
  <2> QED BY <2>1, <2>2, <2>3 DEF TypeOK, RowsOK, TurnInv
<1> QED BY <1>1, MotifsInductive, PTL

\* A batch of observations counts once and as a whole, and the support of a
\* motif and its first event are what the table of events says.
THEOREM BatchesStayWhole == Spec => []BatchesAreWhole
<1>1. IInv => BatchesAreWhole
  BY WholeFollows DEF IInv
<1> QED BY <1>1, MotifsInductive, PTL

\* The status of a motif is what the user said last, or else what the turns
\* that saw the motif amount to.
THEOREM UserKeepsTheLastWord == Spec => []UserHasTheLastWord
<1>1. IInv => UserHasTheLastWord
  BY LastWordFollows DEF IInv
<1> QED BY <1>1, MotifsInductive, PTL

\* Observations cite the prompt of their turn, and the reply of their beat as
\* soon as that beat is over, and no other.
THEOREM EvidenceStaysOfTheBeat == Spec => []EvidenceIsOfTheBeat
<1>1. IInv => EvidenceIsOfTheBeat
  BY DEF IInv, EvidenceInv
<1> QED BY <1>1, MotifsInductive, PTL

\* Choices are only about patterns that recurred.
THEOREM PreferencesStayEarned == Spec => []PreferencesAreEarned
<1>1. IInv => PreferencesAreEarned
  BY EarnedFollows DEF IInv
<1> QED BY <1>1, MotifsInductive, PTL
=============================================================================
