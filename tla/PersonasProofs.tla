---------------------------- MODULE PersonasProofs ----------------------------
(***************************************************************************)
(* Proofs about Personas: for any fields, paths, kinds of paths, values,   *)
(* memory events and bounds, the structure of a persona stays as the user  *)
(* saved it, no two active records name the same path, and no version is   *)
(* lost or left out of the log by more than crashes account for.           *)
(*                                                                         *)
(* The three properties say little of an operation under way.  The         *)
(* inductive invariant IInv adds what its next writes rest on: between its *)
(* start and its write the file does not change, so that the version it    *)
(* will write is the next one and, for an agent, the structure it will     *)
(* write is that of the file; nothing is overwritten that is not in the    *)
(* history; a suggestion that is to be saved is not empty, and the policy  *)
(* it is measured by is one that was saved.                                *)
(***************************************************************************)
EXTENDS Personas, SequenceLemmas

Document == [version : Nat, fields : Fieldsets]

Types ==
  /\ persona \in Document /\ opened \in Document
  /\ history \subseteq Document /\ saved \subseteq Document
  /\ users \in Fieldsets
  /\ log \in Seq({"agent", "user"})
  /\ records \in Seq(Record)
  /\ op \in Operation \cup {None}
  /\ updates \in Nat /\ edits \in Nat /\ crashes \in Nat

\* Two sets of fields with the same structure.
Alike(f, g) ==
  \A p \in Paths : Kind[p] \in {"structural", "locked"} => \A x \in Covers[p] : f[x] = g[x]

\* What the next writes of an operation rest on.
Before == At("snapshot") \/ At("write")
WritesNext == Before => op.version = persona.version + 1
WritesStructure == Before /\ op.actor = "agent" => Alike(op.revised, persona.fields)
OverwritesKept == At("write") => persona \in history
Suggests == At("suggest") => op.dormant # <<>>

\* No version is above that of the file.
Newest == opened.version <= persona.version /\ \A c \in history : c.version <= persona.version

Speaks == \A i \in DOMAIN records : records[i].changes # <<>>

\* The policy in force is one that was saved.
WasSaved(fields) == \E s \in saved : s.fields[Policy] = fields[Policy]
PoliciesSaved == WasSaved(persona.fields) /\ (op # None => WasSaved(op.previous))

\* The inductive invariant.
IInv ==
  /\ Types /\ WritesNext /\ WritesStructure /\ OverwritesKept /\ Suggests /\ Newest /\ Speaks
  /\ PoliciesSaved
  /\ StructureIsTheUsers /\ OneRecordForAPath /\ HistoryIsComplete
-----------------------------------------------------------------------------
(* Changes.                                                                *)

LEMMA ChangeSequences ==
  ASSUME NEW n \in Nat, NEW changes \in [1..n -> Change]
  PROVE  changes \in Seq(Change) /\ DOMAIN changes = 1..n
OBVIOUS

\* The greatest of the places that a field is touched at.
LEMMA LastTouch ==
  ASSUME NEW n \in Nat, NEW T \in SUBSET (1..n), T # {}
  PROVE  Max(T) \in T
<1>1. T \in SUBSET Nat /\ \A x \in T : x <= n
  OBVIOUS
<1> QED BY <1>1, BoundedHaveMaxima

LEMMA ApplyType ==
  ASSUME NEW fields \in Fieldsets, NEW changes \in Seq(Change), PersonasAssumption
  PROVE  Apply(fields, changes) \in Fieldsets
<1> DEFINE T(f) == {i \in DOMAIN changes : f \in Covers[changes[i].path]}
<1>1. ASSUME NEW f \in Fields
      PROVE  (IF T(f) = {} THEN fields[f] ELSE changes[Max(T(f))].value) \in Values
  <2>1. fields[f] \in Values
    BY DEF Fieldsets
  <2>2. T(f) \in SUBSET (1..Len(changes)) /\ Len(changes) \in Nat
    OBVIOUS
  <2>3. T(f) # {} => Max(T(f)) \in 1..Len(changes)
    <3> HIDE DEF T
    <3> QED BY <2>2, LastTouch
  <2>4. ASSUME NEW i \in 1..Len(changes) PROVE changes[i].value \in Values
    <3>1. changes[i] \in Change
      OBVIOUS
    <3> QED BY <3>1 DEF Change
  <2> HIDE DEF T
  <2> QED BY <2>1, <2>3, <2>4
<1> QED BY <1>1 DEF Apply, Fieldsets

\* Changes of other kinds leave the structure as it is.
LEMMA ApplyKeeps ==
  ASSUME NEW fields \in Fieldsets, NEW changes \in Seq({c \in Change : Kind[c.path] = "automatic"}),
         PersonasAssumption
  PROVE  Alike(Apply(fields, changes), fields)
<1> SUFFICES ASSUME NEW p \in Paths, Kind[p] \in {"structural", "locked"}, NEW x \in Covers[p]
             PROVE  Apply(fields, changes)[x] = fields[x]
  BY DEF Alike
<1>1. x \in Fields
  BY DEF PersonasAssumption
<1>2. ASSUME NEW i \in DOMAIN changes PROVE x \notin Covers[changes[i].path]
  <2>1. changes[i] \in Change /\ Kind[changes[i].path] = "automatic"
    OBVIOUS
  <2>2. changes[i].path \in Paths
    BY <2>1 DEF Change
  <2> QED BY <2>1, <2>2 DEF PersonasAssumption
<1>3. {i \in DOMAIN changes : x \in Covers[changes[i].path]} = {}
  BY <1>2
<1> QED BY <1>1, <1>3 DEF Apply

\* The chosen changes are of the kind they were chosen for, and there are some
\* if any was chosen.
LEMMA ThoseAre ==
  ASSUME NEW n \in Nat, NEW changes \in [1..n -> Change], NEW places \in SUBSET (1..n),
         NEW C, \A i \in places : changes[i] \in C
  PROVE  /\ Those(changes, places) \in Seq(C)
         /\ places # {} => Those(changes, places) # <<>>
<1> DEFINE s == [i \in DOMAIN changes |-> IF i \in places THEN <<changes[i]>> ELSE <<>>]
<1>1. \A i \in 1..n : (IF i \in places THEN <<changes[i]>> ELSE <<>>) \in Seq(C)
  OBVIOUS
<1>2. s \in [1..n -> Seq(C)]
  BY <1>1
<1>3. s \in Seq(Seq(C)) /\ Len(s) = n
  <2> HIDE DEF s
  <2> QED BY <1>2
<1>4. Those(changes, places) = FlattenSeq(s)
  BY DEF Those
<1>5. ASSUME NEW i \in places PROVE FlattenSeq(s) # <<>>
  <2>1. i \in 1..Len(s) /\ s[i] # <<>>
    BY <1>3
  <2> HIDE DEF s
  <2> QED BY <1>3, <2>1, FlattenNonempty
<1>6. FlattenSeq(s) \in Seq(C)
  <2> HIDE DEF s
  <2> QED BY <1>3, FlattenType
<1> HIDE DEF s
<1> QED BY <1>4, <1>5, <1>6

-----------------------------------------------------------------------------
(* What the actions do to the operation and to the records.                *)

Stages == {"snapshot", "write", "log", "reconcile", "suggest"}

LEMMA StageFields ==
  ASSUME NEW o \in Operation, NEW s \in Stages
  PROVE  LET p == [o EXCEPT !.stage = s] IN
         /\ p \in Operation /\ p.stage = s
         /\ p.actor = o.actor /\ p.previous = o.previous /\ p.revised = o.revised
         /\ p.version = o.version /\ p.dormant = o.dormant /\ p.evidence = o.evidence
BY DEF Operation, Stages

LEMMA StatusFields ==
  ASSUME NEW r \in Record, NEW s \in {"dormant", "incorporated", "superseded"}
  PROVE  LET q == [r EXCEPT !.status = s] IN
         /\ q \in Record /\ q.status = s
         /\ q.changes = r.changes /\ q.evidence = r.evidence /\ q.eligible = r.eligible
         /\ q.required = r.required
BY DEF Record

LEMMA GoToGives ==
  ASSUME Types, op # None, NEW s \in Stages, GoTo(s), PersonasAssumption
  PROVE  /\ op \in Operation /\ op' \in Operation /\ op' # None /\ op'.stage = s
         /\ op'.actor = op.actor /\ op'.revised = op.revised /\ op'.previous = op.previous
         /\ op'.version = op.version /\ op'.dormant = op.dormant
<1>1. op \in Operation /\ op' = [op EXCEPT !.stage = s]
  BY DEF Types, GoTo
<1>2. op' \in Operation /\ op'.stage = s /\ op'.actor = op.actor /\ op'.revised = op.revised
      /\ op'.previous = op.previous /\ op'.version = op.version /\ op'.dormant = op.dormant
  BY <1>1, StageFields
<1> QED BY <1>1, <1>2 DEF PersonasAssumption

\* An agent's update begins with the next version and the structure of the
\* file, and if it commits nothing, it has something to suggest.
LEMMA SubmitGives ==
  ASSUME Types, PersonasAssumption, NEW n \in Nat \ {0}, NEW changes \in [1..n -> Change],
         NEW evidence \in SUBSET Events, SubmitUpdate(changes, evidence)
  PROVE  /\ op' \in Operation /\ op' # None /\ op'.actor = "agent"
         /\ op'.previous = persona.fields
         /\ op'.version = persona.version + 1
         /\ op'.stage \in {"snapshot", "suggest"}
         /\ op'.stage = "suggest" => op'.dormant # <<>>
         /\ Alike(op'.revised, persona.fields)
<1> DEFINE ready == {i \in DOMAIN changes : Automatic(changes[i], evidence)}
           structural == {i \in DOMAIN changes : Kind[changes[i].path] = "structural"}
           rest == DOMAIN changes \ (ready \cup structural)
           auto == Those(changes, ready)
           early == Those(changes, rest)
           shape == Those(changes, structural)
           revised == Apply(persona.fields, auto)
           dormant == shape \o early
           A == {c \in Change : Kind[c.path] = "automatic"}
<1>1. op' = [actor |-> "agent", previous |-> persona.fields, revised |-> revised,
             version |-> persona.version + 1, dormant |-> dormant, evidence |-> evidence,
             stage |-> IF auto = <<>> THEN "suggest" ELSE "snapshot"]
  BY DEF SubmitUpdate
<1>2. persona.fields \in Fieldsets /\ persona.version \in Nat
  BY DEF Types, Document
<1>3. DOMAIN changes = 1..n /\ \A i \in 1..n : changes[i] \in Change
  OBVIOUS
<1>4. ready \in SUBSET (1..n) /\ structural \in SUBSET (1..n) /\ rest \in SUBSET (1..n)
  BY <1>3
<1>5. \A i \in ready : changes[i] \in A
  BY <1>3 DEF Automatic
<1>6. auto \in Seq(A) /\ (ready # {} => auto # <<>>)
  <2> HIDE DEF A, ready
  <2> QED BY <1>4, <1>5, ThoseAre
<1>7. shape \in Seq(Change) /\ (structural # {} => shape # <<>>)
  <2>1. \A i \in structural : changes[i] \in Change
    BY <1>3
  <2> HIDE DEF structural
  <2> QED BY <1>4, <2>1, ThoseAre
<1>8. early \in Seq(Change) /\ (rest # {} => early # <<>>)
  <2>1. \A i \in rest : changes[i] \in Change
    BY <1>3
  <2> HIDE DEF rest
  <2> QED BY <1>4, <2>1, ThoseAre
<1>9. dormant \in Seq(Change) /\ (shape # <<>> \/ early # <<>> => dormant # <<>>)
  <2> HIDE DEF shape, early
  <2> QED BY <1>7, <1>8
<1>10. auto = <<>> => dormant # <<>>
  <2>1. 1 \in DOMAIN changes
    BY <1>3
  <2>2. ready # {} \/ structural # {} \/ rest # {}
    BY <2>1
  <2> HIDE DEF ready, structural, rest, auto, shape, early, dormant
  <2> QED BY <1>6, <1>7, <1>8, <1>9, <2>2
<1>11. auto \in Seq(Change)
  <2> HIDE DEF auto
  <2> QED BY <1>6
<1>12. revised \in Fieldsets
  <2> HIDE DEF auto
  <2> QED BY <1>2, <1>11, ApplyType
<1>13. Alike(revised, persona.fields)
  <2> HIDE DEF auto
  <2> QED BY <1>2, <1>6, ApplyKeeps
<1> HIDE DEF auto, dormant, revised
<1>14. op' \in Operation
  BY <1>1, <1>2, <1>9, <1>12 DEF Operation
<1> QED BY <1>1, <1>10, <1>13, <1>14 DEF PersonasAssumption

\* The user's save begins with the next version, too: the editor's is not
\* above that of the file.
LEMMA EditGives ==
  ASSUME Types, Newest, PersonasAssumption, NEW c \in Change, SaveUserEdit(c)
  PROVE  /\ op' \in Operation /\ op' # None /\ op'.actor = "user"
         /\ op'.previous = persona.fields
         /\ op'.version = persona.version + 1 /\ op'.stage = "snapshot"
<1> DEFINE fields == Apply(opened.fields, <<c>>)
<1>1. persona.fields \in Fieldsets /\ persona.version \in Nat
      /\ opened.fields \in Fieldsets /\ opened.version \in Nat
  BY DEF Types, Document
<1>2. ~(opened.version > persona.version)
  BY <1>1 DEF Newest
<1>3. StartEdit(fields, persona.version + 1)
  BY <1>2 DEF SaveUserEdit
<1>4. fields \in Fieldsets
  <2>1. <<c>> \in Seq(Change)
    OBVIOUS
  <2> QED BY <1>1, <2>1, ApplyType
<1> HIDE DEF fields
<1>5. op' = [actor |-> "user", previous |-> persona.fields, revised |-> fields,
             version |-> persona.version + 1, dormant |-> <<>>, evidence |-> {},
             stage |-> "snapshot"]
  BY <1>3 DEF StartEdit
<1>6. op' \in Operation
  <2>1. <<>> \in Seq(Change) /\ {} \in SUBSET Events
    OBVIOUS
  <2> QED BY <1>1, <1>4, <1>5, <2>1 DEF Operation
<1> QED BY <1>5, <1>6 DEF PersonasAssumption

\* A record whose status changes says no more than it did.
Fainter(i, s) == records' = [records EXCEPT ![i].status = s]

LEMMA FainterGives ==
  ASSUME Types, NEW i, NEW s \in {"incorporated", "superseded"}, Fainter(i, s)
  PROVE  /\ records' \in Seq(Record) /\ DOMAIN records' = DOMAIN records
         /\ \A k \in DOMAIN records :
              /\ records'[k].changes = records[k].changes
              /\ records'[k].evidence = records[k].evidence
              /\ records'[k].eligible = records[k].eligible
              /\ records'[k].required = records[k].required
              /\ Active(records'[k]) => Active(records[k])
<1>1. records \in Seq(Record)
  BY DEF Types
<1>2. records' = [k \in DOMAIN records |-> IF k = i THEN [records[k] EXCEPT !.status = s]
                                                   ELSE records[k]]
  BY DEF Fainter
<1>3. ASSUME NEW k \in DOMAIN records
      PROVE  /\ records'[k] \in Record
             /\ records'[k].changes = records[k].changes
             /\ records'[k].evidence = records[k].evidence
             /\ records'[k].eligible = records[k].eligible
             /\ records'[k].required = records[k].required
             /\ Active(records'[k]) => Active(records[k])
  <2>1. records[k] \in Record
    BY <1>1
  <2>2. CASE k = i
    <3>1. records'[k] = [records[k] EXCEPT !.status = s]
      BY <1>2, <2>2
    <3>2. records'[k] \in Record /\ records'[k].status = s
          /\ records'[k].changes = records[k].changes
          /\ records'[k].evidence = records[k].evidence
          /\ records'[k].eligible = records[k].eligible
          /\ records'[k].required = records[k].required
      <4>1. s \in {"dormant", "incorporated", "superseded"}
        OBVIOUS
      <4>2. LET q == [records[k] EXCEPT !.status = s] IN
              /\ q \in Record /\ q.status = s
              /\ q.changes = records[k].changes /\ q.evidence = records[k].evidence
              /\ q.eligible = records[k].eligible /\ q.required = records[k].required
        BY <2>1, <4>1, StatusFields
      <4> QED BY <3>1, <4>2
    <3> QED BY <3>2 DEF Active
  <2>3. CASE k # i
    <3>1. records'[k] = records[k]
      BY <1>2, <2>3
    <3> QED BY <2>1, <3>1
  <2> QED BY <2>2, <2>3
<1>4. DOMAIN records' = DOMAIN records
  BY <1>2
<1>5. records' \in Seq(Record)
  <2>1. DOMAIN records = 1..Len(records) /\ Len(records) \in Nat
    BY <1>1
  <2>2. records' \in [1..Len(records) -> Record]
    BY <1>2, <1>3, <2>1
  <2> QED BY <2>1, <2>2
<1> QED BY <1>3, <1>4, <1>5

\* Reconciling settles a record, or is over.
LEMMA ReconcileGives ==
  ASSUME Types, PersonasAssumption, Reconcile
  PROVE  /\ op \in Operation /\ op # None /\ op.stage = "reconcile"
         /\ \/ op' = op /\ \E i : \E s \in {"incorporated", "superseded"} : Fainter(i, s)
            \/ op' = None /\ records' = records
            \/ /\ records' = records /\ op.dormant # <<>>
               /\ op' \in Operation /\ op' # None /\ op'.stage = "suggest"
               /\ op'.dormant = op.dormant
<1> DEFINE settled == {i \in DOMAIN records :
                         Active(records[i]) /\ (Incorporated(records[i]) \/ Touched(records[i]))}
<1>1. op # None /\ op \in Operation /\ op.stage = "reconcile"
  BY DEF Reconcile, At, Types
<1>2. CASE settled = {} /\ op.dormant = <<>>
  BY <1>1, <1>2 DEF Reconcile
<1>3. CASE settled = {} /\ op.dormant # <<>>
  <2>1. records' = records /\ op' = [op EXCEPT !.stage = "suggest"]
    BY <1>3 DEF Reconcile
  <2>2. GoTo("suggest") /\ "suggest" \in Stages
    BY <2>1 DEF GoTo, Stages
  <2>3. op' \in Operation /\ op' # None /\ op'.stage = "suggest" /\ op'.dormant = op.dormant
    BY <1>1, <2>2, GoToGives
  <2> QED BY <1>1, <1>3, <2>1, <2>3
<1>4. CASE settled # {}
  <2>1. op' = op /\ records' = [records EXCEPT ![Min(settled)].status =
                      IF Incorporated(records[Min(settled)]) THEN "incorporated" ELSE "superseded"]
    BY <1>4 DEF Reconcile
  <2> HIDE DEF settled
  <2>2. \E s \in {"incorporated", "superseded"} : Fainter(Min(settled), s)
    <3>1. CASE Incorporated(records[Min(settled)])
      BY <2>1, <3>1 DEF Fainter
    <3>2. CASE ~Incorporated(records[Min(settled)])
      BY <2>1, <3>2 DEF Fainter
    <3> QED BY <3>1, <3>2
  <2> QED BY <1>1, <2>1, <2>2
<1> QED BY <1>2, <1>3, <1>4

LEMMA SupersedeGives ==
  ASSUME Supersede
  PROVE  op' = op /\ op # None /\ op.stage = "suggest" /\ \E i : Fainter(i, "superseded")
BY DEF Supersede, At, Fainter

\* The record that a suggestion is saved in.
Candidate(evidence) ==
  [changes |-> op.dormant, evidence |-> evidence, status |-> "dormant",
   required |-> MostRequired(op.previous, op.dormant),
   eligible |-> Cardinality(evidence) >= MostRequired(op.previous, op.dormant)]

Saves(evidence) ==
  \/ records' = Append(records, Candidate(evidence))
     /\ \A i \in DOMAIN records : Active(records[i]) => records[i].changes # op.dormant
  \/ \E k \in DOMAIN records : /\ Active(records[k]) /\ records[k].changes = op.dormant
                               /\ records' = [records EXCEPT ![k] = Candidate(evidence)]

LEMMA CandidateGives ==
  ASSUME Types, PersonasAssumption, SaveCandidate
  PROVE  /\ op \in Operation /\ op # None /\ op.stage = "suggest" /\ op' = None
         /\ \A i \in DOMAIN records : ~Conflicting(records[i])
         /\ \E evidence \in SUBSET Events : Saves(evidence)
<1> DEFINE same == {i \in DOMAIN records : Active(records[i]) /\ records[i].changes = op.dormant}
           evidence == op.evidence \cup UNION {records[i].evidence : i \in same}
<1>1. op \in Operation /\ op # None /\ op.stage = "suggest" /\ op' = None
      /\ \A i \in DOMAIN records : ~Conflicting(records[i])
  BY DEF SaveCandidate, At, Types
<1>2. evidence \in SUBSET Events
  <2>1. op.evidence \in SUBSET Events
    BY <1>1 DEF Operation
  <2>2. ASSUME NEW i \in DOMAIN records PROVE records[i].evidence \in SUBSET Events
    <3>1. records[i] \in Record
      BY DEF Types
    <3> QED BY <3>1 DEF Record
  <2> QED BY <2>1, <2>2
<1>3. records' = IF same = {} THEN Append(records, Candidate(evidence))
                 ELSE [records EXCEPT ![Max(same)] = Candidate(evidence)]
  BY DEF SaveCandidate, Candidate
<1>4. same # {} => Max(same) \in same
  <2>1. same \in SUBSET (1..Len(records)) /\ Len(records) \in Nat
    BY DEF Types
  <2> HIDE DEF same
  <2> QED BY <2>1, LastTouch
<1>5. Saves(evidence)
  <2>1. CASE same = {}
    <3>1. records' = Append(records, Candidate(evidence))
      <4> HIDE DEF same, evidence
      <4> QED BY <1>3, <2>1
    <3>2. \A i \in DOMAIN records : Active(records[i]) => records[i].changes # op.dormant
      BY <2>1
    <3> HIDE DEF same, evidence
    <3> QED BY <3>1, <3>2 DEF Saves
  <2>2. CASE same # {}
    <3>1. Max(same) \in DOMAIN records /\ Active(records[Max(same)])
          /\ records[Max(same)].changes = op.dormant
      BY <1>4, <2>2
    <3>2. records' = [records EXCEPT ![Max(same)] = Candidate(evidence)]
      <4> HIDE DEF same, evidence
      <4> QED BY <1>3, <2>2
    <3> HIDE DEF same, evidence
    <3> QED BY <3>1, <3>2 DEF Saves
  <2> QED BY <2>1, <2>2
<1> HIDE DEF same, evidence
<1> QED BY <1>1, <1>2, <1>5

\* It is eligible exactly if there is as much evidence as the policy asks.
LEMMA CandidateIs ==
  ASSUME PersonasAssumption, op \in Operation, op.dormant # <<>>, NEW evidence \in SUBSET Events
  PROVE  /\ Candidate(evidence) \in Record /\ Active(Candidate(evidence))
         /\ Candidate(evidence).changes = op.dormant
         /\ Candidate(evidence).evidence = evidence
         /\ Candidate(evidence).required = MostRequired(op.previous, op.dormant)
         /\ Candidate(evidence).eligible <=>
              Cardinality(evidence) >= MostRequired(op.previous, op.dormant)
<1> DEFINE dormant == op.dormant
           need(c) == RequiredEvidence(op.previous, c.path)
           needs == {need(c) : c \in Range(dormant)}
           size == Cardinality(evidence)
           most == MostRequired(op.previous, dormant)
<1>1. dormant \in Seq(Change) /\ dormant # <<>> /\ op.previous[Policy] \in Values
  BY DEF Operation, Fieldsets, PersonasAssumption
<1>2. size \in Nat
  BY FS_Subset, FS_CardinalityType DEF PersonasAssumption
<1>3. \A c \in Range(dormant) : need(c) \in Nat
  <2>1. \A c \in Range(dormant) : c \in Change
    BY <1>1 DEF Range
  <2>2. ASSUME NEW c \in Change PROVE need(c) \in Nat
    <3>1. c.path \in Paths
      BY DEF Change
    <3>2. Required[c.path] \in [Values -> Nat \ {0}]
      BY <3>1 DEF PersonasAssumption
    <3> HIDE DEF dormant
    <3> QED BY <1>1, <3>2 DEF RequiredEvidence
  <2> HIDE DEF dormant, need
  <2> QED BY <2>1, <2>2
<1> HIDE DEF need
<1>4. \E b \in Nat : \A x \in needs : x <= b
  <2> DEFINE g == [i \in 1..Len(dormant) |-> need(dormant[i])]
  <2>1. Len(dormant) \in Nat /\ DOMAIN dormant = 1..Len(dormant)
    BY <1>1
  <2>2. \A i \in 1..Len(dormant) : dormant[i] \in Range(dormant)
    BY <2>1 DEF Range
  <2>3. g \in [1..Len(dormant) -> Nat]
    BY <1>3, <2>2
  <2>4. PICK b \in Nat : \A i \in 1..Len(dormant) : g[i] <= b
    <3> HIDE DEF g, dormant
    <3> QED BY <2>1, <2>3, SequencesAreBounded
  <2>5. ASSUME NEW c \in Range(dormant) PROVE need(c) <= b
    <3>1. PICK i \in 1..Len(dormant) : c = dormant[i]
      BY <2>1 DEF Range
    <3> QED BY <2>4, <3>1
  <2>6. ASSUME NEW x \in needs PROVE x <= b
    <3>1. PICK c \in Range(dormant) : x = need(c)
      BY Zenon
    <3> HIDE DEF needs, dormant
    <3> QED BY <2>5, <3>1
  <2> HIDE DEF needs, dormant
  <2> QED BY <2>4, <2>6
<1>5. needs \in SUBSET Nat /\ needs # {}
  <2>1. dormant[1] \in Range(dormant)
    BY <1>1 DEF Range
  <2> QED BY <1>3, <2>1
<1>6. Max(needs) \in needs
  <2> HIDE DEF needs
  <2> QED BY <1>4, <1>5, BoundedHaveMaxima
<1>7. most = Max(needs)
  BY DEF MostRequired, need
<1>8. most \in Nat
  <2> HIDE DEF needs, most
  <2> QED BY <1>5, <1>6, <1>7
<1> DEFINE eligible == size >= most
<1>9. Candidate(evidence) = [changes |-> dormant, evidence |-> evidence, status |-> "dormant",
                             required |-> most, eligible |-> eligible]
  BY DEF Candidate
<1>10. eligible \in BOOLEAN
  <2> HIDE DEF size, most
  <2> QED BY <1>2, <1>8
<1> HIDE DEF eligible, dormant, most
<1>11. /\ Candidate(evidence) \in Record /\ Candidate(evidence).status = "dormant"
       /\ Candidate(evidence).changes = dormant /\ Candidate(evidence).evidence = evidence
       /\ Candidate(evidence).required = most /\ Candidate(evidence).eligible = eligible
  BY <1>1, <1>8, <1>9, <1>10 DEF Record
<1> QED BY <1>11 DEF Active, dormant, eligible, most

\* Saving it changes one record, which was the active one of the same changes,
\* or is new.
LEMMA SavesGives ==
  ASSUME Types, PersonasAssumption, op \in Operation, op.dormant # <<>>,
         NEW evidence \in SUBSET Events, Saves(evidence)
  PROVE  /\ records' \in Seq(Record)
         /\ \E k \in DOMAIN records' :
              /\ records'[k] = Candidate(evidence)
              /\ \A i \in DOMAIN records' \ {k} : i \in DOMAIN records /\ records'[i] = records[i]
              /\ \/ k \in DOMAIN records /\ Active(records[k]) /\ records[k].changes = op.dormant
                 \/ \A i \in DOMAIN records : Active(records[i]) => records[i].changes # op.dormant
<1> DEFINE c == Candidate(evidence)
<1>1. c \in Record
  BY CandidateIs
<1>2. records \in Seq(Record)
  BY DEF Types
<1>3. CASE /\ records' = Append(records, c)
           /\ \A i \in DOMAIN records : Active(records[i]) => records[i].changes # op.dormant
  <2> HIDE DEF c
  <2>1. /\ records' \in Seq(Record) /\ Len(records') = Len(records) + 1
        /\ records'[Len(records) + 1] = c
        /\ \A i \in 1..Len(records) : records'[i] = records[i]
    BY <1>1, <1>2, <1>3, AppendProperties
  <2>2. DOMAIN records' = 1..(Len(records) + 1) /\ DOMAIN records = 1..Len(records)
        /\ Len(records) \in Nat
    BY <1>2, <2>1
  <2>3. Len(records) + 1 \in DOMAIN records'
        /\ \A i \in DOMAIN records' \ {Len(records) + 1} : i \in 1..Len(records)
    BY <2>2
  <2> QED BY <1>3, <2>1, <2>2, <2>3 DEF c
<1>4. ASSUME NEW k \in DOMAIN records, Active(records[k]), records[k].changes = op.dormant,
             records' = [records EXCEPT ![k] = c]
      PROVE  /\ records' \in Seq(Record) /\ DOMAIN records' = DOMAIN records
             /\ records'[k] = c /\ \A i \in DOMAIN records \ {k} : records'[i] = records[i]
  <2> HIDE DEF c
  <2> QED BY <1>1, <1>2, <1>4
<1>5. CASE \E k \in DOMAIN records : /\ Active(records[k]) /\ records[k].changes = op.dormant
                                     /\ records' = [records EXCEPT ![k] = c]
  <2>1. PICK k \in DOMAIN records : /\ Active(records[k]) /\ records[k].changes = op.dormant
                                    /\ records' = [records EXCEPT ![k] = c]
    BY <1>5
  <2>2. /\ records' \in Seq(Record) /\ DOMAIN records' = DOMAIN records
        /\ records'[k] = c /\ \A i \in DOMAIN records \ {k} : records'[i] = records[i]
    BY <1>4, <2>1
  <2> QED BY <2>1, <2>2
<1> QED BY <1>3, <1>5 DEF Saves

-----------------------------------------------------------------------------
(* Types.                                                                  *)

LEMMA TypesNext ==
  ASSUME PersonasAssumption, Types, Newest, Suggests, [Next]_vars
  PROVE  Types'
<1>1. CASE UpdateStep
  <2>0. PICK n \in 1..MaxChanges : \E changes \in [1..n -> Change] :
               \E evidence \in SUBSET Events \ {{}} : SubmitUpdate(changes, evidence)
    BY <1>1 DEF UpdateStep
  <2>1. PICK changes \in [1..n -> Change], evidence \in SUBSET Events \ {{}} :
               SubmitUpdate(changes, evidence)
    BY <2>0
  <2>2. n \in Nat \ {0} /\ evidence \in SUBSET Events
    BY DEF PersonasAssumption
  <2>3. op' \in Operation
    BY <2>1, <2>2, SubmitGives
  <2>4. updates' = updates + 1
        /\ UNCHANGED <<persona, history, log, records, opened, saved, users, edits, crashes>>
    BY <2>1 DEF SubmitUpdate
  <2> QED BY <2>3, <2>4 DEF Types
<1>2. CASE OpenEditor
  BY <1>2 DEF OpenEditor, Types, counts
<1>3. ASSUME NEW c \in Change, SaveUserEdit(c) PROVE Types'
  <2>1. op' \in Operation
    BY <1>3, EditGives
  <2>2. edits' = edits + 1
        /\ UNCHANGED <<persona, history, log, records, opened, saved, users, updates, crashes>>
    BY <1>3 DEF SaveUserEdit, StartEdit
  <2> QED BY <2>1, <2>2 DEF Types
<1>4. CASE Snapshot
  <2>1. op # None /\ GoTo("write") /\ "write" \in Stages
    BY <1>4 DEF Snapshot, At, Stages
  <2>2. op' \in Operation
    BY <2>1, GoToGives
  <2>3. history' = history \cup {persona}
        /\ UNCHANGED <<persona, log, records, opened, saved, users, counts>>
    BY <1>4 DEF Snapshot
  <2> QED BY <2>2, <2>3 DEF Types, counts
<1>5. CASE WritePersona
  <2>1. op # None /\ op \in Operation /\ GoTo("log") /\ "log" \in Stages
    BY <1>5 DEF WritePersona, At, Stages, Types
  <2>2. op' \in Operation
    BY <2>1, GoToGives
  <2>3. op.version \in Nat /\ op.revised \in Fieldsets
    BY <2>1 DEF Operation
  <2>4. persona' = [version |-> op.version, fields |-> op.revised]
        /\ saved' = saved \cup {persona'}
        /\ users' = (IF op.actor = "user" THEN op.revised ELSE users)
        /\ UNCHANGED <<history, log, records, opened, counts>>
    BY <1>5 DEF WritePersona
  <2>5. persona' \in Document
    BY <2>3, <2>4 DEF Document
  <2>6. users' \in Fieldsets
    BY <2>3, <2>4 DEF Types
  <2> QED BY <2>2, <2>4, <2>5, <2>6 DEF Types, counts
<1>6. CASE AppendLog
  <2>1. op # None /\ op \in Operation /\ GoTo("reconcile") /\ "reconcile" \in Stages
    BY <1>6 DEF AppendLog, At, Stages, Types
  <2>2. op' \in Operation
    BY <2>1, GoToGives
  <2>3. op.actor \in {"agent", "user"}
    BY <2>1 DEF Operation
  <2>4. log' = Append(log, op.actor)
        /\ UNCHANGED <<persona, history, records, opened, saved, users, counts>>
    BY <1>6 DEF AppendLog
  <2>5. log' \in Seq({"agent", "user"})
    BY <2>3, <2>4 DEF Types
  <2> QED BY <2>2, <2>4, <2>5 DEF Types, counts
<1>7. CASE Reconcile
  <2>1. op' \in Operation \cup {None}
    BY <1>7, ReconcileGives
  <2>2. records' \in Seq(Record)
    <3>1. records' = records \/ \E i : \E s \in {"incorporated", "superseded"} : Fainter(i, s)
      BY <1>7, ReconcileGives
    <3> QED BY <3>1, FainterGives DEF Types
  <2>3. UNCHANGED <<persona, history, log, opened, saved, users, counts>>
    BY <1>7 DEF Reconcile
  <2> QED BY <2>1, <2>2, <2>3 DEF Types, counts
<1>8. CASE Supersede
  <2>1. op' = op
    BY <1>8, SupersedeGives
  <2>2. records' \in Seq(Record)
    BY <1>8, SupersedeGives, FainterGives
  <2>3. UNCHANGED <<persona, history, log, opened, saved, users, counts>>
    BY <1>8 DEF Supersede
  <2> QED BY <2>1, <2>2, <2>3 DEF Types, counts
<1>9. CASE SaveCandidate
  <2>1. op' = None
    BY <1>9, CandidateGives
  <2>2. records' \in Seq(Record)
    <3>1. op \in Operation /\ op.dormant # <<>>
      BY <1>9, CandidateGives DEF Suggests, At
    <3>2. PICK evidence \in SUBSET Events : Saves(evidence)
      BY <1>9, CandidateGives
    <3> QED BY <3>1, <3>2, SavesGives
  <2>3. UNCHANGED <<persona, history, log, opened, saved, users, counts>>
    BY <1>9 DEF SaveCandidate
  <2> QED BY <2>1, <2>2, <2>3 DEF Types, counts
<1>10. CASE ClearProjectPosition
  <2>1. persona' = [persona EXCEPT !.fields[Position] = NoPosition]
        /\ UNCHANGED <<history, log, records, opened, op, saved, users, counts>>
    BY <1>10 DEF ClearProjectPosition
  <2>2. persona' \in Document
    BY <2>1 DEF Types, Document, Fieldsets, PersonasAssumption
  <2> QED BY <2>1, <2>2 DEF Types, counts
<1>11. CASE Crash
  <2>1. op' = None /\ crashes' = crashes + 1
        /\ UNCHANGED <<persona, history, log, records, opened, saved, users, updates, edits>>
    BY <1>11 DEF Crash
  <2> QED BY <2>1 DEF Types
<1>12. CASE UNCHANGED vars
  BY <1>12 DEF vars, counts, Types
<1> QED
  BY <1>1, <1>2, <1>3, <1>4, <1>5, <1>6, <1>7, <1>8, <1>9, <1>10, <1>11, <1>12 DEF Next

-----------------------------------------------------------------------------
(* The operation under way.                                                *)

LEMMA OperationNext ==
  ASSUME PersonasAssumption, Types, WritesNext, WritesStructure, OverwritesKept, Suggests, Newest,
         [Next]_vars
  PROVE  WritesNext' /\ WritesStructure' /\ OverwritesKept' /\ Suggests'
<1> USE DEF WritesNext, WritesStructure, OverwritesKept, Suggests, Before, At
<1>1. CASE UpdateStep
  <2>0. PICK n \in 1..MaxChanges : \E changes \in [1..n -> Change] :
               \E evidence \in SUBSET Events \ {{}} : SubmitUpdate(changes, evidence)
    BY <1>1 DEF UpdateStep
  <2>1. PICK changes \in [1..n -> Change], evidence \in SUBSET Events \ {{}} :
               SubmitUpdate(changes, evidence)
    BY <2>0
  <2>2. n \in Nat \ {0} /\ evidence \in SUBSET Events
    BY DEF PersonasAssumption
  <2>3. /\ op'.version = persona.version + 1
        /\ op'.stage \in {"snapshot", "suggest"}
        /\ op'.stage = "suggest" => op'.dormant # <<>>
        /\ Alike(op'.revised, persona.fields)
    BY <2>1, <2>2, SubmitGives
  <2>4. persona' = persona
    BY <2>1 DEF SubmitUpdate
  <2> QED BY <2>3, <2>4 DEF Alike
<1>2. CASE OpenEditor
  <2>1. op' = op /\ persona' = persona /\ history' = history
    BY <1>2 DEF OpenEditor
  <2> QED BY <2>1 DEF Alike
<1>3. ASSUME NEW c \in Change, SaveUserEdit(c)
      PROVE  WritesNext' /\ WritesStructure' /\ OverwritesKept' /\ Suggests'
  <2>1. op'.actor = "user" /\ op'.version = persona.version + 1 /\ op'.stage = "snapshot"
    BY <1>3, EditGives
  <2>2. persona' = persona
    BY <1>3 DEF SaveUserEdit, StartEdit
  <2> QED BY <2>1, <2>2
<1>4. CASE Snapshot
  <2>1. op # None /\ op.stage = "snapshot" /\ GoTo("write") /\ "write" \in Stages
    BY <1>4 DEF Snapshot, Stages
  <2>2. op'.stage = "write" /\ op'.version = op.version /\ op'.actor = op.actor
        /\ op'.revised = op.revised
    BY <2>1, GoToGives
  <2>3. persona' = persona /\ history' = history \cup {persona}
    BY <1>4 DEF Snapshot
  <2> QED BY <2>1, <2>2, <2>3 DEF Alike
<1>5. CASE WritePersona
  <2>1. op # None /\ GoTo("log") /\ "log" \in Stages
    BY <1>5 DEF WritePersona, Stages
  <2>2. op'.stage = "log"
    BY <2>1, GoToGives
  <2> QED BY <2>2
<1>6. CASE AppendLog
  <2>1. op # None /\ GoTo("reconcile") /\ "reconcile" \in Stages
    BY <1>6 DEF AppendLog, Stages
  <2>2. op'.stage = "reconcile"
    BY <2>1, GoToGives
  <2> QED BY <2>2
<1>7. CASE Reconcile
  <2>1. op.stage = "reconcile"
    BY <1>7, ReconcileGives
  <2>2. op' = op \/ op' = None
        \/ (op'.stage = "suggest" /\ op.dormant # <<>> /\ op'.dormant = op.dormant)
    BY <1>7, ReconcileGives
  <2> QED BY <2>1, <2>2
<1>8. CASE Supersede
  <2>1. op' = op /\ op.stage = "suggest"
    BY <1>8, SupersedeGives
  <2> QED BY <2>1
<1>9. CASE SaveCandidate
  <2>1. op' = None
    BY <1>9, CandidateGives
  <2> QED BY <2>1
<1>10. CASE ClearProjectPosition
  <2>1. op = None /\ op' = op
    BY <1>10 DEF ClearProjectPosition
  <2> QED BY <2>1
<1>11. CASE Crash
  <2>1. op' = None
    BY <1>11 DEF Crash
  <2> QED BY <2>1
<1>12. CASE UNCHANGED vars
  <2>1. op' = op /\ persona' = persona /\ history' = history
    BY <1>12 DEF vars
  <2> QED BY <2>1 DEF Alike
<1> QED
  BY <1>1, <1>2, <1>3, <1>4, <1>5, <1>6, <1>7, <1>8, <1>9, <1>10, <1>11, <1>12 DEF Next

-----------------------------------------------------------------------------
(* The structure.                                                          *)

LEMMA StructureNext ==
  ASSUME PersonasAssumption, Types, WritesStructure, StructureIsTheUsers, [Next]_vars
  PROVE  StructureIsTheUsers'
<1>0. Alike(persona.fields, users)
  BY DEF StructureIsTheUsers, Alike
<1>1. CASE WritePersona
  <2>1. op # None /\ op.stage = "write" /\ op \in Operation
    BY <1>1 DEF WritePersona, At, Types
  <2>2. persona' = [version |-> op.version, fields |-> op.revised]
        /\ users' = (IF op.actor = "user" THEN op.revised ELSE users)
    BY <1>1 DEF WritePersona
  <2>3. op.actor = "user" \/ op.actor = "agent"
    BY <2>1 DEF Operation
  <2>4. op.actor = "agent" => Alike(op.revised, persona.fields)
    BY <2>1 DEF WritesStructure, Before, At
  <2>5. persona'.fields = op.revised
    BY <2>2
  <2>6. CASE op.actor = "user"
    BY <2>2, <2>5, <2>6 DEF StructureIsTheUsers
  <2>7. CASE op.actor = "agent"
    <3>1. Alike(op.revised, persona.fields) /\ users' = users
      BY <2>2, <2>4, <2>7
    <3> QED BY <1>0, <2>5, <3>1 DEF StructureIsTheUsers, Alike
  <2> QED BY <2>3, <2>6, <2>7
<1>2. CASE ClearProjectPosition
  <2>1. persona' = [persona EXCEPT !.fields[Position] = NoPosition] /\ users' = users
    BY <1>2 DEF ClearProjectPosition
  <2>2. \A f \in Fields \ {Position} : persona'.fields[f] = persona.fields[f]
    BY <2>1 DEF Types, Document, Fieldsets
  <2>3. ASSUME NEW p \in Paths, Kind[p] \in {"structural", "locked"}, NEW x \in Covers[p]
        PROVE  x \in Fields \ {Position}
    BY <2>3 DEF PersonasAssumption
  <2> QED BY <2>1, <2>2, <2>3 DEF StructureIsTheUsers
<1>3. CASE persona' = persona /\ users' = users
  BY <1>3 DEF StructureIsTheUsers
<1>4. ~WritePersona /\ ~ClearProjectPosition => persona' = persona /\ users' = users
  BY DEF Next, vars, UpdateStep, SubmitUpdate, OpenEditor, SaveUserEdit, StartEdit, Snapshot,
         AppendLog, Reconcile, Supersede, SaveCandidate, Crash
<1> QED BY <1>1, <1>2, <1>3, <1>4

-----------------------------------------------------------------------------
(* The policy.                                                             *)

\* What has been written once stays saved.
LEMMA SavedGrows == ASSUME [Next]_vars PROVE saved \subseteq saved'
BY DEF Next, vars, UpdateStep, SubmitUpdate, OpenEditor, SaveUserEdit, StartEdit, Snapshot, WritePersona,
       AppendLog, Reconcile, Supersede, SaveCandidate, ClearProjectPosition, Crash

LEMMA PoliciesNext ==
  ASSUME PersonasAssumption, Types, Newest, PoliciesSaved, [Next]_vars
  PROVE  PoliciesSaved'
<1> DEFINE NowSaved(f) == \E s \in saved' : s.fields[Policy] = f[Policy]
<1>1. ASSUME NEW f, WasSaved(f) PROVE NowSaved(f)
  BY <1>1, SavedGrows DEF WasSaved
<1>2. NowSaved(persona'.fields)
  <2>1. CASE persona' = persona
    BY <1>1, <2>1 DEF PoliciesSaved
  <2>2. CASE WritePersona
    <3>1. saved' = saved \cup {persona'}
      BY <2>2 DEF WritePersona
    <3> QED BY <3>1
  <2>3. CASE ClearProjectPosition
    <3>1. persona' = [persona EXCEPT !.fields[Position] = NoPosition] /\ saved' = saved
      BY <2>3 DEF ClearProjectPosition
    <3>2. persona'.fields[Policy] = persona.fields[Policy]
      BY <3>1 DEF Types, Document, Fieldsets, PersonasAssumption
    <3> QED BY <3>1, <3>2 DEF PoliciesSaved, WasSaved
  <2>4. ~WritePersona /\ ~ClearProjectPosition => persona' = persona
    BY DEF Next, vars, UpdateStep, SubmitUpdate, OpenEditor, SaveUserEdit, StartEdit, Snapshot,
           AppendLog, Reconcile, Supersede, SaveCandidate, Crash
  <2> QED BY <2>1, <2>2, <2>3, <2>4
<1>3. ASSUME op' # None PROVE op'.previous = persona.fields \/ (op # None /\ op'.previous = op.previous)
  <2>1. CASE UpdateStep
    <3>1. PICK n \in 1..MaxChanges : \E changes \in [1..n -> Change] :
                 \E evidence \in SUBSET Events \ {{}} : SubmitUpdate(changes, evidence)
      BY <2>1 DEF UpdateStep
    <3>2. PICK changes \in [1..n -> Change], evidence \in SUBSET Events \ {{}} :
                 SubmitUpdate(changes, evidence)
      BY <3>1
    <3>3. n \in Nat \ {0} /\ evidence \in SUBSET Events
      BY DEF PersonasAssumption
    <3> QED BY <3>2, <3>3, SubmitGives
  <2>2. CASE \E c \in Change : SaveUserEdit(c)
    BY <2>2, EditGives
  <2>3. ASSUME NEW s \in Stages, op # None, GoTo(s) PROVE op'.previous = op.previous
    BY <2>3, GoToGives
  <2>4. CASE Snapshot \/ WritePersona \/ AppendLog
    BY <2>3, <2>4 DEF Snapshot, WritePersona, AppendLog, At, Stages
  <2>5. CASE Reconcile
    <3>1. op # None /\ (op' = op \/ op' = None \/ GoTo("suggest"))
      BY <2>5 DEF Reconcile, At, GoTo
    <3> QED BY <1>3, <2>3, <3>1 DEF Stages
  <2>6. CASE OpenEditor \/ Supersede \/ ClearProjectPosition \/ UNCHANGED vars
    BY <1>3, <2>6 DEF OpenEditor, Supersede, ClearProjectPosition, vars
  <2>7. CASE SaveCandidate \/ Crash
    BY <1>3, <2>7 DEF SaveCandidate, Crash
  <2> QED BY <2>1, <2>2, <2>4, <2>5, <2>6, <2>7 DEF Next
<1>4. op' # None => NowSaved(op'.previous)
  <2>1. ASSUME op' # None PROVE WasSaved(op'.previous)
    BY <1>3, <2>1 DEF PoliciesSaved
  <2> QED BY <1>1, <2>1
<1> QED BY <1>2, <1>4 DEF PoliciesSaved, WasSaved

-----------------------------------------------------------------------------
(* The records.                                                            *)

\* The parts of OneRecordForAPath.
Apart(r, s) == Active(r) /\ Active(s) => PathsOf(r.changes) \cap PathsOf(s.changes) = {}
Measured(r) == \E s \in saved : r.required = MostRequired(s.fields, r.changes)
Judged(r) == Active(r) => (r.eligible <=> Cardinality(r.evidence) >= r.required) /\ Measured(r)

LEMMA RecordsAre ==
  OneRecordForAPath <=>
    /\ \A i, k \in DOMAIN records : i # k => Apart(records[i], records[k])
    /\ \A i \in DOMAIN records : Judged(records[i])
BY DEF OneRecordForAPath, Apart, Judged, Measured

LEMMA RecordsAreNext ==
  (OneRecordForAPath <=>
    /\ \A i, k \in DOMAIN records : i # k => Apart(records[i], records[k])
    /\ \A i \in DOMAIN records : Judged(records[i]))'
BY RecordsAre, PTL

\* A suggestion has a path.
LEMMA PathsExist ==
  ASSUME NEW changes \in Seq(Change), changes # <<>>
  PROVE  PathsOf(changes) # {}
<1>1. changes[1] \in Range(changes)
  BY DEF Range
<1> QED BY <1>1 DEF PathsOf

LEMMA FainterKeeps ==
  ASSUME Types, saved' = saved, OneRecordForAPath, Speaks, NEW i, NEW s \in {"incorporated", "superseded"},
         Fainter(i, s)
  PROVE  OneRecordForAPath' /\ Speaks'
<1>1. /\ DOMAIN records' = DOMAIN records
      /\ \A k \in DOMAIN records :
           /\ records'[k].changes = records[k].changes
           /\ records'[k].evidence = records[k].evidence
           /\ records'[k].eligible = records[k].eligible
           /\ records'[k].required = records[k].required
           /\ Active(records'[k]) => Active(records[k])
  BY FainterGives
<1>2. ASSUME NEW j \in DOMAIN records, NEW k \in DOMAIN records, j # k
      PROVE  Apart(records'[j], records'[k])
  <2>1. Apart(records[j], records[k])
    BY <1>2, RecordsAre
  <2> QED BY <1>1, <2>1 DEF Apart
<1>3. ASSUME NEW k \in DOMAIN records PROVE Judged(records'[k])
  <2>1. Judged(records[k])
    BY RecordsAre
  <2> QED BY <1>1, <2>1 DEF Judged, Measured
<1>4. OneRecordForAPath'
  <2>1. /\ \A j, k \in DOMAIN records' : j # k => Apart(records'[j], records'[k])
        /\ \A k \in DOMAIN records' : Judged(records'[k])
    BY <1>1, <1>2, <1>3
  <2> QED BY <2>1 DEF OneRecordForAPath, Apart, Judged, Measured
<1> QED BY <1>1, <1>4 DEF Speaks

\* The record that is saved conflicts with none: those that did have been
\* superseded, and of two active records one at most has its changes.
LEMMA SavesKeeps ==
  ASSUME Types, PersonasAssumption, OneRecordForAPath, Speaks, op \in Operation,
         WasSaved(op.previous), saved' = saved,
         op.dormant # <<>>, \A i \in DOMAIN records : ~Conflicting(records[i]),
         NEW evidence \in SUBSET Events, Saves(evidence)
  PROVE  OneRecordForAPath' /\ Speaks'
<1> DEFINE c == Candidate(evidence)
<1>1. PICK k \in DOMAIN records' :
        /\ records'[k] = c
        /\ \A i \in DOMAIN records' \ {k} : i \in DOMAIN records /\ records'[i] = records[i]
        /\ \/ k \in DOMAIN records /\ Active(records[k]) /\ records[k].changes = op.dormant
           \/ \A i \in DOMAIN records : Active(records[i]) => records[i].changes # op.dormant
  BY SavesGives
<1>2. Active(c) /\ c.changes = op.dormant /\ Judged(c)
  <2>1. /\ Active(c) /\ c.changes = op.dormant /\ c.evidence = evidence
        /\ c.required = MostRequired(op.previous, op.dormant)
        /\ c.eligible <=> Cardinality(evidence) >= MostRequired(op.previous, op.dormant)
    BY CandidateIs
  <2>2. PICK s \in saved : s.fields[Policy] = op.previous[Policy]
    BY DEF WasSaved
  <2>3. MostRequired(s.fields, op.dormant) = MostRequired(op.previous, op.dormant)
    BY <2>2 DEF MostRequired, RequiredEvidence
  <2> HIDE DEF c
  <2>4. Measured(c)
    BY <2>1, <2>3 DEF Measured
  <2> QED BY <2>1, <2>4 DEF Judged
<1> HIDE DEF c
<1>3. op.dormant \in Seq(Change)
  BY DEF Operation
<1>4. PathsOf(op.dormant) # {}
  BY <1>3, PathsExist
<1>5. ASSUME NEW i \in DOMAIN records' \ {k} PROVE Apart(records'[i], c) /\ Apart(c, records'[i])
  <2>1. i \in DOMAIN records /\ records'[i] = records[i] /\ i # k
    BY <1>1
  <2>2. Active(records[i]) => records[i].changes # op.dormant
    <3>1. CASE k \in DOMAIN records /\ Active(records[k]) /\ records[k].changes = op.dormant
      <4>1. Apart(records[i], records[k])
        BY <2>1, <3>1, RecordsAre
      <4> QED BY <1>4, <3>1, <4>1 DEF Apart
    <3> QED BY <1>1, <2>1, <3>1
  <2>3. Active(records[i]) => PathsOf(records[i].changes) \cap PathsOf(op.dormant) = {}
    BY <2>1, <2>2 DEF Conflicting
  <2> QED BY <1>2, <2>1, <2>3 DEF Apart
<1>6. \A i, j \in DOMAIN records' : i # j => Apart(records'[i], records'[j])
  <2>1. SUFFICES ASSUME NEW i \in DOMAIN records', NEW j \in DOMAIN records', i # j
                 PROVE  Apart(records'[i], records'[j])
    OBVIOUS
  <2>2. CASE i = k \/ j = k
    BY <1>1, <1>5, <2>1, <2>2
  <2>3. CASE i # k /\ j # k
    <3>1. i \in DOMAIN records /\ records'[i] = records[i]
          /\ j \in DOMAIN records /\ records'[j] = records[j]
      BY <1>1, <2>3
    <3>2. Apart(records[i], records[j])
      BY <2>1, <3>1, RecordsAre
    <3> QED BY <3>1, <3>2
  <2> QED BY <2>2, <2>3
<1>7. \A i \in DOMAIN records' : Judged(records'[i])
  BY <1>1, <1>2, RecordsAre
<1>8. OneRecordForAPath'
  BY <1>6, <1>7 DEF OneRecordForAPath, Apart, Judged, Measured
<1>9. Speaks'
  BY <1>1, <1>2 DEF Speaks
<1> QED BY <1>8, <1>9

LEMMA RecordsNext ==
  ASSUME PersonasAssumption, Types, Suggests, Speaks, PoliciesSaved, OneRecordForAPath, [Next]_vars
  PROVE  OneRecordForAPath' /\ Speaks'
<1>0. saved \subseteq saved'
  BY SavedGrows
<1>1. CASE records' = records
  <2>1. ASSUME NEW i \in DOMAIN records, Active(records[i])
        PROVE  /\ records[i].eligible <=> Cardinality(records[i].evidence) >= records[i].required
               /\ \E s \in saved' : records[i].required = MostRequired(s.fields, records[i].changes)
    BY <1>0, <2>1, RecordsAre DEF Judged, Measured
  <2> QED BY <1>1, <2>1 DEF OneRecordForAPath, Speaks, Active
<1>2. CASE Reconcile
  <2>1. records' = records \/ \E i : \E s \in {"incorporated", "superseded"} : Fainter(i, s)
    BY <1>2, ReconcileGives
  <2>2. saved' = saved
    BY <1>2 DEF Reconcile
  <2> QED BY <1>1, <2>1, <2>2, FainterKeeps
<1>3. CASE Supersede
  <2>1. PICK i : Fainter(i, "superseded")
    BY <1>3, SupersedeGives
  <2>2. saved' = saved
    BY <1>3 DEF Supersede
  <2> QED BY <2>1, <2>2, FainterKeeps
<1>4. CASE SaveCandidate
  <2>1. op \in Operation /\ op.dormant # <<>> /\ \A i \in DOMAIN records : ~Conflicting(records[i])
    BY <1>4, CandidateGives DEF Suggests, At
  <2>2. PICK evidence \in SUBSET Events : Saves(evidence)
    BY <1>4, CandidateGives
  <2>3. saved' = saved /\ WasSaved(op.previous)
    BY <1>4 DEF SaveCandidate, PoliciesSaved, At
  <2> QED BY <2>1, <2>2, <2>3, SavesKeeps
<1>5. ~Reconcile /\ ~Supersede /\ ~SaveCandidate => records' = records
  BY DEF Next, vars, UpdateStep, SubmitUpdate, OpenEditor, SaveUserEdit, StartEdit, Snapshot,
         WritePersona, AppendLog, ClearProjectPosition, Crash
<1> QED BY <1>1, <1>2, <1>3, <1>4, <1>5

-----------------------------------------------------------------------------
(* The versions.                                                           *)

LEMMA NewestNext ==
  ASSUME PersonasAssumption, Types, WritesNext, Newest, [Next]_vars
  PROVE  Newest'
<1>0. /\ persona.version \in Nat /\ opened.version \in Nat
      /\ \A c \in history : c.version \in Nat /\ c.version <= persona.version
  BY DEF Types, Document, Newest
<1>1. CASE OpenEditor
  <2>1. opened' = persona /\ persona' = persona /\ history' = history
    BY <1>1 DEF OpenEditor
  <2> QED BY <1>0, <2>1 DEF Newest
<1>2. CASE Snapshot
  <2>1. opened' = opened /\ persona' = persona /\ history' = history \cup {persona}
    BY <1>2 DEF Snapshot
  <2> QED BY <1>0, <2>1 DEF Newest
<1>3. CASE WritePersona
  <2>1. op.version = persona.version + 1
    BY <1>3 DEF WritePersona, WritesNext, Before
  <2>2. persona'.version = op.version /\ opened' = opened /\ history' = history
    BY <1>3 DEF WritePersona
  <2> QED BY <1>0, <2>1, <2>2 DEF Newest
<1>4. CASE ClearProjectPosition
  <2>1. persona' = [persona EXCEPT !.fields[Position] = NoPosition]
        /\ opened' = opened /\ history' = history
    BY <1>4 DEF ClearProjectPosition
  <2>2. persona'.version = persona.version
    BY <2>1 DEF Types, Document
  <2> QED BY <2>1, <2>2 DEF Newest
<1>5. CASE persona' = persona /\ opened' = opened /\ history' = history
  BY <1>5 DEF Newest
<1>6. ~OpenEditor /\ ~Snapshot /\ ~WritePersona /\ ~ClearProjectPosition
        => persona' = persona /\ opened' = opened /\ history' = history
  BY DEF Next, vars, UpdateStep, SubmitUpdate, SaveUserEdit, StartEdit,
         AppendLog, Reconcile, Supersede, SaveCandidate, Crash
<1> QED BY <1>1, <1>2, <1>3, <1>4, <1>5, <1>6

\* The parts of HistoryIsComplete.
Kept == history \cup {persona}
Saved == \A s \in saved : \E c \in Kept : c.version = s.version /\ SameBut(c, s)
Distinct == \A c, d \in Kept : c.version = d.version => SameBut(c, d)
Logged == persona.version - 1 <= Len(log) + crashes + (IF At("log") THEN 1 ELSE 0)

LEMMA HistoryIs == HistoryIsComplete <=> Saved /\ Distinct /\ Logged
BY DEF HistoryIsComplete, Saved, Distinct, Logged, Kept

LEMMA HistoryIsNext == (HistoryIsComplete <=> Saved /\ Distinct /\ Logged)'
BY HistoryIs, PTL

\* A version that is written is new, and the one it replaces is in the
\* history; clearing the position changes nothing else of the version.
LEMMA SavedNext ==
  ASSUME PersonasAssumption, Types, WritesNext, OverwritesKept, Newest, Saved, Distinct, [Next]_vars
  PROVE  Saved' /\ Distinct'
<1>1. CASE Snapshot
  <2>1. saved' = saved /\ persona' = persona /\ history' = history \cup {persona}
    BY <1>1 DEF Snapshot
  <2> QED BY <2>1 DEF Saved, Distinct, Kept, SameBut
<1>2. CASE WritePersona
  <2>1. op.version = persona.version + 1 /\ persona \in history
    BY <1>2 DEF WritePersona, WritesNext, Before, OverwritesKept
  <2>2. persona'.version = op.version /\ saved' = saved \cup {persona'} /\ history' = history
    BY <1>2 DEF WritePersona
  <2>3. \A c \in history : c.version < persona'.version
    BY <2>1, <2>2 DEF Types, Document, Newest
  <2>4. Kept = history /\ Kept' = history \cup {persona'}
    BY <2>1, <2>2 DEF Kept
  <2>5. Saved'
    <3>1. ASSUME NEW s \in saved'
          PROVE  \E c \in Kept' : c.version = s.version /\ SameBut(c, s)
      BY <2>2, <2>4, <3>1 DEF Saved, SameBut
    <3> QED BY <3>1 DEF Saved, SameBut
  <2>6. Distinct'
    <3>1. ASSUME NEW c \in Kept', NEW d \in Kept', c.version = d.version PROVE SameBut(c, d)
      <4>1. CASE c \in history /\ d \in history
        BY <2>4, <3>1, <4>1 DEF Distinct
      <4>2. CASE c = persona' /\ d = persona'
        BY <4>2 DEF SameBut
      <4>3. ~(c \in history /\ d = persona') /\ ~(c = persona' /\ d \in history)
        <5>1. \A x \in history : x.version \in Nat /\ persona'.version \in Nat
          BY <2>1, <2>2 DEF Types, Document
        <5> QED BY <2>3, <3>1, <5>1
      <4> QED BY <2>4, <3>1, <4>1, <4>2, <4>3
    <3> QED BY <3>1 DEF Distinct, SameBut
  <2> QED BY <2>5, <2>6
<1>3. CASE ClearProjectPosition
  <2>1. persona' = [persona EXCEPT !.fields[Position] = NoPosition]
        /\ saved' = saved /\ history' = history
    BY <1>3 DEF ClearProjectPosition
  <2>2. persona'.version = persona.version /\ SameBut(persona', persona)
    BY <2>1 DEF Types, Document, Fieldsets, SameBut
  <2>3. ASSUME NEW c \in Kept' PROVE \E d \in Kept : c.version = d.version /\ SameBut(c, d)
    <3>1. CASE c \in history
      <4>1. c \in Kept /\ c.version = c.version /\ SameBut(c, c)
        BY <3>1 DEF Kept, SameBut
      <4> QED BY <4>1
    <3>2. CASE c = persona'
      <4>1. persona \in Kept
        BY DEF Kept
      <4> QED BY <2>2, <3>2, <4>1
    <3> QED BY <2>1, <3>1, <3>2 DEF Kept
  <2>4. ASSUME NEW c \in Kept PROVE \E d \in Kept' : d.version = c.version /\ SameBut(d, c)
    <3>1. CASE c \in history
      <4>1. c \in Kept' /\ c.version = c.version /\ SameBut(c, c)
        BY <2>1, <3>1 DEF Kept, SameBut
      <4> QED BY <4>1
    <3>2. CASE c = persona
      <4>1. persona' \in Kept'
        BY DEF Kept
      <4>2. persona'.version = c.version /\ SameBut(persona', c)
        BY <2>2, <3>2
      <4> QED BY <4>1, <4>2
    <3> QED BY <3>1, <3>2 DEF Kept
  <2>5. Saved'
    <3>1. ASSUME NEW s \in saved PROVE \E c \in Kept' : c.version = s.version /\ SameBut(c, s)
      <4>1. PICK d \in Kept : d.version = s.version /\ SameBut(d, s)
        BY DEF Saved
      <4>2. PICK c \in Kept' : c.version = d.version /\ SameBut(c, d)
        BY <2>4
      <4> QED BY <4>1, <4>2 DEF SameBut
    <3> QED BY <2>1, <3>1 DEF Saved, SameBut
  <2>6. Distinct'
    <3>1. ASSUME NEW c \in Kept', NEW d \in Kept', c.version = d.version PROVE SameBut(c, d)
      <4>1. PICK a \in Kept : c.version = a.version /\ SameBut(c, a)
        BY <2>3
      <4>2. PICK b \in Kept : d.version = b.version /\ SameBut(d, b)
        BY <2>3
      <4>3. SameBut(a, b)
        BY <3>1, <4>1, <4>2 DEF Distinct
      <4> QED BY <4>1, <4>2, <4>3 DEF SameBut
    <3> QED BY <3>1 DEF Distinct, SameBut
  <2> QED BY <2>5, <2>6
<1>4. CASE persona' = persona /\ saved' = saved /\ history' = history
  BY <1>4 DEF Saved, Distinct, Kept, SameBut
<1>5. ~Snapshot /\ ~WritePersona /\ ~ClearProjectPosition
        => persona' = persona /\ saved' = saved /\ history' = history
  BY DEF Next, vars, UpdateStep, SubmitUpdate, OpenEditor, SaveUserEdit, StartEdit,
         AppendLog, Reconcile, Supersede, SaveCandidate, Crash
<1> QED BY <1>1, <1>2, <1>3, <1>4, <1>5

\* A version and its line in the log are two writes, between which a crash
\* may come, and nothing else.
LEMMA LoggedNext ==
  ASSUME PersonasAssumption, Types, WritesNext, Logged, [Next]_vars
  PROVE  Logged'
<1>0. persona.version \in Nat /\ Len(log) \in Nat /\ crashes \in Nat
  BY DEF Types, Document
<1>1. CASE WritePersona
  <2>1. op # None /\ op.stage = "write" /\ GoTo("log") /\ "log" \in Stages
    BY <1>1 DEF WritePersona, At, Stages
  <2>2. op' # None /\ op'.stage = "log"
    BY <2>1, GoToGives
  <2>3. ~At("log") /\ At("log")'
    BY <2>1, <2>2 DEF At
  <2>4. persona'.version = persona.version + 1 /\ log' = log /\ crashes' = crashes
    BY <1>1 DEF WritePersona, WritesNext, Before, counts
  <2> QED BY <1>0, <2>3, <2>4 DEF Logged
<1>2. CASE AppendLog
  <2>1. log' = Append(log, op.actor) /\ persona' = persona /\ crashes' = crashes
    BY <1>2 DEF AppendLog, counts
  <2>2. Len(log') = Len(log) + 1
    BY <2>1 DEF Types
  <2> QED BY <1>0, <2>1, <2>2 DEF Logged
<1>3. CASE Crash
  <2>1. persona' = persona /\ log' = log /\ crashes' = crashes + 1
    BY <1>3 DEF Crash
  <2> QED BY <1>0, <2>1 DEF Logged
<1>4. CASE ClearProjectPosition
  <2>1. persona' = [persona EXCEPT !.fields[Position] = NoPosition]
        /\ log' = log /\ crashes' = crashes /\ op' = op
    BY <1>4 DEF ClearProjectPosition, counts
  <2>2. persona'.version = persona.version
    BY <2>1 DEF Types, Document
  <2> QED BY <2>1, <2>2 DEF Logged, At
<1>5. CASE persona' = persona /\ log' = log /\ crashes' = crashes /\ (op' = op \/ ~At("log"))
  <2>1. At("log") => At("log")'
    BY <1>5 DEF At
  <2> QED BY <1>0, <1>5, <2>1 DEF Logged
<1>6. ~WritePersona /\ ~AppendLog /\ ~Crash /\ ~ClearProjectPosition
        => persona' = persona /\ log' = log /\ crashes' = crashes /\ (op' = op \/ ~At("log"))
  BY DEF Next, vars, counts, UpdateStep, SubmitUpdate, OpenEditor, SaveUserEdit, StartEdit,
         Snapshot, Reconcile, Supersede, SaveCandidate, At
<1> QED BY <1>1, <1>2, <1>3, <1>4, <1>5, <1>6

-----------------------------------------------------------------------------
(* The theorems.                                                           *)

LEMMA InitInv == PersonasAssumption /\ Init => IInv
<1> SUFFICES ASSUME PersonasAssumption, Init PROVE IInv
  OBVIOUS
<1> DEFINE seed == [f \in Fields |-> NoPosition]
<1>1. /\ persona = [version |-> 1, fields |-> seed] /\ opened = persona
      /\ history = {} /\ log = <<>> /\ records = <<>> /\ op = None
      /\ saved = {persona} /\ users = seed /\ updates = 0 /\ edits = 0 /\ crashes = 0
  BY DEF Init
<1>2. seed \in Fieldsets
  BY DEF PersonasAssumption, Fieldsets
<1> HIDE DEF seed
<1>3. persona \in Document
  BY <1>1, <1>2 DEF Document
<1>4. Types
  BY <1>1, <1>2, <1>3 DEF Types
<1>5. WritesNext /\ WritesStructure /\ OverwritesKept /\ Suggests
  BY <1>1 DEF WritesNext, WritesStructure, OverwritesKept, Suggests, Before, At
<1>6. Newest /\ Speaks
  BY <1>1 DEF Newest, Speaks
<1>7. StructureIsTheUsers /\ PoliciesSaved
  BY <1>1 DEF StructureIsTheUsers, PoliciesSaved, WasSaved
<1>8. OneRecordForAPath
  BY <1>1 DEF OneRecordForAPath
<1>9. HistoryIsComplete
  <2>1. Kept = {persona} /\ ~At("log")
    BY <1>1 DEF Kept, At
  <2>2. Saved /\ Distinct
    BY <1>1, <2>1 DEF Saved, Distinct, SameBut
  <2>3. Logged
    BY <1>1, <2>1 DEF Logged
  <2> QED BY <2>2, <2>3, HistoryIs
<1> QED BY <1>4, <1>5, <1>6, <1>7, <1>8, <1>9 DEF IInv

LEMMA NextInv == PersonasAssumption /\ IInv /\ [Next]_vars => IInv'
<1> SUFFICES ASSUME PersonasAssumption, IInv, [Next]_vars PROVE IInv'
  OBVIOUS
<1>1. /\ Types /\ WritesNext /\ WritesStructure /\ OverwritesKept /\ Suggests /\ Newest /\ Speaks
      /\ StructureIsTheUsers /\ OneRecordForAPath /\ Saved /\ Distinct /\ Logged /\ PoliciesSaved
  BY HistoryIs DEF IInv
<1>2. Types'
  BY <1>1, TypesNext
<1>3. WritesNext' /\ WritesStructure' /\ OverwritesKept' /\ Suggests'
  BY <1>1, OperationNext
<1>4. Newest'
  BY <1>1, NewestNext
<1>5. StructureIsTheUsers'
  BY <1>1, StructureNext
<1>6. OneRecordForAPath' /\ Speaks' /\ PoliciesSaved'
  BY <1>1, RecordsNext, PoliciesNext
<1>7. HistoryIsComplete'
  BY <1>1, SavedNext, LoggedNext, HistoryIsNext
<1> QED BY <1>2, <1>3, <1>4, <1>5, <1>6, <1>7 DEF IInv

\* The persona, its history and its records keep their types, an operation
\* under way keeps what its next writes rest on, and the three properties hold
\* with it, in every reachable state.
THEOREM PersonasInductive == Spec => []IInv
<1>1. Init => IInv
  BY InitInv, PersonasAssumption
<1>2. IInv /\ [Next]_vars => IInv'
  BY NextInv, PersonasAssumption
<1> QED BY <1>1, <1>2, PTL DEF Spec

\* However often an agent suggests a change, with whatever evidence, and
\* wherever its updates are cut off, the structural and the locked fields are
\* as the user last saved them (submit_update, save_user_edit).
THEOREM StructureStaysTheUsers == Spec => []StructureIsTheUsers
<1>1. IInv => StructureIsTheUsers
  BY DEF IInv
<1> QED BY <1>1, PersonasInductive, PTL

\* No two active records name the same path, while a suggestion replaces
\* others or after it was cut off, and a record is eligible exactly if its
\* evidence is as much as a policy that the user has saved asks of its changes
\* (_save_dormant_candidate).
THEOREM PathsHaveOneRecord == Spec => []OneRecordForAPath
<1>1. IInv => OneRecordForAPath
  BY DEF IInv
<1> QED BY <1>1, PersonasInductive, PTL

\* Whatever was saved is in the file or in the history, under its own version
\* and but for a cleared position, and the log lacks no more changes than
\* crashes have cut off (_snapshot, _atomic_yaml_write, _append_log).
THEOREM HistoryStaysComplete == Spec => []HistoryIsComplete
<1>1. IInv => HistoryIsComplete
  BY DEF IInv
<1> QED BY <1>1, PersonasInductive, PTL
=============================================================================
