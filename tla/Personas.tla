------------------------------ MODULE Personas ------------------------------
(***************************************************************************)
(* The persona of one agent and the records about it (persona_store.py).   *)
(* The agent submits updates that cite its stored memory events: changes   *)
(* of fast state are committed, a change of relationship memory only with  *)
(* repeated evidence, and the rest is kept as a dormant record.  The user  *)
(* edits the whole file, the policy that says how much evidence is enough  *)
(* included, from a copy read some time before.                            *)
(*                                                                         *)
(* An operation holds the store's lock but consists of several file        *)
(* writes, each atomic by itself: the snapshot of the old version, the new *)
(* version, the line in the change log, every record that the new version  *)
(* settles, every record that the new suggestion replaces, the suggestion. *)
(* The process may die between any two of them; starting it again repairs  *)
(* nothing here.                                                           *)
(***************************************************************************)
EXTENDS Integers, Sequences, FiniteSets, SequencesExt

CONSTANTS
  Fields,        \* the leaves of the YAML document
  Paths,         \* dotted paths that an agent may name
  Covers,        \* the leaves under a path
  Kind,          \* what the prefixes of persona_store.py:34-59 make of a path;
                 \* one that is under none of them is refused like a locked one
  Policy,        \* the field update_policy
  Required,      \* distinct evidence events that a policy asks of a change
  Position,      \* the field current_position
  Values,
  NoPosition,    \* the value that names no project
  Events,        \* the agent's stored memory events
  MaxChanges,    \* bound on the changes of an update
  MaxUpdates,    \* bound on updates
  MaxEdits,      \* bound on the user's edits
  MaxCrashes,    \* bound on crashes
  None

Change == [path : Paths, value : Values]
Fieldsets == [Fields -> Values]

\* What a file of the proposals directory holds.
Record ==
  [changes : Seq(Change), evidence : SUBSET Events, required : Nat, eligible : BOOLEAN,
   status : {"dormant", "incorporated", "superseded"}]

\* An operation between two of its writes.
Operation ==
  [actor : {"agent", "user"}, previous : Fieldsets, revised : Fieldsets, version : Nat,
   dormant : Seq(Change), evidence : SUBSET Events,
   stage : {"snapshot", "write", "log", "reconcile", "suggest"}]

ASSUME PersonasAssumption ==
  /\ Covers \in [Paths -> SUBSET Fields \ {{}}]
  /\ Kind \in [Paths -> {"automatic", "structural", "locked"}]
  /\ Required \in [Paths -> [Values -> Nat \ {0}]]
  /\ \A p, q \in Paths : Covers[p] \cap Covers[q] # {} => Kind[p] = Kind[q]
  /\ \A p \in Paths : Position \in Covers[p] => Kind[p] = "automatic"
  /\ \A p \in Paths : Policy \in Covers[p] => Kind[p] = "locked"
  /\ Position \in Fields /\ Policy \in Fields \ {Position} /\ NoPosition \in Values
  /\ IsFiniteSet(Events)
  /\ {MaxChanges, MaxUpdates, MaxEdits, MaxCrashes} \subseteq Nat
  /\ None \notin Operation

VARIABLES
  persona,    \* the agent's YAML file: its version and its fields
  history,    \* the snapshots in the history directory
  log,        \* changes.jsonl: who made each change
  records,    \* the files of the proposals directory, in the order of their names
  opened,     \* what the user's editor shows
  op,         \* the operation that holds the lock, or None
  saved,      \* every version ever written
  users,      \* the fields as the user last saved them (or the seed)
  updates, edits, crashes

counts == <<updates, edits, crashes>>
vars == <<persona, history, log, records, opened, op, saved, users, counts>>

PathsOf(changes) == {c.path : c \in Range(changes)}

\* _set_path for each change in turn: a leaf is as the last change that covers
\* it leaves it.
Apply(fields, changes) ==
  [f \in Fields |->
     LET touching == {i \in DOMAIN changes : f \in Covers[changes[i].path]} IN
     IF touching = {} THEN fields[f] ELSE changes[Max(touching)].value]

\* Those of the changes that are at the given places, in their order.
Those(changes, places) ==
  FlattenSeq([i \in DOMAIN changes |-> IF i \in places THEN <<changes[i]>> ELSE <<>>])

\* _change_is_present
Present(fields, c) == \A f \in Covers[c.path] : fields[f] = c.value

\* _required_evidence_count, by the policy in the fields.
RequiredEvidence(fields, path) == Required[path][fields[Policy]]

Active(r) == r.status = "dormant"
-----------------------------------------------------------------------------
(* The agent's update.                                                     *)

\* Mutant of Automatic: enough evidence commits any change.
AutomaticWithEvidence(c, evidence) ==
  Cardinality(evidence) >= RequiredEvidence(persona.fields, c.path)

\* A change that is committed at once: relationship memory is, too, if it
\* comes with as much evidence as the persona's policy requires.
Automatic(c, evidence) ==
  /\ Kind[c.path] = "automatic"
  /\ Cardinality(evidence) >= RequiredEvidence(persona.fields, c.path)

\* submit_update up to its first write: a change of a locked field refuses the
\* update, the others are sorted into committed and dormant ones, among which
\* those of the structure come first.
SubmitUpdate(changes, evidence) ==
  LET ready == {i \in DOMAIN changes : Automatic(changes[i], evidence)}
      structural == {i \in DOMAIN changes : Kind[changes[i].path] = "structural"}
      auto == Those(changes, ready)
      dormant == Those(changes, structural)
                   \o Those(changes, DOMAIN changes \ (ready \cup structural))
  IN
  /\ op = None /\ updates < MaxUpdates
  /\ \A c \in Range(changes) : Kind[c.path] # "locked"
  /\ op' = [actor |-> "agent", previous |-> persona.fields,
            revised |-> Apply(persona.fields, auto), version |-> persona.version + 1,
            dormant |-> dormant, evidence |-> evidence,
            stage |-> IF auto = <<>> THEN "suggest" ELSE "snapshot"]
  /\ updates' = updates + 1
  /\ UNCHANGED <<persona, history, log, records, opened, saved, users, edits, crashes>>
-----------------------------------------------------------------------------
(* The user's edit.                                                        *)

\* get_persona_yaml, without the lock.
OpenEditor ==
  /\ opened # persona
  /\ opened' = persona
  /\ UNCHANGED <<persona, history, log, records, op, saved, users, counts>>

StartEdit(fields, version) ==
  /\ op = None /\ edits < MaxEdits
  /\ op' = [actor |-> "user", previous |-> persona.fields, revised |-> fields,
            version |-> version, dormant |-> <<>>, evidence |-> {}, stage |-> "snapshot"]
  /\ edits' = edits + 1
  /\ UNCHANGED <<persona, history, log, records, opened, saved, users, updates, crashes>>

\* Mutant of SaveUserEdit: the version follows the one in the editor.
SaveUserEditAsOpened(c) == StartEdit(Apply(opened.fields, <<c>>), opened.version + 1)

\* save_user_edit up to its first write: the whole file becomes what was in
\* the editor, with a version above that of the file.
SaveUserEdit(c) ==
  StartEdit(Apply(opened.fields, <<c>>),
            IF opened.version > persona.version THEN opened.version ELSE persona.version + 1)
-----------------------------------------------------------------------------
(* The writes of an operation.                                             *)

At(stage) == op # None /\ op.stage = stage
GoTo(stage) == op' = [op EXCEPT !.stage = stage]

\* _snapshot: the file is copied to the history.
Snapshot ==
  /\ At("snapshot")
  /\ history' = history \cup {persona}
  /\ GoTo("write")
  /\ UNCHANGED <<persona, log, records, opened, saved, users, counts>>

\* _atomic_yaml_write
WritePersona ==
  /\ At("write")
  /\ persona' = [version |-> op.version, fields |-> op.revised]
  /\ saved' = saved \cup {persona'}
  /\ users' = IF op.actor = "user" THEN op.revised ELSE users
  /\ GoTo("log")
  /\ UNCHANGED <<history, log, records, opened, counts>>

\* _append_log
AppendLog ==
  /\ At("log")
  /\ log' = Append(log, op.actor)
  /\ GoTo("reconcile")
  /\ UNCHANGED <<persona, history, records, opened, saved, users, counts>>

Incorporated(r) == \A c \in Range(r.changes) : Present(op.revised, c)

Touched(r) == \E c \in Range(r.changes) : \E f \in Covers[c.path] : op.previous[f] # op.revised[f]

\* _reconcile_dormant_candidates: one record after the other.
Reconcile ==
  LET settled == {i \in DOMAIN records :
                    Active(records[i]) /\ (Incorporated(records[i]) \/ Touched(records[i]))}
  IN
  /\ At("reconcile")
  /\ IF settled = {}
     THEN /\ op' = IF op.dormant = <<>> THEN None ELSE [op EXCEPT !.stage = "suggest"]
          /\ UNCHANGED records
     ELSE /\ LET i == Min(settled) IN
             records' = [records EXCEPT ![i].status =
               IF Incorporated(records[i]) THEN "incorporated" ELSE "superseded"]
          /\ UNCHANGED op
  /\ UNCHANGED <<persona, history, log, opened, saved, users, counts>>

\* Mutant of Conflicting: only a suggestion about the very same paths conflicts.
ConflictingAsAWhole(r) ==
  Active(r) /\ r.changes # op.dormant /\ PathsOf(r.changes) = PathsOf(op.dormant)

Conflicting(r) ==
  Active(r) /\ r.changes # op.dormant /\ PathsOf(r.changes) \cap PathsOf(op.dormant) # {}

\* _save_dormant_candidate: the active records that it conflicts with are
\* superseded, one after the other.
Supersede ==
  LET conflicting == {i \in DOMAIN records : Conflicting(records[i])} IN
  /\ At("suggest") /\ conflicting # {}
  /\ records' = [records EXCEPT ![Min(conflicting)].status = "superseded"]
  /\ UNCHANGED <<persona, history, log, opened, op, saved, users, counts>>

\* What the most demanding of the changes needs.
MostRequired(fields, changes) == Max({RequiredEvidence(fields, c.path) : c \in Range(changes)})

\* Then its evidence is added to the active record of the same changes, or to
\* a new one.
SaveCandidate ==
  LET same == {i \in DOMAIN records : Active(records[i]) /\ records[i].changes = op.dormant}
      evidence == op.evidence \cup UNION {records[i].evidence : i \in same}
      required == MostRequired(op.previous, op.dormant)
      candidate == [changes |-> op.dormant, evidence |-> evidence, status |-> "dormant",
                    required |-> required, eligible |-> Cardinality(evidence) >= required]
  IN
  /\ At("suggest") /\ ~\E i \in DOMAIN records : Conflicting(records[i])
  /\ records' = IF same = {} THEN Append(records, candidate)
                ELSE [records EXCEPT ![Max(same)] = candidate]
  /\ op' = None
  /\ UNCHANGED <<persona, history, log, opened, saved, users, counts>>
-----------------------------------------------------------------------------
\* clear_project_position, after the deletion of the project that the agent's
\* position names: no snapshot, no new version, no line in the log.
ClearProjectPosition ==
  /\ op = None /\ persona.fields[Position] # NoPosition
  /\ persona' = [persona EXCEPT !.fields[Position] = NoPosition]
  /\ UNCHANGED <<history, log, records, opened, op, saved, users, counts>>

Crash ==
  /\ op # None /\ crashes < MaxCrashes
  /\ op' = None
  /\ crashes' = crashes + 1
  /\ UNCHANGED <<persona, history, log, records, opened, saved, users, updates, edits>>

Init ==
  /\ persona = [version |-> 1, fields |-> [f \in Fields |-> NoPosition]]
  /\ history = {} /\ log = <<>> /\ records = <<>>
  /\ opened = persona /\ op = None
  /\ saved = {persona} /\ users = persona.fields
  /\ updates = 0 /\ edits = 0 /\ crashes = 0

UpdateStep ==
  \E n \in 1..MaxChanges : \E changes \in [1..n -> Change] :
    \E evidence \in SUBSET Events \ {{}} : SubmitUpdate(changes, evidence)

Next ==
  \/ UpdateStep
  \/ OpenEditor
  \/ \E c \in Change : SaveUserEdit(c)
  \/ Snapshot \/ WritePersona \/ AppendLog \/ Reconcile \/ Supersede \/ SaveCandidate
  \/ ClearProjectPosition
  \/ Crash

Spec == Init /\ [][Next]_vars
-----------------------------------------------------------------------------
(* Properties.                                                             *)

\* The structure of a persona, its locked and its proposal-only fields, is
\* the user's: however often an agent suggests a change, with whatever
\* evidence, and wherever an operation is cut off, these fields are as the
\* user last saved them.
StructureIsTheUsers ==
  \A p \in Paths : Kind[p] \in {"structural", "locked"} =>
    \A f \in Covers[p] : persona.fields[f] = users[f]

\* No two active records name the same path, at no moment of an update that
\* replaces several records, after no crash and however the records were
\* gathered; and what an active record tells of its eligibility is its own
\* evidence measured by a policy that the user has saved, though the policy may
\* have changed while the evidence came in.
\*
\* Not claimed is that what the records say does not conflict: paths are
\* compared as they are, so one record may name a branch and the other a leaf
\* of it.
OneRecordForAPath ==
  LET active == {i \in DOMAIN records : Active(records[i])} IN
  /\ \A i, k \in active :
       i # k => PathsOf(records[i].changes) \cap PathsOf(records[k].changes) = {}
  /\ \A i \in active :
       /\ records[i].eligible <=> Cardinality(records[i].evidence) >= records[i].required
       /\ \E s \in saved : records[i].required = MostRequired(s.fields, records[i].changes)

SameBut(c, d) == \A f \in Fields \ {Position} : c.fields[f] = d.fields[f]

\* Changes are recoverable and attributable (README.md:72-73): whatever was
\* saved, by an agent or from an editor opened long before, is still in the
\* file or in the history under its own version, but for the position that
\* the deletion of a project clears; and no more changes are missing from the
\* log than crashes have cut off.
HistoryIsComplete ==
  LET kept == history \cup {persona} IN
  /\ \A s \in saved : \E c \in kept : c.version = s.version /\ SameBut(c, s)
  /\ \A c, d \in kept : c.version = d.version => SameBut(c, d)
  /\ persona.version - 1 <= Len(log) + crashes + (IF At("log") THEN 1 ELSE 0)
=============================================================================
