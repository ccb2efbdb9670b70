------------------------------- MODULE Motifs -------------------------------
(***************************************************************************)
(* Conversational motifs of one project (storage_motifs.py,                *)
(* motif_checkpoints.py, motif_trajectories.py).  During a beat an agent   *)
(* records a batch of observations about motifs it keeps across turns; the *)
(* batch is one transaction.  A motif that returns in another turn is      *)
(* promoted; the user may set its status at any time.  When the reply of   *)
(* the beat is stored it is attached to the beat's observations as         *)
(* evidence, in a transaction of its own.  Sequences of primary motifs     *)
(* that recur become pattern checkpoints, and the user may say how the     *)
(* agent is to treat one.                                                  *)
(*                                                                         *)
(* Turns take turns: one runs at a time, it may be stopped (or the process *)
(* may die) after any transaction, and a stopped turn may be resumed after *)
(* others have run.  The rows of the tables motifs and motif_events are    *)
(* numbered in the order of their insertion.                               *)
(***************************************************************************)
EXTENDS Integers, Sequences, FiniteSets, SequencesExt

CONSTANTS
  Turns,
  NumAgents,        \* the observers are 1..NumAgents, in speaking order
  AgentsOf,         \* the agents that take part in a turn
  MaxBeats,         \* response beats of an agent in a turn
  Labels,           \* normalized labels
  BatchSize,        \* MOTIF_OBSERVATIONS_PER_BEAT
  MinTurns,         \* MOTIF_PATTERN_MIN_DISTINCT_TURNS
  Window,           \* MOTIF_TRAJECTORY_WINDOW
  UserStatuses,     \* what the user may set a motif to: active, dormant, rejected
  Preferences,      \* what the user may choose for a pattern: notice, follow, test, paused
  MaxObservations,  \* bound on observations
  MaxChanges,       \* bound on the user's changes of a status
  None

ASSUME MotifsAssumption ==
  /\ AgentsOf \in [Turns -> (SUBSET (1..NumAgents)) \ {{}}]
  /\ {NumAgents, MaxBeats, BatchSize, MinTurns, Window} \subseteq Nat \ {0}
  /\ UserStatuses \subseteq {"active", "dormant", "rejected"}
  /\ {MaxObservations, MaxChanges} \subseteq Nat

VARIABLES
  motifs,       \* table motifs
  aliases,      \* table motif_aliases
  events,       \* table motif_events
  batches,      \* table motif_observation_batches
  preferences,  \* table motif_pattern_preferences
  choosing,     \* a change of a preference between its check and its write
  messages,     \* the replies stored for the turns' beats
  running,      \* the turn that holds the chat lock, or None
  place,        \* how far each turn has come: its agent and beat
  step          \* what the running turn does next in its beat

library == <<motifs, aliases, events, batches>>
round == <<messages, running, place, step>>
vars == <<library, preferences, choosing, round>>

Observers == 1..NumAgents
Beats == 1..MaxBeats
Places == Observers \X Beats
Finished == <<NumAgents + 1, 1>>
Established == {"supported", "active", "dormant"}

\* The two kinds of message that an observation may cite.
Prompt(t) == <<t>>
Reply(t, p) == <<t, p[1], p[2]>>

IsAgents(e) == e.kind # "status_changed"
AgentEvents(m) == {i \in DOMAIN events : events[i].motif = m /\ IsAgents(events[i])}
UserEvents(m) == {i \in DOMAIN events : events[i].motif = m /\ ~IsAgents(events[i])}
-----------------------------------------------------------------------------
(* Recording a batch.                                                      *)

\* What an agent may send: a label and, when it means a motif it was shown,
\* that motif's number, which may be another observer's.  Description,
\* confidence and connections are only kept and shown; a bad one refuses the
\* batch as a bad number does.
Observations ==
  [motif : {None} \cup DOMAIN motifs, label : Labels, primary : BOOLEAN]

\* _validate_motif_observations: one to BatchSize observations, exactly one
\* of them primary, and no motif named twice, by number or by label.
ValidBatches ==
  LET Identity(o) == IF o.motif = None THEN <<o.label>> ELSE <<o.motif, None>>
      MaySend(b) ==
        /\ Cardinality({i \in DOMAIN b : b[i].primary}) = 1
        /\ \A i, k \in DOMAIN b : Identity(b[i]) = Identity(b[k]) => i = k
      left == MaxObservations - Cardinality({i \in DOMAIN events : IsAgents(events[i])})
  IN {b \in UNION {[1..n -> Observations] : n \in 1..Min({BatchSize, left})} : MaySend(b)}

\* Mutant of Reinforced: a return promotes a motif whatever the user has said.
ReinforcedAnyway(row, t) ==
  LET distinct == IF row.last # t THEN row.distinct + 1 ELSE row.distinct
  IN [row EXCEPT !.support = @ + 1, !.distinct = distinct, !.last = t,
                 !.status = IF distinct >= 2 THEN "supported" ELSE @]

\* A motif that is seen again: its support grows, and it has returned in
\* another turn if the last one to see it was not this one.
Reinforced(row, t) ==
  LET distinct == IF row.last # t THEN row.distinct + 1 ELSE row.distinct
  IN [row EXCEPT !.support = @ + 1, !.distinct = distinct, !.last = t,
                 !.status = IF @ = "candidate" /\ distinct >= 2 THEN "supported" ELSE @]

New(a, t, label) ==
  [observer |-> a, label |-> label, status |-> "candidate",
   support |-> 1, distinct |-> 1, last |-> t]

\* Mutant of Claims: labels are looked up in the whole project.
ClaimsOfAnyone(db, a, label) == {x.motif : x \in {y \in db.aliases : y.label = label}}

Claims(db, a, label) == {x.motif : x \in {y \in db.aliases : y.observer = a /\ y.label = label}}

\* _record_one_motif, inside the transaction db: the motif is the one named,
\* if it is the agent's own, else the one that has the label, else a new one.
RecordOne(a, t, b, db, o) ==
  LET known == IF o.motif = None THEN Claims(db, a, o.label)
               ELSE {m \in {o.motif} \cap DOMAIN db.motifs : db.motifs[m].observer = a}
      m == IF known = {} THEN Len(db.motifs) + 1 ELSE CHOOSE x \in known : TRUE
      row == IF known = {} THEN New(a, t, o.label) ELSE Reinforced(db.motifs[m], t)
      kind == CASE known = {} -> "created"
                [] known # {} /\ row.status # db.motifs[m].status -> "promoted"
                [] OTHER -> "reinforced"
      valid ==
        /\ o.motif # None => known # {}
        /\ Claims(db, a, o.label) \subseteq {m}
          /\ \A r \in Range(db.results) : r.motif # m
  IN [valid |-> db.valid /\ valid,
      motifs |-> [i \in DOMAIN db.motifs \cup {m} |-> IF i = m THEN row ELSE db.motifs[i]],
      aliases |-> db.aliases \cup {[observer |-> a, label |-> o.label, motif |-> m]},
      events |-> Append(db.events,
        [motif |-> m, kind |-> kind, observer |-> a, turn |-> t, beat |-> b,
         primary |-> o.primary, status |-> row.status, evidence |-> <<Prompt(t)>>]),
      results |-> Append(db.results,
        [motif |-> m, status |-> row.status, support |-> row.support, primary |-> o.primary])]

\* An observation that is refused ends the transaction.
Advance(a, t, b, db, o) == IF db.valid THEN RecordOne(a, t, b, db, o) ELSE db

\* The transaction after each of the observations.
Transaction(a, t, b, observations) ==
  LET start == [valid |-> TRUE, motifs |-> motifs, aliases |-> aliases, events |-> events,
                results |-> <<>>]
      after[n \in 0..Len(observations)] ==
        IF n = 0 THEN start ELSE Advance(a, t, b, after[n - 1], observations[n])
  IN after[Len(observations)]

\* Mutant of RecordMotifObservations: the beat's earlier batch is not looked for.
RecordAnotherBatch ==
  LET t == running
      p == place[t]
  IN
  /\ running # None /\ step = "asking" /\ Reply(t, p) \notin messages
  /\ \E observations \in ValidBatches :
       LET after == Transaction(p[1], t, p[2], observations) IN
       /\ after.valid
       /\ motifs' = after.motifs /\ aliases' = after.aliases /\ events' = after.events
       /\ batches' = batches \cup {[turn |-> t, place |-> p, results |-> after.results]}
  /\ UNCHANGED <<preferences, choosing, round>>

\* record_motif_observations, committed.  The calls that change nothing are
\* left out: the repetition of an operation, which is answered from the row of
\* its batch, a second batch of the beat, and a batch with a bad observation.
RecordMotifObservations ==
  LET t == running
      p == place[t]
  IN
  /\ running # None /\ step = "asking" /\ Reply(t, p) \notin messages
  /\ ~\E x \in batches : x.turn = t /\ x.place = p
  /\ \E observations \in ValidBatches :
       LET after == Transaction(p[1], t, p[2], observations) IN
       /\ after.valid
       /\ motifs' = after.motifs /\ aliases' = after.aliases /\ events' = after.events
       /\ batches' = batches \cup {[turn |-> t, place |-> p, results |-> after.results]}
  /\ UNCHANGED <<preferences, choosing, round>>
-----------------------------------------------------------------------------
(* The turns.                                                              *)

StartOrResume(t) ==
  /\ running = None /\ place[t] # Finished
  /\ running' = t
  /\ step' = "asking"
  /\ UNCHANGED <<library, preferences, choosing, messages, place>>

\* The turn is interrupted, or the process dies, between two transactions.
Stop ==
  /\ running # None
  /\ running' = None
  /\ step' = "asking"
  /\ UNCHANGED <<library, preferences, choosing, messages, place>>

\* The provider has answered, and no tool call of the beat follows.  The
\* answer is checkpointed and stored as a message, once for the beat: a later
\* attempt comes here straight from the checkpoint.
StoreReply ==
  /\ running # None /\ step = "asking"
  /\ messages' = messages \cup {Reply(running, place[running])}
  /\ step' = "attaching"
  /\ UNCHANGED <<library, preferences, choosing, running, place>>

\* Mutant of AttachReply: it goes to all observations of the agent's turn.
AttachReplyToTurn ==
  LET p == place[running]
      reply == Reply(running, p)
      Attached(e) ==
        IF IsAgents(e) /\ e.observer = p[1] /\ e.turn = running /\ reply \notin Range(e.evidence)
        THEN [e EXCEPT !.evidence = Append(@, reply)]
        ELSE e
  IN
  /\ running # None /\ step = "attaching"
  /\ events' = [i \in DOMAIN events |-> Attached(events[i])]
  /\ step' = "finishing"
  /\ UNCHANGED <<motifs, aliases, batches, preferences, choosing, messages, running, place>>

\* attach_motif_response_evidence.
AttachReply ==
  LET p == place[running]
      reply == Reply(running, p)
      Attached(e) ==
        IF IsAgents(e) /\ e.observer = p[1] /\ e.turn = running /\ e.beat = p[2]
           /\ reply \notin Range(e.evidence)
        THEN [e EXCEPT !.evidence = Append(@, reply)]
        ELSE e
  IN
  /\ running # None /\ step = "attaching"
  /\ events' = [i \in DOMAIN events |-> Attached(events[i])]
  /\ step' = "finishing"
  /\ UNCHANGED <<motifs, aliases, batches, preferences, choosing,
                 messages, running, place>>

FirstPlace(t, agents) ==
  IF agents \cap AgentsOf[t] = {} THEN Finished ELSE <<Min(agents \cap AgentsOf[t]), 1>>

NextAgent(t, p) == FirstPlace(t, (p[1] + 1)..NumAgents)

\* The beat is finished; the agent asks for another one or has finished.
FinishBeat ==
  LET p == place[running] IN
  /\ running # None /\ step = "finishing"
  /\ \E next \in {NextAgent(running, p)} \cup (IF p[2] < MaxBeats THEN {<<p[1], p[2] + 1>>} ELSE {}) :
       place' = [place EXCEPT ![running] = next]
  /\ step' = "asking"
  /\ running' = IF place'[running] = Finished THEN None ELSE running
  /\ UNCHANGED <<library, preferences, choosing, messages>>

\* The provider fails: the agent is finished without a reply of this beat,
\* and what it has recorded stays.
FailBeat ==
  /\ running # None /\ step = "asking" /\ Reply(running, place[running]) \notin messages
  /\ place' = [place EXCEPT ![running] = NextAgent(running, @)]
  /\ running' = IF place'[running] = Finished THEN None ELSE running
  /\ UNCHANGED <<library, preferences, choosing, messages, step>>
-----------------------------------------------------------------------------
(* The user.                                                               *)

\* set_motif_status: any motif, whatever its status.
SetMotifStatus(m, status) ==
  /\ motifs' = [motifs EXCEPT ![m].status = status]
  /\ events' = Append(events,
       [motif |-> m, kind |-> "status_changed", observer |-> motifs[m].observer,
        turn |-> None, beat |-> None, primary |-> FALSE, status |-> status,
        evidence |-> <<>>])
  /\ UNCHANGED <<aliases, batches, preferences, choosing, round>>

\* primary_motif_event_sequence: the agent's primary observations of motifs
\* that are established now, in the order in which they were made.
Trajectory(a) ==
  LET shown == {i \in DOMAIN events :
                  /\ IsAgents(events[i]) /\ events[i].observer = a /\ events[i].primary
                  /\ motifs[events[i].motif].status \in Established}
      recent == {i \in shown : Cardinality({k \in shown : k >= i}) <= Window}
      path == CHOOSE s \in [1..Cardinality(recent) -> recent] :
                \A i, k \in DOMAIN s : i < k => s[i] < s[k]
  IN [i \in DOMAIN path |-> events[path[i]]]

\* Mutant of Patterns: occurrences are counted, not the turns they ended in.
PatternsByOccurrence(a) ==
  LET path == Trajectory(a)
      MotifsOf(i, k) == [j \in 1..(k - i + 1) |-> path[i + j - 1].motif]
      runs == {r \in (1..Len(path)) \X (1..Len(path)) : r[2] - r[1] + 1 \in {2, 3}}
      Ends(p) == {r[2] : r \in {x \in runs : MotifsOf(x[1], x[2]) = p}}
  IN {p \in {MotifsOf(r[1], r[2]) : r \in runs} : Cardinality(Ends(p)) >= MinTurns}

\* motif_sequence_summary: runs of two or three motifs, and paths of up to six
\* that return to their first motif, that ended in at least MinTurns turns.
Patterns(a) ==
  LET path == Trajectory(a)
      MotifsOf(i, k) == [j \in 1..(k - i + 1) |-> path[i + j - 1].motif]
      runs == {r \in (1..Len(path)) \X (1..Len(path)) :
                 LET size == r[2] - r[1] + 1 IN
                 \/ size \in {2, 3}
                 \/ size \in 3..6 /\ path[r[1]].motif = path[r[2]].motif}
      TurnsOf(p) == {path[r[2]].turn : r \in {x \in runs : MotifsOf(x[1], x[2]) = p}}
  IN {p \in {MotifsOf(r[1], r[2]) : r \in runs} : Cardinality(TurnsOf(p)) >= MinTurns}

\* update_motif_pattern_preference looks for the checkpoint; the ranking that
\* limits how many are shown is left out.
ChoosePreference(a) ==
  /\ choosing = None
  /\ \E p \in Patterns(a) : choosing' = [observer |-> a, pattern |-> p]
  /\ UNCHANGED <<library, preferences, round>>

\* set_motif_pattern_preference, without another look at the events.
SetPreference(preference) ==
  /\ choosing # None
  /\ preferences' = [k \in DOMAIN preferences \cup {choosing} |->
                       IF k = choosing THEN preference ELSE preferences[k]]
  /\ choosing' = None
  /\ UNCHANGED <<library, round>>
-----------------------------------------------------------------------------
Init ==
  /\ motifs = <<>> /\ aliases = {} /\ events = <<>>
  /\ batches = {} /\ preferences = <<>> /\ choosing = None
  /\ messages = {} /\ running = None
  /\ place = [t \in Turns |-> FirstPlace(t, Observers)]
  /\ step = "asking"

UserStep ==
  \/ /\ Cardinality({i \in DOMAIN events : ~IsAgents(events[i])}) < MaxChanges
     /\ \E m \in DOMAIN motifs, status \in UserStatuses : SetMotifStatus(m, status)
  \/ \E a \in Observers : ChoosePreference(a)
  \/ \E preference \in Preferences : SetPreference(preference)

TurnStep ==
  \/ \E t \in Turns : StartOrResume(t)
  \/ RecordMotifObservations \/ StoreReply \/ AttachReply \/ FinishBeat \/ FailBeat
  \/ Stop

Next == UserStep \/ TurnStep

Spec == Init /\ [][Next]_vars
-----------------------------------------------------------------------------
(* Properties.                                                             *)

TurnsThatSaw(m) == {events[i].turn : i \in AgentEvents(m)}

\* The type of the tables, and what joins them: a label of an observer means
\* one motif, which is the observer's, and a motif's own label means it.
TypeOK ==
  /\ motifs \in Seq([observer : Observers, label : Labels, last : Turns,
                     status : UserStatuses \cup {"candidate", "supported"},
                     support : Nat, distinct : Nat])
  /\ aliases \subseteq [observer : Observers, label : Labels, motif : DOMAIN motifs]
  /\ \A x, y \in aliases : x.observer = y.observer /\ x.label = y.label => x = y
  /\ \A x \in aliases : motifs[x.motif].observer = x.observer
  /\ \A m \in DOMAIN motifs :
       [observer |-> motifs[m].observer, label |-> motifs[m].label, motif |-> m] \in aliases
  /\ DOMAIN preferences \subseteq [observer : Observers, pattern : Seq(DOMAIN motifs)]
  /\ place \in [Turns -> Places \cup {Finished}]
  /\ step \in {"asking", "attaching", "finishing"}

\* A batch counts once and as a whole, whatever the retries of its beat: each
\* beat has at most one, with one primary motif, and its events are exactly
\* what its result tells the agent, one after the other; a motif has as much
\* support as events, the first of which created it, and no event comes from
\* elsewhere.
BatchesAreWhole ==
  LET EventsOf(b) == {i \in DOMAIN events :
        IsAgents(events[i]) /\ events[i].turn = b.turn
        /\ <<events[i].observer, events[i].beat>> = b.place}
      Tells(r, e) == e.motif = r.motif /\ e.status = r.status /\ e.primary = r.primary
  IN
  /\ \A b, c \in batches : b.turn = c.turn /\ b.place = c.place => b = c
  /\ \A b \in batches :
       LET mine == EventsOf(b) IN
       /\ \E before \in 0..Len(events) :
            /\ mine = (before + 1)..(before + Len(b.results))
            /\ \A i \in DOMAIN b.results : Tells(b.results[i], events[before + i])
       /\ \A i \in DOMAIN b.results : motifs[b.results[i].motif].observer = b.place[1]
       /\ \A i, k \in DOMAIN b.results : b.results[i].motif = b.results[k].motif => i = k
       /\ Cardinality({i \in DOMAIN b.results : b.results[i].primary}) = 1
  /\ \A i \in DOMAIN events : IsAgents(events[i]) =>
       \E b \in batches : b.turn = events[i].turn /\ b.place = <<events[i].observer, events[i].beat>>
  /\ \A m \in DOMAIN motifs :
       LET seen == AgentEvents(m) IN
       /\ motifs[m].support = Cardinality(seen)
       /\ \A i \in seen : events[i].kind = "created" <=> \A k \in seen : i <= k

\* The user has the last word on a motif: its status is the one that the user
\* set last, whatever agents see afterwards.  Without the user's word a motif
\* is supported exactly if it was seen in two different turns, however these
\* are stopped and resumed between its observations.
UserHasTheLastWord ==
  \A m \in DOMAIN motifs :
    LET said == UserEvents(m) IN
    IF said # {}
    THEN motifs[m].status = events[CHOOSE i \in said : \A k \in said : k <= i].status
    ELSE motifs[m].status =
           IF Cardinality(TurnsThatSaw(m)) >= 2 THEN "supported" ELSE "candidate"

\* An observation cites the prompt of its turn and at most the reply of its
\* own beat; once a beat with a stored reply is over, it does cite the reply.
EvidenceIsOfTheBeat ==
  \A i \in DOMAIN events : IsAgents(events[i]) =>
    LET e == events[i]
        p == <<e.observer, e.beat>>
        reply == Reply(e.turn, p)
        Over == place[e.turn] # p
    IN
    /\ e.evidence \in {<<Prompt(e.turn)>>, <<Prompt(e.turn), reply>>}
    /\ reply \in Range(e.evidence) => reply \in messages
    /\ Over /\ reply \in messages => reply \in Range(e.evidence)

\* The user's choices are about patterns that did recur: the motifs are the
\* observer's and have been established, and in MinTurns turns the last of
\* them came after the first of them, although the choice is written after the
\* check and later choices of a status change what is established.
PreferencesAreEarned ==
  \A c \in DOMAIN preferences :
    LET Primary(m) == {i \in AgentEvents(m) : events[i].primary}
        Ends == {i \in Primary(c.pattern[Len(c.pattern)]) :
                   \E k \in Primary(c.pattern[1]) : k < i}
    IN
    /\ \A i \in DOMAIN c.pattern :
         LET m == motifs[c.pattern[i]] IN m.observer = c.observer /\ m.status # "candidate"
    /\ Cardinality({events[i].turn : i \in Ends}) >= MinTurns
=============================================================================
