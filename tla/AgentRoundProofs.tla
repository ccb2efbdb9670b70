-------------------------- MODULE AgentRoundProofs --------------------------
(***************************************************************************)
(* What a round keeps, for any agents, beats, answers, scopes and number   *)
(* of attempts, with and without pages to search.                          *)
(*                                                                         *)
(* An attempt may stop between any two transactions, so the properties of  *)
(* the tables are not inductive by themselves: what a later step stores    *)
(* depends on where the execution thinks it is.  The invariant IInv has    *)
(* the tables (Stored) and, as conjuncts of their own, what each position  *)
(* of the execution owes to them: the rows it has claimed, the beats that  *)
(* lie behind it, the answer it holds, the stages it has stored, and what  *)
(* the responses it has seen are.  A position is volatile and begins anew  *)
(* with every attempt; the proof is that whatever the tables are then,     *)
(* going through the stages again brings it to the same place.             *)
(***************************************************************************)
EXTENDS AgentRound, WellFoundedInduction, TLAPS

\* The operation has its row.
Begun(op) == \E i \in DOMAIN ledger : ledger[i] = op

\* The steps of a beat and of the end of an agent's part, and the ones of
\* them that have an answer or know of a failure.
MessageSteps == {"message_begin", "message_add", "message_done"}
MemorySteps == {"memory_begin", "memory_add", "card_add", "memory_done", "beat_begin", "beat_done"}
Working == {"ask", "asking", "agent_begin", "agent_done"} \cup MessageSteps \cup MemorySteps

\* The beats of an agent are spoken in order.
InOrder ==
  \A a \in Agents, b \in Beats : Has(messages, a, b) =>
    \A c \in 1..(b - 1) : Has(messages, a, c) /\ answers[a][c] # None /\ answers[a][c].continue

\* What is stored, wherever the execution is.
Stored ==
  /\ NothingIsDuplicated
  /\ CheckpointsAreBacked
  /\ InOrder
  /\ \A op \in completed : Begun(op)
  /\ FinishedIsWhole

\* The row, the plan and the agents left.
ControlInv ==
  /\ turn = "running" <=> step # "idle"
  /\ step # "idle" => plan \in Plans
  /\ turn = "absent" => prompts = 0 /\ messages = <<>> /\ completed = {}
  /\ step = "user" /\ ~plan.prompted => prompts = 0
  /\ step = "user" => left # {} /\ plan.fallback \in left \cup {None} /\ visible = <<>> /\ beat = 1
  /\ step \in Working => left # {}
  /\ step # "evidence" => left \cap FinishedAgents = {}
  /\ step = "evidence" => (left \ {plan.fallback}) \cap FinishedAgents = {}
  /\ step # "idle" /\ ~UrlsGiven => plan.fallback = None

\* The operation whose stage is in progress has its row.
ClaimInv ==
  /\ step = "asking" => Begun(Operation("provider_completion"))
  /\ step \in {"message_add", "message_done"} => Begun(Operation("message_committed"))
  /\ step \in {"memory_add", "card_add", "memory_done"} => Begun(Operation("memory_committed"))
  /\ step = "beat_done" => Begun(Operation("beat_finished"))
  /\ step = "agent_done" => Begun(Operation("agent_finished"))

\* The earlier beats of the agent are behind it, and it asked to go on.
PathInv ==
  step \in Working => \A c \in 1..(beat - 1) :
    /\ Has(messages, Speaker, c) /\ Has(memories, Speaker, c)
    /\ answers[Speaker][c] # None /\ answers[Speaker][c].continue

\* What the execution holds is the checkpointed answer.
AnswerInv ==
  /\ step = "asking" => answers[Speaker][beat] = None
  /\ step \in MessageSteps \cup MemorySteps =>
       /\ completion = answers[Speaker][beat]
       /\ Searching /\ completion # None => completion.cited
  /\ step \in MessageSteps \cup {"card_add"} => completion # None

\* What is stored of the beat at each of its steps.
StageInv ==
  /\ step = "message_done" => Has(messages, Speaker, beat)
  /\ step \in MemorySteps /\ completion # None => Settled(Speaker, beat, "message_committed")
  /\ step \in {"card_add", "memory_done"} => Has(memories, Speaker, beat)
  /\ step = "memory_done" => Has(cards, Speaker, beat) \/ HasFailure(memories, Speaker, beat)
  /\ step \in {"beat_begin", "beat_done"} => Settled(Speaker, beat, "memory_committed")

\* An agent's part ends with a beat that is remembered and was its last one,
\* or with a first answer that was discarded.
EndInv ==
  step \in {"agent_begin", "agent_done"} =>
    \/ Discarded([agent |-> Speaker, beat |-> beat])
    \/ /\ Has(memories, Speaker, beat)
       /\ beat = MaxBeats \/ answers[Speaker][beat] = None \/ ~answers[Speaker][beat].continue

\* A response of the agent that searches, with citations, can be seen.
CitedVisible == \E i \in DOMAIN visible : visible[i].agent = plan.fallback /\ visible[i].answer.cited

\* Responses that can be seen are stored; the searching agent is seen only
\* with citations; without pages, it has its turn or has cited something.
VisibleInv == step # "idle" =>
  /\ \A i \in DOMAIN visible : \E k \in DOMAIN messages : messages[k] = visible[i]
  /\ \A i \in DOMAIN visible : visible[i].agent = plan.fallback => CitedVisible
  /\ step \in Working /\ Speaker = plan.fallback /\ beat > 1 => CitedVisible
  /\ step \in Working /\ plan.failures /\ ~plan.sources => plan.fallback \in left \/ CitedVisible

\* The message stored but not yet among the visible responses.
Unseen == IF step \in {"message_done"} \cup MemorySteps /\ completion # None
          THEN <<[agent |-> Speaker, beat |-> beat, answer |-> completion]>> ELSE <<>>

\* An execution that is not a resumed one sees everything that is stored, and
\* finds nothing stored of the agents and beats before it.
FirstInv == step # "idle" /\ ~plan.resumed =>
  /\ messages = visible \o Unseen
  /\ step = "user" => messages = <<>>
  /\ step = "evidence" =>
       \A i \in DOMAIN messages : messages[i].agent \in left => messages[i].agent = plan.fallback
  /\ step \in Working => \A i \in DOMAIN messages : messages[i].agent \in left =>
       /\ messages[i].agent = Speaker
       /\ step \notin {"agent_begin", "agent_done"} =>
            \/ messages[i].beat < beat
            \/ step \in {"message_done"} \cup MemorySteps /\ messages[i].beat = beat

\* The inductive invariant.
IInv ==
  /\ TypeOK /\ Stored
  /\ ControlInv /\ ClaimInv /\ PathInv /\ AnswerInv /\ StageInv /\ EndInv
  /\ VisibleInv /\ FirstInv
  /\ ResultIsTranscript /\ EvidenceIsBacked

-----------------------------------------------------------------------------
(* Facts about tables and the ledger.                                      *)

\* What a sequence is after an entry has been appended.
LEMMA AppendFacts ==
  ASSUME NEW S, NEW s \in Seq(S), NEW e \in S
  PROVE  /\ Append(s, e) \in Seq(S)
         /\ DOMAIN Append(s, e) = DOMAIN s \cup {Len(s) + 1}
         /\ Len(s) + 1 \notin DOMAIN s
         /\ \A i \in DOMAIN s : Append(s, e)[i] = s[i]
         /\ Append(s, e)[Len(s) + 1] = e
  OBVIOUS

\* A table has an entry for a beat after an append if it had one or was given one.
LEMMA HasAppend ==
  ASSUME NEW S, NEW s \in Seq(S), NEW e \in S, NEW a, NEW b
  PROVE  Has(Append(s, e), a, b) <=> Has(s, a, b) \/ (e.agent = a /\ e.beat = b)
<1> DEFINE t == Append(s, e)
<1>1. /\ DOMAIN t = DOMAIN s \cup {Len(s) + 1}
      /\ \A i \in DOMAIN s : t[i] = s[i]
      /\ t[Len(s) + 1] = e
  BY AppendFacts
<1> HIDE DEF t
<1> QED BY <1>1 DEF Has

\* The same of the memory of a failure.
LEMMA HasFailureAppend ==
  ASSUME NEW S, NEW s \in Seq(S), NEW e \in S, NEW a, NEW b
  PROVE  HasFailure(Append(s, e), a, b) <=>
           HasFailure(s, a, b) \/ (e.agent = a /\ e.beat = b /\ e.failure)
<1> DEFINE t == Append(s, e)
<1>1. /\ DOMAIN t = DOMAIN s \cup {Len(s) + 1}
      /\ \A i \in DOMAIN s : t[i] = s[i]
      /\ t[Len(s) + 1] = e
  BY AppendFacts
<1> HIDE DEF t
<1> QED BY <1>1 DEF HasFailure

\* An entry for a beat that had none leaves every beat at most one.
LEMMA OnceAppend ==
  ASSUME NEW S, NEW s \in Seq(S), NEW e \in S, OncePerBeat(s), ~Has(s, e.agent, e.beat)
  PROVE  OncePerBeat(Append(s, e))
<1> DEFINE t == Append(s, e)
<1>1. /\ DOMAIN t = DOMAIN s \cup {Len(s) + 1}
      /\ \A i \in DOMAIN s : t[i] = s[i]
      /\ t[Len(s) + 1] = e
  BY AppendFacts
<1> HIDE DEF t
<1> QED BY <1>1 DEF Has, OncePerBeat

\* A step that leaves the tables alone keeps what is stored.
LEMMA StoredFrame ==
  ASSUME Stored, prompts' <= 1, UNCHANGED <<operations, messages, memories, cards>>
  PROVE  Stored'
<1>0. /\ ledger' = ledger /\ completed' = completed /\ answers' = answers
      /\ messages' = messages /\ memories' = memories /\ cards' = cards
  BY DEF operations
<1>1. NothingIsDuplicated'
  BY <1>0 DEF Stored, NothingIsDuplicated, OncePerBeat
<1>2. CheckpointsAreBacked'
  <2> SUFFICES ASSUME NEW a \in Agents, NEW b \in Beats PROVE Backed(a, b)'
    BY DEF CheckpointsAreBacked
  <2>1. Backed(a, b)
    BY DEF Stored, CheckpointsAreBacked
  <2> QED BY <1>0, <2>1 DEF Backed, Settled
<1>3. InOrder'
  BY <1>0 DEF Stored, InOrder
<1>4. (\A op \in completed : Begun(op))'
  BY <1>0 DEF Stored, Begun
<1>5. FinishedIsWhole'
  BY <1>0 DEF Stored, FinishedIsWhole, Whole, Discarded
<1> QED BY <1>1, <1>2, <1>3, <1>4, <1>5 DEF Stored

\* begin_turn_operation: the row is there, the others stay, none is twice there.
LEMMA Claiming ==
  ASSUME TypeOK, NEW op \in Operations,
         ledger' = IF \E i \in DOMAIN ledger : ledger[i] = op THEN ledger ELSE Append(ledger, op)
  PROVE  /\ ledger' \in Seq(Operations)
         /\ \E i \in DOMAIN ledger' : ledger'[i] = op
         /\ \A o : Begun(o) => \E i \in DOMAIN ledger' : ledger'[i] = o
         /\ (\A i, k \in DOMAIN ledger : ledger[i] = ledger[k] => i = k) =>
              \A i, k \in DOMAIN ledger' : ledger'[i] = ledger'[k] => i = k
<1>1. ledger \in Seq(Operations)
  BY DEF TypeOK
<1>2. CASE Begun(op)
  BY <1>1, <1>2 DEF Begun
<1>3. CASE ~Begun(op)
  <2>1. ledger' = Append(ledger, op)
    BY <1>3 DEF Begun
  <2>2. /\ ledger' \in Seq(Operations)
        /\ DOMAIN ledger' = DOMAIN ledger \cup {Len(ledger) + 1}
        /\ \A i \in DOMAIN ledger : ledger'[i] = ledger[i]
        /\ ledger'[Len(ledger) + 1] = op
    BY <1>1, <2>1, AppendFacts
  <2> QED BY <1>3, <2>2 DEF Begun
<1> QED BY <1>2, <1>3

\* Claiming an operation keeps what is stored.
LEMMA StoredClaim ==
  ASSUME TypeOK, Stored, NEW op \in Operations,
         ledger' = IF \E i \in DOMAIN ledger : ledger[i] = op THEN ledger ELSE Append(ledger, op),
         UNCHANGED <<prompts, completed, answers, messages, memories, cards>>
  PROVE  Stored'
<1>0. /\ prompts' = prompts /\ completed' = completed /\ answers' = answers
      /\ messages' = messages /\ memories' = memories /\ cards' = cards
  OBVIOUS
<1>1. NothingIsDuplicated'
  BY <1>0, Claiming DEF Stored, NothingIsDuplicated, OncePerBeat
<1>2. CheckpointsAreBacked'
  <2> SUFFICES ASSUME NEW a \in Agents, NEW b \in Beats PROVE Backed(a, b)'
    BY DEF CheckpointsAreBacked
  <2>1. Backed(a, b)
    BY DEF Stored, CheckpointsAreBacked
  <2> QED BY <1>0, <2>1 DEF Backed, Settled
<1>3. InOrder'
  BY <1>0 DEF Stored, InOrder
<1>4. (\A o \in completed : Begun(o))'
  BY <1>0, Claiming DEF Stored, Begun
<1>5. FinishedIsWhole'
  BY <1>0 DEF Stored, FinishedIsWhole, Whole, Discarded
<1> QED BY <1>1, <1>2, <1>3, <1>4, <1>5 DEF Stored

\* The agent, the beat and its operations depend on the plan and the agents left.
LEMMA SamePlace ==
  ASSUME UNCHANGED <<plan, left, beat>>
  PROVE  /\ Speaker' = Speaker
         /\ Searching' <=> Searching
         /\ \A kind : Operation(kind)' = Operation(kind)
  BY DEF Speaker, Searching, Operation

-----------------------------------------------------------------------------
(* Who speaks.                                                             *)

\* A nonempty set of natural numbers has a least element.
LEMMA NaturalsHaveMinima ==
  ASSUME NEW S \in SUBSET Nat, S # {}
  PROVE  \E x \in S : \A y \in S : x <= y
<1> DEFINE R == {p \in Nat \X Nat : p[1] < p[2]}
<1>1. IsWellFoundedOn(R, Nat)
  BY NatLessThanWellFounded DEF OpToRel
<1>2. PICK x \in S : \A y \in S : <<y, x>> \notin R
  <2> HIDE DEF R
  <2> QED BY <1>1, WFMin
<1>3. \A y \in S : ~(y < x)
  BY <1>2
<1> QED BY <1>3

\* _speaker_order picks an agent of the set: the first of them,
LEMMA LeastIsIn ==
  ASSUME NEW S \in SUBSET Agents, S # {}
  PROVE  Least(S) \in S
<1>1. S \in SUBSET Nat
  BY AgentRoundAssumption DEF Agents
<1>2. \E a \in S : \A b \in S : a <= b
  BY <1>1, NaturalsHaveMinima, Zenon
<1> QED BY <1>2, Zenon DEF Least

\* the one whose lens fits best,
LEMMA BestFitIsIn ==
  ASSUME NEW S \in SUBSET Agents, S # {}
  PROVE  BestFit(S) \in S
<1> DEFINE Best(T, a) == a \in T /\ \A b \in T : Score[a] > Score[b] \/ (Score[a] = Score[b] /\ a <= b)
           Open == {n \in Nat : S \cap (1..n) # {} /\ ~ \E a \in S : Best(S \cap (1..n), a)}
<1>1. \A a \in S : Score[a] \in Nat /\ a \in 1..NumAgents /\ a \in Nat
  BY AgentRoundAssumption DEF Agents
<1>2. Open = {}
  <2>1. SUFFICES ASSUME Open # {} PROVE FALSE
    OBVIOUS
  <2>2. PICK n \in Open : \A m \in Open : n <= m
    <3>1. Open \in SUBSET Nat
      OBVIOUS
    <3> HIDE DEF Open
    <3> QED BY <2>1, <3>1, NaturalsHaveMinima, Zenon
  <2>3. n \in Nat /\ S \cap (1..n) # {} /\ ~ \E a \in S : Best(S \cap (1..n), a)
    OBVIOUS
  <2>4. n > 0 /\ n - 1 \in Nat /\ n \in 1..n
    BY <2>3
  <2>5. n - 1 \notin Open
    BY <2>2, <2>4
  <2>6. \A a \in S : a \in 1..n <=> a \in 1..(n-1) \/ a = n
    BY <1>1, <2>4
  <2>7. CASE S \cap (1..(n-1)) = {}
    <3>1. \A a \in S \cap (1..n) : a = n
      BY <2>6, <2>7
    <3>2. Best(S \cap (1..n), n)
      BY <2>3, <3>1, <1>1
    <3> QED BY <2>3, <3>2, <3>1
  <2>8. CASE S \cap (1..(n-1)) # {}
    <3>1. PICK a \in S : Best(S \cap (1..(n-1)), a)
      BY <2>5, <2>4, <2>8
    <3>2. CASE n \in S /\ Score[n] > Score[a]
      <4>1. Best(S \cap (1..n), n)
        BY <3>1, <3>2, <1>1, <2>6, <2>4
      <4> QED BY <4>1, <2>3, <3>2
    <3>3. CASE ~(n \in S /\ Score[n] > Score[a])
      <4>1. Best(S \cap (1..n), a)
        BY <3>1, <3>3, <1>1, <2>6, <2>4
      <4> QED BY <4>1, <2>3
    <3> QED BY <3>2, <3>3
  <2> QED BY <2>7, <2>8
<1>3. S \cap (1..NumAgents) = S /\ NumAgents \in Nat
  BY <1>1, AgentRoundAssumption
<1>4. PICK a \in S : Best(S, a)
  BY <1>2, <1>3
<1> QED BY <1>4, Zenon DEF BestFit

\* and so the first speaker is one of them.
LEMMA FirstSpeakerIsIn ==
  ASSUME TypeOK, NEW S \in SUBSET Agents, S # {}
  PROVE  FirstSpeaker(S) \in S
<1>1. CASE S \cap Named # {}
  <2>1. Least(S \cap Named) \in S
    BY <1>1, LeastIsIn
  <2> QED BY <1>1, <2>1 DEF FirstSpeaker
<1>2. CASE S \cap Named = {} /\ Scope = "lead"
  BY <1>2, BestFitIsIn DEF FirstSpeaker
<1>3. CASE S \cap Named = {} /\ Scope # "lead" /\ lastSpeaker \in S
  <2>1. NextAfter(lastSpeaker, S) \in S
    <3> DEFINE after == {b \in S : b > lastSpeaker}
    <3>1. after # {} => Least(after) \in S
      BY LeastIsIn
    <3>2. Least(S) \in S
      BY LeastIsIn
    <3> QED BY <3>1, <3>2 DEF NextAfter
  <2> QED BY <1>3, <2>1 DEF FirstSpeaker
<1>4. CASE S \cap Named = {} /\ Scope # "lead" /\ lastSpeaker \notin S
  <2>1. FirstSpeaker(S) = Least(S)
    BY <1>4 DEF FirstSpeaker
  <2> QED BY <2>1, LeastIsIn
<1> QED BY <1>1, <1>2, <1>3, <1>4

\* The agent that searches is one of them too, and only if a page could not be read.
LEMMA FallbackIsIn ==
  ASSUME NEW S \in SUBSET Agents, NEW first \in S \cup {None}, NEW failures,
         Searchers \subseteq Agents
  PROVE  /\ FallbackAgent(S, first, failures) \in S \cup {None}
         /\ failures # "searchable" => FallbackAgent(S, first, failures) = None
<1>1. S \cap Searchers # {} => Least(S \cap Searchers) \in S
  BY LeastIsIn
<1> QED BY <1>1 DEF FallbackAgent

\* The agent whose turn it is has not had it.
LEMMA SpeakerIsLeft ==
  ASSUME TypeOK, left # {}
  PROVE  Speaker \in left /\ Speaker \in Agents
  BY LeastIsIn, Zenon DEF TypeOK, Speaker

-----------------------------------------------------------------------------
(* One lemma for each action.                                              *)

\* Each stage but the storing ones begins by claiming its operation.
LEMMA BeginKeeps ==
  ASSUME IInv, NEW at, NEW kind, NEW next, BeginOperation(at, kind, next),
         <<at, kind, next>> \in
           {<<"ask", "provider_completion", "asking">>,
            <<"message_begin", "message_committed", "message_add">>,
            <<"memory_begin", "memory_committed", "memory_add">>,
            <<"beat_begin", "beat_finished", "beat_done">>,
            <<"agent_begin", "agent_finished", "agent_done">>},
         kind = "provider_completion" => Operation(kind) \notin completed
  PROVE  IInv'
<1>1. /\ step = at /\ step' = next /\ completed' = completed /\ answers' = answers
      /\ UNCHANGED <<turn, attempts, prompts, evidence, result>>
      /\ UNCHANGED <<messages, memories, cards, lastSpeaker>>
      /\ UNCHANGED <<plan, left, beat, completion, visible>>
  BY DEF BeginOperation, row, records, task
<1>2. /\ at \in {"ask", "message_begin", "memory_begin", "beat_begin", "agent_begin"}
      /\ kind \in Kinds /\ next \in Steps /\ next # "idle"
  BY DEF Kinds, Steps, BeatOperations
<1>3. Speaker \in Agents /\ Operation(kind) \in Operations
  BY <1>1, <1>2, SpeakerIsLeft DEF IInv, ControlInv, Working, MessageSteps, MemorySteps, TypeOK, Operation, Operations
<1>4. ledger' = IF \E i \in DOMAIN ledger : ledger[i] = Operation(kind) THEN ledger ELSE Append(ledger, Operation(kind))
  BY DEF BeginOperation, Claim
<1>5. Stored'
  BY <1>1, <1>3, <1>4, StoredClaim DEF IInv
<1>6. TypeOK'
  BY <1>1, <1>2, <1>3, <1>4, Claiming DEF IInv, TypeOK
<1>7. /\ \E i \in DOMAIN ledger' : ledger'[i] = Operation(kind)'
      /\ Speaker' = Speaker /\ (Searching' <=> Searching)
  BY <1>1, <1>3, <1>4, Claiming, SamePlace DEF IInv
<1>8. ControlInv'
  BY <1>1, <1>2 DEF IInv, ControlInv, FinishedAgents, Working, MessageSteps, MemorySteps
<1>9. ClaimInv'
  BY <1>1, <1>7 DEF ClaimInv, Begun
<1>10. PathInv' /\ AnswerInv' /\ StageInv' /\ EndInv'
  <2>1. PathInv'
    BY <1>1, <1>2, <1>7 DEF IInv, PathInv, Working, MessageSteps, MemorySteps
  <2>2. AnswerInv'
    <3>1. CASE next = "asking"
      <4>1. kind = "provider_completion" /\ answers[Speaker][beat] = None
        BY <1>3, <3>1 DEF IInv, TypeOK, Stored, CheckpointsAreBacked, Backed, Settled, Operation
      <4> QED BY <1>1, <1>7, <3>1, <4>1 DEF AnswerInv, MessageSteps, MemorySteps
    <3>2. CASE next # "asking"
      BY <1>1, <1>2, <1>7, <3>2 DEF IInv, AnswerInv, MessageSteps, MemorySteps
    <3> QED BY <3>1, <3>2
  <2>3. StageInv'
    BY <1>1, <1>2, <1>7 DEF IInv, StageInv, Settled, MemorySteps
  <2>4. EndInv'
    BY <1>1, <1>2, <1>7 DEF IInv, EndInv, Discarded
  <2> QED BY <2>1, <2>2, <2>3, <2>4
<1>11. VisibleInv'
  BY <1>1, <1>2, <1>7 DEF IInv, VisibleInv, CitedVisible, Working, MessageSteps, MemorySteps
<1>12. FirstInv'
  BY <1>1, <1>2, <1>7 DEF IInv, FirstInv, Unseen, Working, MessageSteps, MemorySteps
<1>13. ResultIsTranscript' /\ EvidenceIsBacked'
  BY <1>1 DEF IInv, ResultIsTranscript, EvidenceIsBacked
<1> QED BY <1>5, <1>6, <1>8, <1>9, <1>10, <1>11, <1>12, <1>13 DEF IInv
\* Settling an operation keeps what is stored, if its data is there.
LEMMA StoredSettle ==
  ASSUME Stored, NEW op \in Operations, completed' = completed \cup {op}, Begun(op),
         UNCHANGED <<prompts, ledger, answers, messages, memories, cards>>,
         op.kind # "provider_completion",
         op.kind = "message_committed" => Has(messages, op.agent, op.beat),
         op.kind = "memory_committed" =>
           /\ Has(memories, op.agent, op.beat)
           /\ Has(cards, op.agent, op.beat) \/ HasFailure(memories, op.agent, op.beat),
         op.kind = "beat_finished" => Settled(op.agent, op.beat, "memory_committed"),
         op.kind = "agent_finished" => Whole(op) \/ Discarded(op)
  PROVE  Stored'
<1>0. /\ prompts' = prompts /\ ledger' = ledger /\ answers' = answers
      /\ messages' = messages /\ memories' = memories /\ cards' = cards
  OBVIOUS
<1>1. NothingIsDuplicated'
  BY <1>0 DEF Stored, NothingIsDuplicated, OncePerBeat
<1>2. CheckpointsAreBacked'
  <2> SUFFICES ASSUME NEW a \in Agents, NEW b \in Beats PROVE Backed(a, b)'
    BY DEF CheckpointsAreBacked
  <2>1. Backed(a, b)
    BY DEF Stored, CheckpointsAreBacked
  <2>2. \A k : Settled(a, b, k)' <=> Settled(a, b, k) \/ [agent |-> a, beat |-> b, kind |-> k] = op
    BY DEF Settled
  <2>3. \A k : [agent |-> a, beat |-> b, kind |-> k] = op =>
                 op.agent = a /\ op.beat = b /\ op.kind = k
    OBVIOUS
  <2> QED BY <1>0, <2>1, <2>2, <2>3 DEF Backed
<1>3. InOrder'
  BY <1>0 DEF Stored, InOrder
<1>4. (\A o \in completed : Begun(o))'
  BY <1>0 DEF Stored, Begun
<1>5. FinishedIsWhole'
  BY <1>0 DEF Stored, FinishedIsWhole, Whole, Discarded
<1> QED BY <1>1, <1>2, <1>3, <1>4, <1>5 DEF Stored

\* Only settling an agent's last operation finishes an agent.
LEMMA Finishing ==
  ASSUME NEW op, completed' = completed \cup {op}
  PROVE  /\ op.kind # "agent_finished" => FinishedAgents' = FinishedAgents
         /\ op.kind = "agent_finished" => FinishedAgents' = FinishedAgents \cup {op.agent}
  BY DEF FinishedAgents

\* The stages of the message and of the memory are settled after they were stored.
LEMMA CompleteKeeps ==
  ASSUME IInv, NEW at, NEW kind, NEW next, CompleteOperation(at, kind, next),
         <<at, kind, next>> \in
           {<<"message_done", "message_committed", "memory_begin">>,
            <<"memory_done", "memory_committed", "beat_begin">>}
  PROVE  IInv'
<1>1. /\ step = at /\ step' = next /\ ledger' = ledger /\ answers' = answers
      /\ completed' = completed \cup {Operation(kind)}
      /\ UNCHANGED <<turn, attempts, prompts, evidence, result>>
      /\ UNCHANGED <<messages, memories, cards, lastSpeaker>>
      /\ UNCHANGED <<plan, left, beat, completion, visible>>
  BY DEF CompleteOperation, Settle, row, records, task
<1>2. /\ at \in {"message_done", "memory_done"}
      /\ kind \in Kinds /\ kind # "agent_finished" /\ next \in Steps /\ next # "idle"
  BY DEF Kinds, Steps, BeatOperations
<1>3. Speaker \in Agents /\ Operation(kind) \in Operations
  BY <1>1, <1>2, SpeakerIsLeft DEF IInv, ControlInv, Working, MessageSteps, MemorySteps, TypeOK, Operation, Operations
<1>4. /\ Operation(kind).agent = Speaker /\ Operation(kind).beat = beat
      /\ Operation(kind).kind = kind
  BY DEF Operation
<1>5. Stored'
  <2>1. Begun(Operation(kind))
    BY <1>1 DEF IInv, ClaimInv
  <2> QED BY <1>1, <1>3, <1>4, <2>1, StoredSettle DEF IInv, StageInv
<1>6. TypeOK'
  BY <1>1, <1>2, <1>3 DEF IInv, TypeOK
<1>7. Speaker' = Speaker /\ (Searching' <=> Searching)
  BY <1>1, SamePlace
<1>8. ControlInv'
  <2>1. FinishedAgents' = FinishedAgents
    BY <1>1, <1>2, <1>4, Finishing
  <2> QED BY <1>1, <1>2, <2>1 DEF IInv, ControlInv, Working, MessageSteps, MemorySteps
<1>9. ClaimInv'
  BY <1>1, <1>2 DEF ClaimInv
<1>10. PathInv' /\ AnswerInv' /\ StageInv' /\ EndInv'
  <2>1. PathInv'
    BY <1>1, <1>2, <1>7 DEF IInv, PathInv, Working, MessageSteps, MemorySteps
  <2>2. AnswerInv'
    BY <1>1, <1>2, <1>7 DEF IInv, AnswerInv, MessageSteps, MemorySteps
  <2>3. StageInv'
    BY <1>1, <1>2, <1>7 DEF IInv, StageInv, Settled, MemorySteps, Operation
  <2>4. EndInv'
    BY <1>1, <1>2, <1>7 DEF IInv, EndInv, Discarded
  <2> QED BY <2>1, <2>2, <2>3, <2>4
<1>11. VisibleInv'
  BY <1>1, <1>2, <1>7 DEF IInv, VisibleInv, CitedVisible, Working, MessageSteps, MemorySteps
<1>12. FirstInv'
  BY <1>1, <1>2, <1>7 DEF IInv, FirstInv, Unseen, Working, MessageSteps, MemorySteps
<1>13. ResultIsTranscript' /\ EvidenceIsBacked'
  BY <1>1 DEF IInv, ResultIsTranscript, EvidenceIsBacked
<1> QED BY <1>5, <1>6, <1>8, <1>9, <1>10, <1>11, <1>12, <1>13 DEF IInv

\* Whoever works on a beat is one of the agents left and not a finished one.
LEMMA WorkingFacts ==
  ASSUME IInv, step \in Working
  PROVE  /\ Speaker \in left /\ Speaker \in Agents /\ Speaker # None
         /\ beat \in Nat /\ 1 <= beat /\ beat <= MaxBeats /\ MaxBeats \in Nat
         /\ plan \in Plans /\ turn = "running" /\ step # "idle"
         /\ Speaker \notin FinishedAgents
<1>1. left # {} /\ TypeOK /\ step # "idle" /\ step # "evidence"
  BY DEF IInv, ControlInv, Working, MessageSteps, MemorySteps
<1>2. Speaker \in left /\ Speaker \in Agents
  BY <1>1, SpeakerIsLeft
<1>3. plan \in Plans /\ turn = "running" /\ left \cap FinishedAgents = {}
  BY <1>1 DEF IInv, ControlInv
<1> QED BY <1>1, <1>2, <1>3, RoundNoneAssumption, AgentRoundAssumption DEF TypeOK, Beats

\* A checkpointed answer is taken up again.
LEMMA RecoverKeeps ==
  ASSUME IInv, RecoverCompletion
  PROVE  IInv'
<1>1. /\ step = "ask" /\ Operation("provider_completion") \in completed
      /\ completion' = answers[Speaker][beat] /\ step' = AfterAnswer(completion')
      /\ UNCHANGED <<turn, attempts, prompts, evidence, result>>
      /\ UNCHANGED <<ledger, completed, answers>>
      /\ UNCHANGED <<messages, memories, cards, lastSpeaker>>
      /\ UNCHANGED <<plan, left, beat, visible>>
  BY DEF RecoverCompletion, row, operations, records
<1>2. step' \in {"agent_begin", "message_begin"}
  BY <1>1 DEF AfterAnswer
<1>3. /\ Speaker \in Agents /\ Speaker # None /\ beat \in Beats
      /\ answers[Speaker][beat] \in Completions \cup {None}
      /\ plan \in Plans
  BY <1>1, WorkingFacts DEF Working, IInv, TypeOK
<1>4. completion' # None
  BY <1>1, <1>3 DEF IInv, Stored, CheckpointsAreBacked, Backed, Settled, Operation
<1>5. Stored'
  BY <1>1, StoredFrame DEF IInv, operations, Stored, NothingIsDuplicated
<1>6. TypeOK'
  BY <1>1, <1>2, <1>3 DEF IInv, TypeOK, Steps
<1>7. Speaker' = Speaker /\ (Searching' <=> Searching)
  BY <1>1, SamePlace
<1>8. ControlInv'
  BY <1>1, <1>2 DEF IInv, ControlInv, Working, MessageSteps, MemorySteps, FinishedAgents
<1>9. ClaimInv'
  BY <1>1, <1>2 DEF ClaimInv
<1>10. PathInv'
  BY <1>1, <1>2, <1>7 DEF IInv, PathInv, Working, MessageSteps, MemorySteps
<1>11. AnswerInv'
  BY <1>1, <1>2, <1>4, <1>7 DEF IInv, AnswerInv, MessageSteps, MemorySteps, AfterAnswer, Uncited
<1>12. StageInv'
  BY <1>1, <1>2 DEF StageInv, MemorySteps
<1>13. EndInv'
  <2>1. Searching => UrlsGiven /\ beat = 1
    BY <1>1, <1>3 DEF IInv, ControlInv, Searching
  <2> QED BY <1>1, <1>4, <1>7, <2>1 DEF EndInv, AfterAnswer, Uncited, Discarded
<1>14. VisibleInv'
  BY <1>1, <1>2, <1>7 DEF IInv, VisibleInv, CitedVisible, Working, MessageSteps, MemorySteps
<1>15. FirstInv'
  BY <1>1, <1>2, <1>7 DEF IInv, FirstInv, Unseen, Working, MessageSteps, MemorySteps
<1>16. ResultIsTranscript' /\ EvidenceIsBacked'
  BY <1>1 DEF IInv, ResultIsTranscript, EvidenceIsBacked
<1> QED BY <1>5, <1>6, <1>8, <1>9, <1>10, <1>11, <1>12, <1>13, <1>14, <1>15, <1>16 DEF IInv

\* A provider failure leaves only a memory to be stored.
LEMMA FailKeeps ==
  ASSUME IInv, ProviderFails
  PROVE  IInv'
<1>1. /\ step = "asking" /\ completion' = None /\ step' = "memory_begin"
      /\ UNCHANGED <<turn, attempts, prompts, evidence, result>>
      /\ UNCHANGED <<ledger, completed, answers>>
      /\ UNCHANGED <<messages, memories, cards, lastSpeaker>>
      /\ UNCHANGED <<plan, left, beat, visible>>
  BY DEF ProviderFails, row, operations, records
<1>2. Speaker' = Speaker /\ (Searching' <=> Searching)
  BY <1>1, SamePlace
<1>3. Stored'
  BY <1>1, StoredFrame DEF IInv, operations, Stored, NothingIsDuplicated
<1>4. TypeOK'
  BY <1>1 DEF IInv, TypeOK, Steps
<1>5. ControlInv'
  BY <1>1 DEF IInv, ControlInv, Working, MessageSteps, MemorySteps, FinishedAgents
<1>6. ClaimInv'
  BY <1>1 DEF ClaimInv
<1>7. PathInv' /\ AnswerInv'
  BY <1>1, <1>2 DEF IInv, PathInv, AnswerInv, Working, MessageSteps, MemorySteps
<1>8. StageInv' /\ EndInv'
  BY <1>1 DEF StageInv, EndInv
<1>9. VisibleInv'
  BY <1>1, <1>2 DEF IInv, VisibleInv, CitedVisible, Working, MessageSteps, MemorySteps
<1>10. FirstInv'
  BY <1>1, <1>2 DEF IInv, FirstInv, Unseen, Working, MessageSteps, MemorySteps
<1>11. ResultIsTranscript' /\ EvidenceIsBacked'
  BY <1>1 DEF IInv, ResultIsTranscript, EvidenceIsBacked
<1> QED BY <1>3, <1>4, <1>5, <1>6, <1>7, <1>8, <1>9, <1>10, <1>11 DEF IInv

\* An answer is checkpointed: there was none for the beat, and no message of it.
LEMMA AnswerKeeps ==
  ASSUME IInv, ProviderAnswers
  PROVE  IInv'
<1>1. PICK answer \in Completions :
        /\ answer.search = Searching
        /\ answers' = [answers EXCEPT ![Speaker][beat] = answer]
        /\ completion' = answer /\ step' = AfterAnswer(answer)
  BY DEF ProviderAnswers
<1>2. /\ step = "asking" /\ completed' = completed \cup {Operation("provider_completion")}
      /\ UNCHANGED <<turn, attempts, prompts, evidence, result, ledger>>
      /\ UNCHANGED <<messages, memories, cards, lastSpeaker>>
      /\ UNCHANGED <<plan, left, beat, visible>>
  BY DEF ProviderAnswers, Settle, row, records
<1>3. step' \in {"agent_begin", "message_begin"}
  BY <1>1 DEF AfterAnswer
<1>4. /\ Speaker \in Agents /\ Speaker # None /\ beat \in Beats /\ plan \in Plans
      /\ answers \in [Agents -> [Beats -> Completions \cup {None}]]
      /\ answer # None /\ Speaker \notin FinishedAgents
  BY <1>1, <1>2, WorkingFacts, RoundNoneAssumption DEF Working, IInv, TypeOK
<1>5. /\ answers' \in [Agents -> [Beats -> Completions \cup {None}]]
      /\ answers'[Speaker][beat] = answer
      /\ \A a \in Agents, b \in Beats :
           a # Speaker \/ b # beat => answers'[a][b] = answers[a][b]
  BY <1>1, <1>4
<1>6. answers[Speaker][beat] = None
  BY <1>2 DEF IInv, AnswerInv
<1>7. Operation("provider_completion") \in Operations
  BY <1>4 DEF Operation, Operations, Kinds, BeatOperations
<1>8. /\ Speaker' = Speaker /\ (Searching' <=> Searching)
      /\ FinishedAgents' = FinishedAgents
  <2>1. Operation("provider_completion").kind # "agent_finished"
    BY DEF Operation
  <2> QED BY <1>2, <2>1, SamePlace, Finishing
<1>9. Stored'
  <2>1. NothingIsDuplicated'
    BY <1>2 DEF IInv, Stored, NothingIsDuplicated, OncePerBeat
  <2>2. CheckpointsAreBacked'
    <3> SUFFICES ASSUME NEW a \in Agents, NEW b \in Beats PROVE Backed(a, b)'
      BY DEF CheckpointsAreBacked
    <3>1. Backed(a, b)
      BY DEF IInv, Stored, CheckpointsAreBacked
    <3>2. \A k : Settled(a, b, k)' <=>
                   Settled(a, b, k) \/ (a = Speaker /\ b = beat /\ k = "provider_completion")
      BY <1>2 DEF Settled, Operation
    <3>3. CASE a = Speaker /\ b = beat
      <4>1. ~Has(messages, a, b)
        BY <1>6, <3>1, <3>3 DEF Backed
      <4>2. \A i \in DOMAIN messages : ~(messages[i].agent = a /\ messages[i].beat = b)
        BY <4>1 DEF Has
      <4> QED BY <1>2, <1>4, <1>5, <3>1, <3>2, <3>3, <4>1, <4>2 DEF Backed
    <3>4. CASE a # Speaker \/ b # beat
      BY <1>2, <1>5, <3>1, <3>2, <3>4 DEF Backed
    <3> QED BY <3>3, <3>4
  <2>3. InOrder'
    <3> SUFFICES ASSUME NEW a \in Agents, NEW b \in Beats, Has(messages, a, b), NEW c \in 1..(b - 1)
                 PROVE  Has(messages, a, c) /\ answers'[a][c] # None /\ answers'[a][c].continue
      BY <1>2 DEF InOrder
    <3>1. Has(messages, a, c) /\ answers[a][c] # None /\ answers[a][c].continue
      BY DEF IInv, Stored, InOrder
    <3>2. c \in Beats
      BY AgentRoundAssumption DEF Beats
    <3> QED BY <1>5, <1>6, <3>1, <3>2
  <2>4. (\A o \in completed : Begun(o))'
    BY <1>2 DEF IInv, Stored, Begun, ClaimInv
  <2>5. FinishedIsWhole'
    <3> SUFFICES ASSUME NEW op \in completed', op.kind = "agent_finished"
                 PROVE  (Whole(op) \/ Discarded(op))'
      BY DEF FinishedIsWhole
    <3>1. op \in completed /\ op \in Operations
      BY <1>2 DEF Operation, IInv, TypeOK
    <3>2. Whole(op) \/ Discarded(op)
      BY <3>1 DEF IInv, Stored, FinishedIsWhole
    <3>3. op.agent # Speaker /\ op.agent \in Agents /\ op.beat \in Beats
      BY <1>4, <3>1 DEF FinishedAgents, Operations
    <3> QED BY <1>2, <1>5, <3>1, <3>2, <3>3 DEF Whole, Discarded, Operations
  <2> QED BY <2>1, <2>2, <2>3, <2>4, <2>5 DEF Stored
<1>10. TypeOK'
  BY <1>1, <1>2, <1>3, <1>5, <1>7 DEF IInv, TypeOK, Steps
<1>11. ControlInv'
  BY <1>2, <1>3, <1>8 DEF IInv, ControlInv, Working, MessageSteps, MemorySteps
<1>12. ClaimInv'
  BY <1>3 DEF ClaimInv
<1>13. PathInv'
  <2> SUFFICES ASSUME NEW c \in 1..(beat - 1)
               PROVE  /\ Has(messages, Speaker, c) /\ Has(memories, Speaker, c)
                      /\ answers'[Speaker][c] # None /\ answers'[Speaker][c].continue
    BY <1>2, <1>8 DEF PathInv
  <2>1. /\ Has(messages, Speaker, c) /\ Has(memories, Speaker, c)
        /\ answers[Speaker][c] # None /\ answers[Speaker][c].continue
    BY <1>2 DEF IInv, PathInv, Working
  <2>2. c \in Beats /\ c # beat
    BY <1>4, AgentRoundAssumption DEF Beats
  <2> QED BY <1>4, <1>5, <2>1, <2>2
<1>14. AnswerInv'
  BY <1>1, <1>2, <1>3, <1>4, <1>5, <1>8 DEF AnswerInv, MessageSteps, MemorySteps, AfterAnswer, Uncited
<1>15. StageInv'
  BY <1>3 DEF StageInv, MemorySteps
<1>16. EndInv'
  <2>1. Searching => UrlsGiven /\ beat = 1
    BY <1>2, <1>4 DEF IInv, ControlInv, Searching
  <2> QED BY <1>1, <1>2, <1>4, <1>5, <1>8, <2>1 DEF EndInv, AfterAnswer, Uncited, Discarded
<1>17. VisibleInv'
  BY <1>2, <1>3, <1>8 DEF IInv, VisibleInv, CitedVisible, Working, MessageSteps, MemorySteps
<1>18. FirstInv'
  BY <1>2, <1>3, <1>8 DEF IInv, FirstInv, Unseen, Working, MessageSteps, MemorySteps
<1>19. ResultIsTranscript' /\ EvidenceIsBacked'
  BY <1>2 DEF IInv, ResultIsTranscript, EvidenceIsBacked
<1> QED BY <1>9, <1>10, <1>11, <1>12, <1>13, <1>14, <1>15, <1>16, <1>17, <1>18, <1>19 DEF IInv

\* The message is stored once, after those of the beats before it.
LEMMA AddMessageKeeps ==
  ASSUME IInv, AddMessage
  PROVE  IInv'
<1> DEFINE new == [agent |-> Speaker, beat |-> beat, answer |-> completion]
           old == Has(messages, Speaker, beat)
<1>1. /\ step = "message_add" /\ step' = "message_done"
      /\ UNCHANGED <<turn, attempts, prompts, evidence, result>>
      /\ UNCHANGED <<ledger, completed, answers, memories, cards>>
      /\ UNCHANGED <<plan, left, beat, completion, visible>>
  BY DEF AddMessage, row, operations, task
<1>2. IF old THEN messages' = messages /\ lastSpeaker' = lastSpeaker
             ELSE messages' = Append(messages, new) /\ lastSpeaker' = Speaker
  BY DEF AddMessage, Of, Has
<1>3. /\ Speaker \in left /\ Speaker \in Agents /\ beat \in Beats /\ plan \in Plans
      /\ Speaker \notin FinishedAgents /\ turn = "running"
      /\ completion \in Completions /\ completion = answers[Speaker][beat]
      /\ messages \in Seq(Messages) /\ visible \in Seq(Messages)
  BY <1>1, WorkingFacts DEF Working, MessageSteps, IInv, TypeOK, AnswerInv
<1>4. new \in Messages /\ new.agent = Speaker /\ new.beat = beat /\ new.answer = completion
  BY <1>3 DEF Messages
<1>5. /\ messages' \in Seq(Messages)
      /\ \A a, b : Has(messages', a, b) <=> Has(messages, a, b) \/ (a = Speaker /\ b = beat)
      /\ \A i \in DOMAIN messages : i \in DOMAIN messages' /\ messages'[i] = messages[i]
      /\ \A i \in DOMAIN messages' :
           (i \in DOMAIN messages /\ messages'[i] = messages[i]) \/ messages'[i] = new
  <2>1. CASE old
    BY <1>2, <1>3, <2>1
  <2>2. CASE ~old
    <3>1. messages' = Append(messages, new)
      BY <1>2, <2>2
    <3> HIDE DEF new
    <3>2. \A a, b : Has(Append(messages, new), a, b) <=>
                      Has(messages, a, b) \/ (new.agent = a /\ new.beat = b)
      BY <1>3, <1>4, HasAppend
    <3>3. /\ DOMAIN messages' = DOMAIN messages \cup {Len(messages) + 1}
          /\ messages' \in Seq(Messages)
          /\ \A i \in DOMAIN messages : messages'[i] = messages[i]
          /\ messages'[Len(messages) + 1] = new
      BY <1>3, <1>4, <3>1, AppendFacts
    <3> QED BY <1>4, <3>1, <3>2, <3>3
  <2> QED BY <2>1, <2>2
<1>6. Speaker' = Speaker /\ (Searching' <=> Searching)
  BY <1>1, SamePlace
<1>7. Stored'
  <2>1. NothingIsDuplicated'
    <3>1. OncePerBeat(messages)'
      <4>1. OncePerBeat(messages)
        BY DEF IInv, Stored, NothingIsDuplicated
      <4>2. ~old => OncePerBeat(Append(messages, new))
        <5> HIDE DEF new
        <5> QED BY <1>3, <1>4, <4>1, OnceAppend
      <4> QED BY <1>2, <4>1, <4>2
    <3> QED BY <1>1, <3>1 DEF IInv, Stored, NothingIsDuplicated
  <2>2. CheckpointsAreBacked'
    <3> SUFFICES ASSUME NEW a \in Agents, NEW b \in Beats PROVE Backed(a, b)'
      BY DEF CheckpointsAreBacked
    <3>1. Backed(a, b)
      BY DEF IInv, Stored, CheckpointsAreBacked
    <3>2. \A k : Settled(a, b, k)' <=> Settled(a, b, k)
      BY <1>1 DEF Settled
    <3>3. answers[Speaker][beat] # None
      BY <1>3, RoundNoneAssumption
    <3>4. \A i \in DOMAIN messages' : messages'[i].agent = a /\ messages'[i].beat = b
                                      => messages'[i].answer = answers[a][b]
      <4> HIDE DEF new
      <4> QED BY <1>3, <1>4, <1>5, <3>1 DEF Backed
    <3> QED BY <1>1, <1>5, <3>1, <3>2, <3>3, <3>4 DEF Backed
  <2>3. InOrder'
    <3> SUFFICES ASSUME NEW a \in Agents, NEW b \in Beats, Has(messages', a, b), NEW c \in 1..(b - 1)
                 PROVE  Has(messages', a, c) /\ answers[a][c] # None /\ answers[a][c].continue
      BY <1>1 DEF InOrder
    <3>1. CASE Has(messages, a, b)
      BY <1>5, <3>1 DEF IInv, Stored, InOrder
    <3>2. CASE a = Speaker /\ b = beat
      BY <1>1, <1>5, <3>2 DEF IInv, PathInv, Working, MessageSteps
    <3> QED BY <1>5, <3>1, <3>2
  <2>4. (\A o \in completed : Begun(o))'
    BY <1>1 DEF IInv, Stored, Begun
  <2>5. FinishedIsWhole'
    <3> SUFFICES ASSUME NEW op \in completed, op.kind = "agent_finished"
                 PROVE  (Whole(op) \/ Discarded(op))'
      BY <1>1 DEF FinishedIsWhole
    <3>1. Whole(op) \/ Discarded(op)
      BY DEF IInv, Stored, FinishedIsWhole
    <3>2. op.agent # Speaker
      BY <1>3 DEF FinishedAgents
    <3> QED BY <1>1, <1>5, <3>1, <3>2 DEF Whole, Discarded
  <2> QED BY <2>1, <2>2, <2>3, <2>4, <2>5 DEF Stored
<1>8. TypeOK'
  BY <1>1, <1>2, <1>3, <1>5 DEF IInv, TypeOK, Steps
<1>9. ControlInv'
  BY <1>1, <1>3 DEF IInv, ControlInv, Working, MessageSteps, MemorySteps, FinishedAgents
<1>10. ClaimInv'
  BY <1>1, <1>6 DEF IInv, ClaimInv, Begun, Operation
<1>11. PathInv'
  BY <1>1, <1>5, <1>6 DEF IInv, PathInv, Working, MessageSteps, MemorySteps
<1>12. AnswerInv'
  BY <1>1, <1>6 DEF IInv, AnswerInv, MessageSteps, MemorySteps
<1>13. StageInv' /\ EndInv'
  BY <1>1, <1>5, <1>6 DEF StageInv, EndInv, MemorySteps
<1>14. VisibleInv'
  BY <1>1, <1>5, <1>6 DEF IInv, VisibleInv, CitedVisible, Working, MessageSteps, MemorySteps
<1>15. FirstInv'
  <2> SUFFICES ASSUME ~plan.resumed
               PROVE  /\ messages' = visible \o Unseen'
                      /\ \A i \in DOMAIN messages' : messages'[i].agent \in left =>
                           messages'[i].agent = Speaker /\ (messages'[i].beat < beat \/ messages'[i].beat = beat)
    BY <1>1, <1>6 DEF FirstInv
  <2>1. /\ messages = visible \o Unseen
        /\ \A i \in DOMAIN messages : messages[i].agent \in left =>
             messages[i].agent = Speaker /\ messages[i].beat < beat
    BY <1>1 DEF IInv, FirstInv, Working, MessageSteps, MemorySteps
  <2>2. messages = visible
    BY <1>1, <1>3, <2>1 DEF Unseen, MemorySteps
  <2>3. ~old
    BY <1>3, <2>1 DEF Has, Beats
  <2>4. messages' = Append(visible, new)
    BY <1>2, <2>2, <2>3
  <2>5. Unseen' = <<new>>
    BY <1>1, <1>3, <1>6, RoundNoneAssumption DEF Unseen
  <2>6. Append(visible, new) = visible \o <<new>>
    <3> HIDE DEF new
    <3>1. visible \in Seq(Messages) /\ new \in Messages
      BY <1>3, <1>4
    <3> QED BY ONLY <3>1
  <2> HIDE DEF new
  <2> QED BY <1>4, <1>5, <2>1, <2>4, <2>5, <2>6
<1>16. ResultIsTranscript' /\ EvidenceIsBacked'
  BY <1>1, <1>3, <1>5 DEF IInv, ResultIsTranscript, EvidenceIsBacked
<1> QED BY <1>7, <1>8, <1>9, <1>10, <1>11, <1>12, <1>13, <1>14, <1>15, <1>16 DEF IInv

\* The memory event is stored once; without an answer it is one of a failure.
LEMMA AddMemoryKeeps ==
  ASSUME IInv, AddMemory
  PROVE  IInv'
<1> DEFINE new == [agent |-> Speaker, beat |-> beat, failure |-> completion = None]
           old == Has(memories, Speaker, beat)
<1>1. /\ step = "memory_add" /\ step' = IF completion = None THEN "memory_done" ELSE "card_add"
      /\ UNCHANGED <<turn, attempts, prompts, evidence, result>>
      /\ UNCHANGED <<ledger, completed, answers, messages, cards, lastSpeaker>>
      /\ UNCHANGED <<plan, left, beat, completion, visible>>
  BY DEF AddMemory, row, operations, task
<1>2. memories' = IF old THEN memories ELSE Append(memories, new)
  BY DEF AddMemory, Of, Has
<1>3. /\ Speaker \in left /\ Speaker \in Agents /\ beat \in Beats /\ plan \in Plans
      /\ turn = "running" /\ completion = answers[Speaker][beat]
      /\ memories \in Seq(Memories)
  BY <1>1, WorkingFacts DEF Working, MemorySteps, IInv, TypeOK, AnswerInv
<1>4. new \in Memories /\ new.agent = Speaker /\ new.beat = beat /\ (new.failure <=> completion = None)
  BY <1>3 DEF Memories
<1>5. /\ memories' \in Seq(Memories)
      /\ \A a, b : Has(memories', a, b) <=> Has(memories, a, b) \/ (a = Speaker /\ b = beat)
      /\ \A a, b : HasFailure(memories', a, b) <=>
           HasFailure(memories, a, b) \/ (~old /\ a = Speaker /\ b = beat /\ completion = None)
  <2>1. CASE old
    BY <1>2, <1>3, <2>1
  <2>2. CASE ~old
    <3>1. memories' = Append(memories, new)
      BY <1>2, <2>2
    <3> HIDE DEF new
    <3>2. \A a, b : Has(Append(memories, new), a, b) <=>
                      Has(memories, a, b) \/ (new.agent = a /\ new.beat = b)
      BY <1>3, <1>4, HasAppend
    <3>3. \A a, b : HasFailure(Append(memories, new), a, b) <=>
                      HasFailure(memories, a, b) \/ (new.agent = a /\ new.beat = b /\ new.failure)
      BY <1>3, <1>4, HasFailureAppend
    <3>4. memories' \in Seq(Memories)
      BY <1>3, <1>4, <3>1, AppendFacts
    <3> QED BY <1>4, <2>2, <3>1, <3>2, <3>3, <3>4
  <2> QED BY <2>1, <2>2
<1>6. /\ Speaker' = Speaker /\ (Searching' <=> Searching)
      /\ step' \in {"card_add", "memory_done"}
  BY <1>1, SamePlace
<1>7. Backed(Speaker, beat)
  BY <1>3 DEF IInv, Stored, CheckpointsAreBacked
<1>8. Stored'
  <2>1. NothingIsDuplicated'
    <3>1. OncePerBeat(memories)'
      <4>1. OncePerBeat(memories)
        BY DEF IInv, Stored, NothingIsDuplicated
      <4>2. ~old => OncePerBeat(Append(memories, new))
        <5> HIDE DEF new
        <5> QED BY <1>3, <1>4, <4>1, OnceAppend
      <4> QED BY <1>2, <4>1, <4>2
    <3> QED BY <1>1, <3>1 DEF IInv, Stored, NothingIsDuplicated
  <2>2. CheckpointsAreBacked'
    <3> SUFFICES ASSUME NEW a \in Agents, NEW b \in Beats PROVE Backed(a, b)'
      BY DEF CheckpointsAreBacked
    <3>1. Backed(a, b)
      BY DEF IInv, Stored, CheckpointsAreBacked
    <3>2. \A k : Settled(a, b, k)' <=> Settled(a, b, k)
      BY <1>1 DEF Settled
    <3>3. completion # None => Settled(Speaker, beat, "message_committed")
      BY <1>1 DEF IInv, StageInv, MemorySteps
    <3>4. Has(memories', a, b) => Settled(a, b, "message_committed") \/ HasFailure(memories', a, b)
      BY <1>5, <3>1, <3>3 DEF Backed
    <3> QED BY <1>1, <1>5, <3>1, <3>2, <3>4 DEF Backed
  <2>3. InOrder'
    BY <1>1 DEF IInv, Stored, InOrder
  <2>4. (\A o \in completed : Begun(o))'
    BY <1>1 DEF IInv, Stored, Begun
  <2>5. FinishedIsWhole'
    BY <1>1, <1>5 DEF IInv, Stored, FinishedIsWhole, Whole, Discarded
  <2> QED BY <2>1, <2>2, <2>3, <2>4, <2>5 DEF Stored
<1>9. TypeOK'
  BY <1>1, <1>5 DEF IInv, TypeOK, Steps
<1>10. ControlInv'
  BY <1>1, <1>3, <1>6 DEF IInv, ControlInv, Working, MessageSteps, MemorySteps, FinishedAgents
<1>11. ClaimInv'
  BY <1>1, <1>6 DEF IInv, ClaimInv, Begun, Operation
<1>12. PathInv'
  BY <1>1, <1>5, <1>6 DEF IInv, PathInv, Working, MessageSteps, MemorySteps
<1>13. AnswerInv'
  BY <1>1, <1>6 DEF IInv, AnswerInv, MessageSteps, MemorySteps
<1>14. StageInv'
  <2>1. completion = None => HasFailure(memories', Speaker, beat)
    BY <1>3, <1>5, <1>7 DEF Backed
  <2>2. step \in MemorySteps /\ completion # None => Settled(Speaker, beat, "message_committed")
    BY DEF IInv, StageInv
  <2> QED BY <1>1, <1>5, <1>6, <2>1, <2>2 DEF StageInv, Settled, MemorySteps
<1>15. EndInv'
  BY <1>6 DEF EndInv
<1>16. VisibleInv'
  BY <1>1, <1>6 DEF IInv, VisibleInv, CitedVisible, Working, MessageSteps, MemorySteps
<1>17. FirstInv'
  BY <1>1, <1>6 DEF IInv, FirstInv, Unseen, Working, MessageSteps, MemorySteps
<1>18. ResultIsTranscript' /\ EvidenceIsBacked'
  BY <1>1 DEF IInv, ResultIsTranscript, EvidenceIsBacked
<1> QED BY <1>8, <1>9, <1>10, <1>11, <1>12, <1>13, <1>14, <1>15, <1>16, <1>17, <1>18 DEF IInv

\* The card is a copy of the beat's memory, stored once.
LEMMA AddCardKeeps ==
  ASSUME IInv, AddGlobalMemory
  PROVE  IInv'
<1> DEFINE old == Has(cards, Speaker, beat)
<1>1. /\ step = "card_add" /\ step' = "memory_done"
      /\ UNCHANGED <<turn, attempts, prompts, evidence, result>>
      /\ UNCHANGED <<ledger, completed, answers, messages, memories, lastSpeaker>>
      /\ UNCHANGED <<plan, left, beat, completion, visible>>
  BY DEF AddGlobalMemory, row, operations, task
<1>2. PICK i \in DOMAIN memories :
        /\ memories[i].agent = Speaker /\ memories[i].beat = beat
        /\ cards' = IF old THEN cards ELSE Append(cards, memories[i])
  BY DEF AddGlobalMemory, Of, Has
<1>3. /\ memories[i] \in Memories /\ cards \in Seq(Memories)
      /\ Speaker \in Agents /\ beat \in Beats /\ plan \in Plans /\ turn = "running"
  BY <1>1, <1>2, WorkingFacts DEF IInv, TypeOK, Working, MemorySteps
<1>4. /\ cards' \in Seq(Memories)
      /\ \A a, b : Has(cards', a, b) <=> Has(cards, a, b) \/ (a = Speaker /\ b = beat)
  <2>1. CASE old
    BY <1>2, <1>3, <2>1
  <2>2. CASE ~old
    <3>1. cards' = Append(cards, memories[i])
      BY <1>2, <2>2
    <3>2. \A a, b : Has(Append(cards, memories[i]), a, b) <=>
                      Has(cards, a, b) \/ (memories[i].agent = a /\ memories[i].beat = b)
      BY <1>3, HasAppend
    <3>3. cards' \in Seq(Memories)
      BY <1>3, <3>1, AppendFacts
    <3> QED BY <1>2, <3>1, <3>2, <3>3
  <2> QED BY <2>1, <2>2
<1>5. Speaker' = Speaker /\ (Searching' <=> Searching)
  BY <1>1, SamePlace
<1>6. Stored'
  <2>1. NothingIsDuplicated'
    <3>1. OncePerBeat(cards)'
      <4>1. OncePerBeat(cards)
        BY DEF IInv, Stored, NothingIsDuplicated
      <4>2. ~old => OncePerBeat(Append(cards, memories[i]))
        BY <1>2, <1>3, <4>1, OnceAppend
      <4> QED BY <1>2, <4>1, <4>2
    <3> QED BY <1>1, <3>1 DEF IInv, Stored, NothingIsDuplicated
  <2>2. CheckpointsAreBacked'
    <3> SUFFICES ASSUME NEW a \in Agents, NEW b \in Beats PROVE Backed(a, b)'
      BY DEF CheckpointsAreBacked
    <3>1. Backed(a, b)
      BY DEF IInv, Stored, CheckpointsAreBacked
    <3>2. \A k : Settled(a, b, k)' <=> Settled(a, b, k)
      BY <1>1 DEF Settled
    <3> QED BY <1>1, <1>4, <3>1, <3>2 DEF Backed
  <2>3. InOrder'
    BY <1>1 DEF IInv, Stored, InOrder
  <2>4. (\A o \in completed : Begun(o))'
    BY <1>1 DEF IInv, Stored, Begun
  <2>5. FinishedIsWhole'
    BY <1>1 DEF IInv, Stored, FinishedIsWhole, Whole, Discarded
  <2> QED BY <2>1, <2>2, <2>3, <2>4, <2>5 DEF Stored
<1>7. TypeOK'
  BY <1>1, <1>4 DEF IInv, TypeOK, Steps
<1>8. ControlInv'
  BY <1>1, <1>3 DEF IInv, ControlInv, Working, MessageSteps, MemorySteps, FinishedAgents
<1>9. ClaimInv'
  BY <1>1, <1>5 DEF IInv, ClaimInv, Begun, Operation
<1>10. PathInv'
  BY <1>1, <1>5 DEF IInv, PathInv, Working, MessageSteps, MemorySteps
<1>11. AnswerInv'
  BY <1>1, <1>5 DEF IInv, AnswerInv, MessageSteps, MemorySteps
<1>12. StageInv'
  BY <1>1, <1>4, <1>5 DEF IInv, StageInv, Settled, MemorySteps
<1>13. EndInv'
  BY <1>1 DEF EndInv
<1>14. VisibleInv'
  BY <1>1, <1>5 DEF IInv, VisibleInv, CitedVisible, Working, MessageSteps, MemorySteps
<1>15. FirstInv'
  BY <1>1, <1>5 DEF IInv, FirstInv, Unseen, Working, MessageSteps, MemorySteps
<1>16. ResultIsTranscript' /\ EvidenceIsBacked'
  BY <1>1 DEF IInv, ResultIsTranscript, EvidenceIsBacked
<1> QED BY <1>6, <1>7, <1>8, <1>9, <1>10, <1>11, <1>12, <1>13, <1>14, <1>15, <1>16 DEF IInv

\* The response becomes visible; the agent goes on to a beat it asked for.
LEMMA FinishBeatKeeps ==
  ASSUME IInv, FinishBeat
  PROVE  IInv'
<1> DEFINE entry == [agent |-> Speaker, beat |-> beat, answer |-> completion]
           goesOn == completion # None /\ completion.continue /\ beat < MaxBeats
<1>1. /\ step = "beat_done"
      /\ completed' = completed \cup {Operation("beat_finished")}
      /\ IF goesOn THEN step' = "ask" /\ beat' = beat + 1
                   ELSE step' = "agent_begin" /\ beat' = beat
      /\ UNCHANGED <<turn, attempts, prompts, evidence, result, ledger, answers>>
      /\ UNCHANGED <<messages, memories, cards, lastSpeaker>>
      /\ UNCHANGED <<plan, left, completion>>
  BY DEF FinishBeat, Settle, row, records
<1>2. /\ Speaker \in left /\ Speaker \in Agents /\ Speaker # None
      /\ beat \in Beats /\ plan \in Plans /\ turn = "running"
      /\ completion = answers[Speaker][beat] /\ completion \in Completions \cup {None}
      /\ messages \in Seq(Messages) /\ visible \in Seq(Messages)
  BY <1>1, WorkingFacts DEF Working, MemorySteps, IInv, TypeOK, AnswerInv
<1>3. Backed(Speaker, beat)
  BY <1>2 DEF IInv, Stored, CheckpointsAreBacked
<1>4. /\ Has(memories, Speaker, beat)
      /\ completion # None => Has(messages, Speaker, beat)
  BY <1>1, <1>3 DEF IInv, StageInv, Backed, MemorySteps
<1>5. /\ completion = None => visible' = visible
      /\ completion # None =>
           /\ entry \in Messages /\ visible' = Append(visible, entry)
           /\ \E k \in DOMAIN messages : messages[k] = entry
  <2>1. CASE completion = None
    BY <2>1 DEF FinishBeat
  <2>2. CASE completion # None
    <3> DEFINE m == CHOOSE x \in {messages[i] : i \in DOMAIN messages} : Of(x)
    <3>1. \E x \in {messages[i] : i \in DOMAIN messages} : Of(x)
      BY <1>4, <2>2 DEF Has, Of
    <3>2. m \in {messages[i] : i \in DOMAIN messages} /\ Of(m)
      BY <3>1, Zenon
    <3>3. visible' = Append(visible, m)
      BY <2>2 DEF FinishBeat
    <3> HIDE DEF m
    <3>4. PICK k \in DOMAIN messages : m = messages[k]
      BY <3>2
    <3>5. m \in Messages /\ m.agent = Speaker /\ m.beat = beat /\ m.answer = completion
      BY <1>2, <1>3, <3>2, <3>4 DEF Of, Backed
    <3>6. m = entry
      BY <3>5 DEF Messages
    <3> QED BY <2>2, <3>3, <3>4, <3>5, <3>6
  <2> QED BY <2>1, <2>2
<1>6. /\ visible' \in Seq(Messages)
      /\ \A i \in DOMAIN visible : i \in DOMAIN visible' /\ visible'[i] = visible[i]
      /\ completion # None => \E i \in DOMAIN visible' : visible'[i] = entry
      /\ \A i \in DOMAIN visible' :
           (i \in DOMAIN visible /\ visible'[i] = visible[i]) \/ (completion # None /\ visible'[i] = entry)
  <2> HIDE DEF entry
  <2>1. CASE completion = None
    BY <1>2, <1>5, <2>1
  <2>2. CASE completion # None
    <3>1. visible' = Append(visible, entry) /\ entry \in Messages
      BY <1>5, <2>2
    <3>2. /\ visible' \in Seq(Messages)
          /\ DOMAIN visible' = DOMAIN visible \cup {Len(visible) + 1}
          /\ \A i \in DOMAIN visible : visible'[i] = visible[i]
          /\ visible'[Len(visible) + 1] = entry
      BY <1>2, <3>1, AppendFacts
    <3> QED BY <2>2, <3>2
  <2> QED BY <2>1, <2>2
<1>7. /\ entry.agent = Speaker /\ entry.beat = beat /\ entry.answer = completion
  OBVIOUS
<1>8. /\ Speaker' = Speaker /\ FinishedAgents' = FinishedAgents
      /\ step' \in {"ask", "agent_begin"}
  <2>1. Operation("beat_finished").kind # "agent_finished"
    BY DEF Operation
  <2> QED BY <1>1, <2>1, Finishing DEF Speaker
<1>9. beat' \in Beats /\ beat \in Nat
  BY <1>1, <1>2, AgentRoundAssumption DEF Beats
<1>10. Operation("beat_finished") \in Operations
  BY <1>2 DEF Operation, Operations, Kinds, BeatOperations
<1>11. Stored'
  <2>1. /\ Operation("beat_finished").agent = Speaker /\ Operation("beat_finished").beat = beat
        /\ Operation("beat_finished").kind = "beat_finished"
    BY DEF Operation
  <2>2. Begun(Operation("beat_finished")) /\ Settled(Speaker, beat, "memory_committed")
    BY <1>1 DEF IInv, ClaimInv, StageInv
  <2> QED BY <1>1, <1>10, <2>1, <2>2, StoredSettle DEF IInv
<1>12. TypeOK'
  BY <1>1, <1>6, <1>8, <1>9, <1>10 DEF IInv, TypeOK, Steps
<1>13. ControlInv'
  BY <1>1, <1>2, <1>8 DEF IInv, ControlInv, Working, MessageSteps, MemorySteps
<1>14. ClaimInv'
  BY <1>8 DEF ClaimInv
<1>15. PathInv'
  <2> SUFFICES ASSUME NEW c \in 1..(beat' - 1)
               PROVE  /\ Has(messages, Speaker, c) /\ Has(memories, Speaker, c)
                      /\ answers[Speaker][c] # None /\ answers[Speaker][c].continue
    BY <1>1, <1>8 DEF PathInv
  <2>1. CASE c \in 1..(beat - 1)
    BY <1>1, <2>1 DEF IInv, PathInv, Working, MemorySteps
  <2>2. CASE c = beat /\ goesOn
    BY <1>2, <1>4, <2>2
  <2> QED BY <1>1, <1>9, <2>1, <2>2
<1>16. AnswerInv' /\ StageInv'
  BY <1>8 DEF AnswerInv, StageInv, MessageSteps, MemorySteps
<1>17. EndInv'
  <2>1. ~goesOn => beat = MaxBeats \/ completion = None \/ ~completion.continue
    BY <1>2, AgentRoundAssumption DEF Beats
  <2> QED BY <1>1, <1>2, <1>4, <1>8, <2>1 DEF EndInv
<1>18. VisibleInv'
  <2>1. /\ \A i \in DOMAIN visible : \E k \in DOMAIN messages : messages[k] = visible[i]
        /\ \A i \in DOMAIN visible : visible[i].agent = plan.fallback => CitedVisible
        /\ Speaker = plan.fallback /\ beat > 1 => CitedVisible
        /\ plan.failures /\ ~plan.sources => plan.fallback \in left \/ CitedVisible
    BY <1>1 DEF IInv, VisibleInv, Working, MemorySteps
  <2>2. CitedVisible => CitedVisible'
    BY <1>1, <1>6 DEF CitedVisible
  <2>3. Speaker = plan.fallback /\ completion # None => CitedVisible'
    <3>1. CASE beat > 1
      BY <2>1, <2>2, <3>1
    <3>2. CASE Speaker = plan.fallback /\ completion # None /\ beat = 1
      <4>1. completion.cited
        BY <1>1, <3>2 DEF IInv, AnswerInv, Searching, MemorySteps
      <4> QED BY <1>1, <1>6, <1>7, <3>2, <4>1 DEF CitedVisible
    <3> QED BY <1>2, <3>1, <3>2 DEF Beats
  <2>4. \A i \in DOMAIN visible' : \E k \in DOMAIN messages : messages[k] = visible'[i]
    BY <1>5, <1>6, <2>1
  <2>5. \A i \in DOMAIN visible' : visible'[i].agent = plan.fallback => CitedVisible'
    BY <1>6, <1>7, <2>1, <2>2, <2>3
  <2>6. Speaker = plan.fallback /\ beat' > 1 => CitedVisible'
    BY <1>1, <1>9, <2>1, <2>2, <2>3
  <2> QED BY <1>1, <1>8, <2>1, <2>2, <2>4, <2>5, <2>6 DEF VisibleInv
<1>19. FirstInv'
  <2> SUFFICES ASSUME ~plan.resumed
               PROVE  /\ messages = visible' \o <<>>
                      /\ \A i \in DOMAIN messages : messages[i].agent \in left =>
                           /\ messages[i].agent = Speaker
                           /\ step' = "ask" => messages[i].beat < beat'
    BY <1>1, <1>8 DEF FirstInv, Unseen, MemorySteps
  <2>1. /\ messages = visible \o Unseen
        /\ \A i \in DOMAIN messages : messages[i].agent \in left =>
             messages[i].agent = Speaker /\ (messages[i].beat < beat \/ messages[i].beat = beat)
    BY <1>1 DEF IInv, FirstInv, Working, MessageSteps, MemorySteps
  <2>2. messages = visible'
    <3>1. CASE completion = None
      BY <1>2, <1>5, <2>1, <3>1 DEF Unseen
    <3>2. CASE completion # None
      <4>1. Unseen = <<entry>>
        BY <1>1, <3>2 DEF Unseen, MemorySteps
      <4>2. entry \in Messages /\ visible' = Append(visible, entry)
        BY <1>5, <3>2
      <4> HIDE DEF entry
      <4>3. Append(visible, entry) = visible \o <<entry>>
        BY <1>2, <4>2
      <4> QED BY <2>1, <4>1, <4>2, <4>3
    <3> QED BY <3>1, <3>2
  <2>3. \A i \in DOMAIN messages : messages[i].beat \in Nat
    <3>1. \A i \in DOMAIN messages : messages[i] \in Messages
      BY <1>2
    <3> QED BY <3>1, AgentRoundAssumption DEF Messages, Beats
  <2> QED BY <1>1, <1>2, <1>9, <2>1, <2>2, <2>3
<1>20. ResultIsTranscript' /\ EvidenceIsBacked'
  BY <1>1 DEF IInv, ResultIsTranscript, EvidenceIsBacked
<1> QED BY <1>11, <1>12, <1>13, <1>14, <1>15, <1>16, <1>17, <1>18, <1>19, <1>20 DEF IInv

\* Nothing of the agent is left out when it finishes.
LEMMA FinishAgentKeeps ==
  ASSUME IInv, FinishAgent
  PROVE  IInv'
<1> DEFINE searched == Speaker = plan.fallback
<1>1. /\ step = "agent_done"
      /\ completed' = completed \cup {Operation("agent_finished")}
      /\ UNCHANGED <<turn, attempts, prompts, evidence, result, ledger, answers>>
      /\ UNCHANGED <<messages, memories, cards, lastSpeaker>>
      /\ UNCHANGED <<plan, completion, visible>>
  BY DEF FinishAgent, Settle, row, records
<1>2. /\ searched => step' = "evidence" /\ left' = left /\ beat' = beat
      /\ ~searched =>
           /\ left' = left \ {Speaker} /\ beat' = 1
           /\ step' = IF left' = {} THEN "close" ELSE "ask"
  BY DEF FinishAgent, Proceed
<1>3. /\ Speaker \in left /\ Speaker \in Agents /\ Speaker # None
      /\ beat \in Beats /\ plan \in Plans /\ turn = "running" /\ left \subseteq Agents
      /\ messages \in Seq(Messages) /\ visible \in Seq(Messages)
      /\ MaxBeats \in Nat /\ 1 \in Beats
  BY <1>1, WorkingFacts, AgentRoundAssumption DEF Working, IInv, TypeOK, Beats
<1>4. /\ Operation("agent_finished").agent = Speaker /\ Operation("agent_finished").beat = beat
      /\ Operation("agent_finished").kind = "agent_finished"
      /\ Operation("agent_finished") \in Operations
  BY <1>3 DEF Operation, Operations, Kinds
<1>5. /\ FinishedAgents' = FinishedAgents \cup {Speaker}
      /\ step' \in {"evidence", "close", "ask"} /\ left' \subseteq left
  BY <1>1, <1>2, <1>4, Finishing
<1>6. Stored'
  <2>1. Begun(Operation("agent_finished"))
    BY <1>1 DEF IInv, ClaimInv
  <2>2. CASE Discarded([agent |-> Speaker, beat |-> beat])
    <3>1. Discarded(Operation("agent_finished"))
      BY <1>4, <2>2 DEF Discarded
    <3> QED BY <1>1, <1>4, <2>1, <3>1, StoredSettle DEF IInv
  <2>3. CASE ~Discarded([agent |-> Speaker, beat |-> beat])
    <3>1. \A c \in 1..(beat - 1) : Has(memories, Speaker, c)
      BY <1>1 DEF IInv, PathInv, Working
    <3>2. /\ Has(memories, Speaker, beat)
          /\ beat = MaxBeats \/ answers[Speaker][beat] = None \/ ~answers[Speaker][beat].continue
      BY <1>1, <2>3 DEF IInv, EndInv
    <3>3. \A b \in 1..beat : Has(memories, Speaker, b)
      BY <1>3, <3>1, <3>2 DEF Beats
    <3>4. ASSUME NEW b \in Beats, Has(messages, Speaker, b) PROVE b \in 1..beat
      <4>1. CASE b > beat
        <5>1. answers[Speaker][beat] # None /\ answers[Speaker][beat].continue
          BY <1>3, <3>4, <4>1 DEF IInv, Stored, InOrder, Beats
        <5> QED BY <1>3, <3>2, <4>1, <5>1 DEF Beats
      <4> QED BY <1>3, <4>1 DEF Beats
    <3>5. Whole(Operation("agent_finished"))
      BY <1>4, <3>2, <3>3, <3>4 DEF Whole
    <3> QED BY <1>1, <1>4, <2>1, <3>5, StoredSettle DEF IInv
  <2> QED BY <2>2, <2>3
<1>7. TypeOK'
  BY <1>1, <1>2, <1>3, <1>4, <1>5 DEF IInv, TypeOK, Steps
<1>8. ControlInv'
  <2>1. left \cap FinishedAgents = {} /\ (~UrlsGiven => plan.fallback = None)
    BY <1>1 DEF IInv, ControlInv
  <2>2. CASE searched
    BY <1>1, <1>2, <1>3, <1>5, <2>1, <2>2 DEF ControlInv, Working, MessageSteps, MemorySteps
  <2>3. CASE ~searched
    BY <1>1, <1>2, <1>3, <1>5, <2>1, <2>3 DEF ControlInv, Working, MessageSteps, MemorySteps
  <2> QED BY <2>2, <2>3
<1>9. ClaimInv'
  BY <1>5 DEF ClaimInv
<1>10. PathInv'
  BY <1>2 DEF PathInv, Working, MessageSteps, MemorySteps
<1>11. AnswerInv' /\ StageInv' /\ EndInv'
  BY <1>5 DEF AnswerInv, StageInv, EndInv, MessageSteps, MemorySteps
<1>12. VisibleInv'
  <2>1. /\ \A i \in DOMAIN visible : \E k \in DOMAIN messages : messages[k] = visible[i]
        /\ \A i \in DOMAIN visible : visible[i].agent = plan.fallback => CitedVisible
        /\ plan.failures /\ ~plan.sources => plan.fallback \in left \/ CitedVisible
    BY <1>1 DEF IInv, VisibleInv, Working
  <2>2. CitedVisible' <=> CitedVisible
    BY <1>1 DEF CitedVisible
  <2> QED BY <1>1, <1>2, <1>3, <2>1, <2>2 DEF VisibleInv, Working, MessageSteps, MemorySteps
<1>13. FirstInv'
  <2>1. Unseen = <<>> /\ Unseen' = <<>>
    BY <1>1, <1>5 DEF Unseen, MemorySteps
  <2>2. ~plan.resumed =>
         /\ messages = visible \o Unseen
         /\ \A i \in DOMAIN messages : messages[i].agent \in left => messages[i].agent = Speaker
    BY <1>1 DEF IInv, FirstInv, Working
  <2> QED BY <1>1, <1>2, <1>3, <2>1, <2>2 DEF FirstInv, Working, MessageSteps, MemorySteps
<1>14. ResultIsTranscript' /\ EvidenceIsBacked'
  BY <1>1 DEF IInv, ResultIsTranscript, EvidenceIsBacked
<1> QED BY <1>6, <1>7, <1>8, <1>9, <1>10, <1>11, <1>12, <1>13, <1>14 DEF IInv

\* The prompt is stored by the first attempt that comes to it and no other.
LEMMA UserMessageKeeps ==
  ASSUME IInv, WriteUserMessage
  PROVE  IInv'
<1>1. /\ step = "user" /\ step' = IF Skipped THEN "close" ELSE "ask"
      /\ UNCHANGED <<turn, attempts, result>>
      /\ UNCHANGED <<ledger, completed, answers>>
      /\ UNCHANGED <<messages, memories, cards, lastSpeaker>>
      /\ UNCHANGED <<plan, left, beat, completion, visible>>
  BY DEF WriteUserMessage, operations, records, task
<1>2. /\ evidence' \in {"direct", "search_pending", "unavailable", "not_requested"}
      /\ prompts' = IF plan.prompted THEN prompts ELSE prompts + 1
      /\ step' \in {"close", "ask"}
  <2>1. /\ evidence' = CASE plan.sources -> "direct"
                         [] ~plan.sources /\ plan.fallback # None -> "search_pending"
                         [] Skipped -> "unavailable"
                         [] OTHER -> "not_requested"
        /\ prompts' = IF plan.prompted THEN prompts ELSE prompts + 1
    BY DEF WriteUserMessage
  <2>2. evidence' \in {"direct", "search_pending", "unavailable", "not_requested"}
    <3>1. CASE plan.sources
      BY <2>1, <3>1 DEF Skipped
    <3>2. CASE ~plan.sources /\ plan.fallback # None
      BY <2>1, <3>2 DEF Skipped
    <3>3. CASE ~plan.sources /\ plan.fallback = None
      BY <2>1, <3>3 DEF Skipped
    <3> QED BY <3>1, <3>2, <3>3
  <2> QED BY <1>1, <2>1, <2>2
<1>3. /\ prompts' \in Nat /\ prompts' <= 1
      /\ plan \in Plans /\ turn = "running" /\ visible = <<>> /\ beat = 1 /\ left # {}
      /\ plan.fallback \in left \cup {None}
      /\ left \cap FinishedAgents = {}
  <2>1. prompts \in Nat /\ prompts <= 1
    BY DEF IInv, TypeOK, Stored, NothingIsDuplicated
  <2>2. ~plan.prompted => prompts = 0
    BY <1>1 DEF IInv, ControlInv
  <2>3. /\ plan \in Plans /\ turn = "running" /\ visible = <<>> /\ beat = 1 /\ left # {}
        /\ plan.fallback \in left \cup {None} /\ left \cap FinishedAgents = {}
    BY <1>1 DEF IInv, ControlInv
  <2> QED BY <1>2, <2>1, <2>2, <2>3
<1>4. Stored'
  BY <1>1, <1>3, StoredFrame DEF IInv, operations
<1>5. TypeOK'
  BY <1>1, <1>2, <1>3 DEF IInv, TypeOK, Steps
<1>6. ControlInv'
  BY <1>1, <1>2, <1>3 DEF IInv, ControlInv, Working, MessageSteps, MemorySteps, FinishedAgents
<1>7. ClaimInv'
  BY <1>2 DEF ClaimInv
<1>8. PathInv'
  BY <1>1, <1>3 DEF PathInv
<1>9. AnswerInv' /\ StageInv' /\ EndInv'
  BY <1>2 DEF AnswerInv, StageInv, EndInv, MessageSteps, MemorySteps
<1>10. VisibleInv'
  BY <1>1, <1>2, <1>3 DEF VisibleInv, Skipped, Working, MessageSteps, MemorySteps
<1>11. FirstInv'
  <2>1. Unseen = <<>> /\ Unseen' = <<>>
    BY <1>1, <1>2 DEF Unseen, MemorySteps
  <2> QED BY <1>1, <1>2, <1>3, <2>1 DEF IInv, FirstInv
<1>12. ResultIsTranscript' /\ EvidenceIsBacked'
  BY <1>1, <1>2, <1>3 DEF ResultIsTranscript, EvidenceIsBacked
<1> QED BY <1>4, <1>5, <1>6, <1>7, <1>8, <1>9, <1>10, <1>11, <1>12 DEF IInv

\* Search evidence is noted only with a citation that is stored.
LEMMA EvidenceKeeps ==
  ASSUME IInv, RecordEvidence
  PROVE  IInv'
<1> DEFINE found == \E i \in DOMAIN visible : visible[i].agent = plan.fallback
<1>1. /\ step = "evidence"
      /\ UNCHANGED <<turn, attempts, prompts, result>>
      /\ UNCHANGED <<ledger, completed, answers>>
      /\ UNCHANGED <<messages, memories, cards, lastSpeaker>>
      /\ UNCHANGED <<plan, completion, visible>>
  BY DEF RecordEvidence, operations, records
<1>2. /\ evidence' = IF found
                     THEN IF plan.sources THEN "direct_and_search" ELSE "search_cited"
                     ELSE IF plan.sources THEN "direct" ELSE "unavailable"
      /\ left' = IF found \/ plan.sources THEN left \ {plan.fallback} ELSE {}
      /\ beat' = 1 /\ step' = IF left' = {} THEN "close" ELSE "ask"
  BY DEF RecordEvidence, Proceed
<1>3. /\ plan \in Plans /\ turn = "running" /\ (left \ {plan.fallback}) \cap FinishedAgents = {}
      /\ step' \in {"close", "ask"} /\ 1 \in Beats
      /\ left' \subseteq left \ {plan.fallback}
  BY <1>1, <1>2, AgentRoundAssumption DEF IInv, ControlInv, Beats
<1>4. found => CitedVisible
  BY <1>1 DEF IInv, VisibleInv
<1>5. CitedVisible => \E k \in DOMAIN messages : messages[k].answer.cited
  BY <1>1 DEF IInv, VisibleInv, CitedVisible
<1>6. Stored'
  BY <1>1, StoredFrame DEF IInv, operations, Stored, NothingIsDuplicated
<1>7. TypeOK'
  BY <1>1, <1>2, <1>3 DEF IInv, TypeOK, Steps
<1>8. ControlInv'
  BY <1>1, <1>2, <1>3 DEF IInv, ControlInv, Working, MessageSteps, MemorySteps, FinishedAgents
<1>9. ClaimInv'
  BY <1>3 DEF ClaimInv
<1>10. PathInv'
  BY <1>2 DEF PathInv
<1>11. AnswerInv' /\ StageInv' /\ EndInv'
  BY <1>3 DEF AnswerInv, StageInv, EndInv, MessageSteps, MemorySteps
<1>12. VisibleInv'
  <2>1. /\ \A i \in DOMAIN visible : \E k \in DOMAIN messages : messages[k] = visible[i]
        /\ CitedVisible' <=> CitedVisible
    BY <1>1 DEF IInv, VisibleInv, CitedVisible
  <2> QED BY <1>1, <1>2, <1>3, <1>4, <2>1 DEF VisibleInv, Working, MessageSteps, MemorySteps
<1>13. FirstInv'
  <2>1. Unseen = <<>> /\ Unseen' = <<>>
    BY <1>1, <1>3 DEF Unseen, MemorySteps
  <2> QED BY <1>1, <1>3, <2>1 DEF IInv, FirstInv
<1>14. ResultIsTranscript' /\ EvidenceIsBacked'
  BY <1>1, <1>2, <1>3, <1>4, <1>5 DEF ResultIsTranscript, EvidenceIsBacked
<1> QED BY <1>6, <1>7, <1>8, <1>9, <1>10, <1>11, <1>12, <1>13, <1>14 DEF IInv

\* Once an execution has ended, only the tables say anything.
LEMMA Idle ==
  ASSUME TypeOK, Stored, step' = "idle", EndExecution, turn' \in {"stopped", "completed"},
         UNCHANGED <<attempts, prompts, evidence, ledger, completed, answers>>,
         UNCHANGED <<messages, memories, cards, lastSpeaker>>,
         result' \in Seq(Messages) \cup {None}
  PROVE  /\ TypeOK' /\ Stored' /\ ControlInv' /\ ClaimInv' /\ PathInv' /\ AnswerInv'
         /\ StageInv' /\ EndInv' /\ VisibleInv' /\ FirstInv'
<1>1. /\ plan' = None /\ left' = {} /\ beat' = 1 /\ completion' = None /\ visible' = <<>>
      /\ 1 \in Beats
  BY AgentRoundAssumption DEF EndExecution, Beats
<1>2. TypeOK'
  BY <1>1 DEF TypeOK, Steps
<1>3. Stored'
  BY StoredFrame DEF operations, Stored, NothingIsDuplicated
<1>4. ControlInv'
  BY <1>1 DEF ControlInv, Working, MessageSteps, MemorySteps
<1>5. ClaimInv' /\ PathInv' /\ AnswerInv' /\ StageInv' /\ EndInv' /\ VisibleInv' /\ FirstInv'
  BY DEF ClaimInv, PathInv, AnswerInv, StageInv, EndInv, VisibleInv, FirstInv,
         Working, MessageSteps, MemorySteps
<1> QED BY <1>2, <1>3, <1>4, <1>5

\* Whatever cuts an execution short leaves the tables as they are.
LEMMA StopKeeps ==
  ASSUME IInv, StopRound
  PROVE  IInv'
<1>1. /\ turn' = "stopped" /\ EndExecution /\ step' = "idle"
      /\ UNCHANGED <<attempts, prompts, evidence, result, ledger, completed, answers>>
      /\ UNCHANGED <<messages, memories, cards, lastSpeaker>>
  BY DEF StopRound, operations, records, EndExecution
<1>2. result' \in Seq(Messages) \cup {None}
  BY <1>1 DEF IInv, TypeOK
<1>3. ResultIsTranscript' /\ EvidenceIsBacked'
  BY <1>1 DEF IInv, ResultIsTranscript, EvidenceIsBacked
<1> QED BY <1>1, <1>2, <1>3, Idle DEF IInv

\* What the turn completes with is everything stored for it.
LEMMA CompleteRoundKeeps ==
  ASSUME IInv, CompleteRound
  PROVE  IInv'
<1>1. /\ step = "close" /\ turn' = "completed" /\ EndExecution /\ step' = "idle"
      /\ result' = IF plan.resumed THEN messages ELSE visible
      /\ UNCHANGED <<attempts, prompts, evidence, ledger, completed, answers>>
      /\ UNCHANGED <<messages, memories, cards, lastSpeaker>>
  BY DEF CompleteRound, operations, records, EndExecution
<1>2. result' = messages
  <2>1. Unseen = <<>> /\ visible \in Seq(Messages)
    BY <1>1 DEF Unseen, MemorySteps, IInv, TypeOK
  <2>2. ~plan.resumed => messages = visible \o <<>>
    BY <1>1, <2>1 DEF IInv, FirstInv
  <2> QED BY <1>1, <2>1, <2>2
<1>3. result' \in Seq(Messages) \cup {None}
  BY <1>2 DEF IInv, TypeOK
<1>4. ResultIsTranscript' /\ EvidenceIsBacked'
  BY <1>1, <1>2 DEF IInv, ResultIsTranscript, EvidenceIsBacked
<1> QED BY <1>1, <1>3, <1>4, Idle DEF IInv

\* Other turns of the room change only who spoke last.
LEMMA OtherTurnKeeps ==
  ASSUME IInv, OtherTurn
  PROVE  IInv'
<1>1. /\ turn # "running" /\ lastSpeaker' \in Agents
      /\ UNCHANGED <<turn, attempts, prompts, evidence, result, ledger, completed, answers>>
      /\ UNCHANGED <<messages, memories, cards, step, plan, left, beat, completion, visible>>
  BY DEF OtherTurn, row, operations, task
<1>2. step = "idle"
  BY <1>1 DEF IInv, ControlInv
<1>3. TypeOK'
  BY <1>1 DEF IInv, TypeOK
<1>4. Stored'
  BY <1>1, StoredFrame DEF IInv, operations, Stored, NothingIsDuplicated
<1>5. ControlInv'
  BY <1>1 DEF IInv, ControlInv, FinishedAgents
<1>6. ClaimInv' /\ PathInv' /\ AnswerInv' /\ StageInv' /\ EndInv' /\ VisibleInv' /\ FirstInv'
  BY <1>1, <1>2 DEF ClaimInv, PathInv, AnswerInv, StageInv, EndInv, VisibleInv, FirstInv,
         Working, MessageSteps, MemorySteps
<1>7. ResultIsTranscript' /\ EvidenceIsBacked'
  BY <1>1 DEF IInv, ResultIsTranscript, EvidenceIsBacked
<1> QED BY <1>3, <1>4, <1>5, <1>6, <1>7 DEF IInv

\* Both ways to begin an execution: of a new turn, or of one that stopped.
LEMMA ExecuteKeeps ==
  ASSUME IInv, NEW S \in SUBSET Agents, NEW resumed \in BOOLEAN, Execute(S, resumed),
         S \cap FinishedAgents = {},
         ~resumed => prompts = 0 /\ messages = <<>>
  PROVE  IInv'
<1>1. /\ turn' = "running" /\ attempts' = attempts + 1 /\ left' = S /\ beat' = 1
      /\ step' = IF S = {} THEN "close" ELSE "user"
      /\ completion' = None /\ visible' = <<>>
      /\ UNCHANGED <<prompts, evidence, result, ledger, completed, answers>>
      /\ UNCHANGED <<messages, memories, cards, lastSpeaker>>
  BY DEF Execute, operations, records
<1> DEFINE first == IF S = {} THEN None ELSE FirstSpeaker(S)
<1>2. PICK out \in SourceOutcomes :
        plan' = [resumed |-> resumed,
                 prompted |-> resumed /\ prompts > 0,
                 sources |-> out.sources,
                 failures |-> out.failures # "none",
                 first |-> first,
                 fallback |-> FallbackAgent(S, first, out.failures)]
  BY DEF Execute
<1>3. first \in S \cup {None}
  BY FirstSpeakerIsIn DEF IInv
<1>4. /\ FallbackAgent(S, first, out.failures) \in S \cup {None}
      /\ out.failures # "searchable" => FallbackAgent(S, first, out.failures) = None
  <2> HIDE DEF first
  <2> QED BY <1>3, FallbackIsIn, AgentRoundAssumption
<1>5. out.sources \in BOOLEAN /\ (~UrlsGiven => out.failures = "none")
  <2>1. CASE UrlsGiven
    BY <1>2, <2>1 DEF SourceOutcomes
  <2>2. CASE ~UrlsGiven
    <3>1. SourceOutcomes = {[sources |-> FALSE, failures |-> "none"]}
      BY <2>2 DEF SourceOutcomes
    <3>2. out = [sources |-> FALSE, failures |-> "none"]
      BY <1>2, <3>1
    <3>3. out.sources = FALSE /\ out.failures = "none"
      BY <3>2
    <3> QED BY <3>3
  <2> QED BY <2>1, <2>2
<1>6. /\ plan' \in Plans /\ plan'.fallback \in S \cup {None}
      /\ ~UrlsGiven => plan'.fallback = None
      /\ plan'.resumed = resumed
      /\ plan'.prompted <=> resumed /\ prompts > 0
  <2> HIDE DEF first
  <2> QED BY <1>2, <1>3, <1>4, <1>5 DEF Plans
<1>7. step' \in {"close", "user"}
  BY <1>1
<1>8. Stored'
  BY <1>1, StoredFrame DEF IInv, operations, Stored, NothingIsDuplicated
<1>9. TypeOK'
  <2>1. 1 \in Beats /\ attempts' \in Nat
    BY <1>1, AgentRoundAssumption DEF Beats, IInv, TypeOK
  <2> QED BY <1>1, <1>6, <1>7, <2>1 DEF IInv, TypeOK, Steps
<1>10. ControlInv'
  <2>1. FinishedAgents' = FinishedAgents
    BY <1>1 DEF FinishedAgents
  <2>2. ~plan'.prompted => prompts = 0
    BY <1>6 DEF IInv, TypeOK
  <2> QED BY <1>1, <1>6, <1>7, <2>1, <2>2 DEF ControlInv, Working, MessageSteps, MemorySteps
<1>11. ClaimInv'
  BY <1>7 DEF ClaimInv
<1>12. PathInv' /\ AnswerInv' /\ StageInv' /\ EndInv'
  BY <1>7 DEF PathInv, AnswerInv, StageInv, EndInv, Working, MessageSteps, MemorySteps
<1>13. VisibleInv'
  BY <1>1, <1>7 DEF VisibleInv, Working, MessageSteps, MemorySteps
<1>14. FirstInv'
  <2>1. Unseen' = <<>>
    BY <1>7 DEF Unseen, MemorySteps
  <2> QED BY <1>1, <1>6, <1>7, <2>1 DEF FirstInv, Working, MessageSteps, MemorySteps
<1>15. ResultIsTranscript' /\ EvidenceIsBacked'
  BY <1>1 DEF IInv, ResultIsTranscript, EvidenceIsBacked
<1> QED BY <1>8, <1>9, <1>10, <1>11, <1>12, <1>13, <1>14, <1>15 DEF IInv

\* Of a new turn nothing is stored.
LEMMA BeginRoundKeeps ==
  ASSUME IInv, BeginRound
  PROVE  IInv'
<1>1. turn = "absent" /\ Execute(Participants, FALSE)
  BY DEF BeginRound
<1>2. prompts = 0 /\ messages = <<>> /\ completed = {}
  BY <1>1 DEF IInv, ControlInv
<1>3. FinishedAgents = {}
  BY <1>2 DEF FinishedAgents
<1> QED BY <1>1, <1>2, <1>3, ExecuteKeeps, AgentRoundAssumption

\* Agents that the ledger calls finished are not asked again.
LEMMA ResumeRoundKeeps ==
  ASSUME IInv, ResumeRound
  PROVE  IInv'
<1>1. Execute(Participants \ DoneAgents, TRUE)
  BY DEF ResumeRound
<1>2. FinishedAgents \subseteq DoneAgents
  <2>1. CASE ledger = <<>>
    <3>1. completed = {}
      BY <2>1 DEF IInv, Stored, Begun
    <3> QED BY <3>1 DEF FinishedAgents
  <2>2. CASE ledger # <<>>
    BY <2>2 DEF DoneAgents
  <2> QED BY <2>1, <2>2
<1> QED BY <1>1, <1>2, ExecuteKeeps, AgentRoundAssumption

\* Nothing is stored, nobody works.
LEMMA InitHolds == Init => IInv
<1> SUFFICES ASSUME Init PROVE IInv
  OBVIOUS
<1>1. /\ messages = <<>> /\ memories = <<>> /\ cards = <<>> /\ ledger = <<>> /\ completed = {}
      /\ visible = <<>> /\ prompts = 0 /\ step = "idle" /\ turn = "absent" /\ left = {}
      /\ evidence = "none"
  BY DEF Init
<1>2. \A a \in Agents, b \in Beats : answers[a][b] = None
  BY DEF Init
<1>3. TypeOK
  BY AgentRoundAssumption DEF Init, TypeOK, Steps, Beats
<1>4. Stored
  <2>1. NothingIsDuplicated
    BY <1>1 DEF NothingIsDuplicated, OncePerBeat
  <2>2. CheckpointsAreBacked
    BY <1>1, <1>2 DEF CheckpointsAreBacked, Backed, Settled, Has
  <2> QED BY <1>1, <2>1, <2>2 DEF Stored, InOrder, Has, FinishedIsWhole
<1>5. ControlInv
  BY <1>1 DEF ControlInv, FinishedAgents, Working, MessageSteps, MemorySteps
<1>6. ClaimInv /\ PathInv /\ AnswerInv /\ StageInv /\ EndInv /\ VisibleInv /\ FirstInv
  BY <1>1 DEF ClaimInv, PathInv, AnswerInv, StageInv, EndInv, VisibleInv, FirstInv,
              Working, MessageSteps, MemorySteps
<1>7. ResultIsTranscript /\ EvidenceIsBacked
  BY <1>1 DEF ResultIsTranscript, EvidenceIsBacked
<1> QED BY <1>3, <1>4, <1>5, <1>6, <1>7 DEF IInv

\* Every step keeps the invariant.
LEMMA NextKeeps ==
  ASSUME IInv, [Next]_vars
  PROVE  IInv'
<1>1. CASE BeginRound
  BY <1>1, BeginRoundKeeps
<1>2. CASE ResumeRound
  BY <1>2, ResumeRoundKeeps
<1>3. CASE Step
  <2>1. CASE WriteUserMessage
    BY <2>1, UserMessageKeeps
  <2>2. CASE RecoverCompletion
    BY <2>2, RecoverKeeps
  <2>3. CASE AskProvider
    <3>1. /\ BeginOperation("ask", "provider_completion", "asking")
          /\ Operation("provider_completion") \notin completed
      BY <2>3 DEF AskProvider, BeginOperation
    <3> QED BY <3>1, BeginKeeps
  <2>4. CASE ProviderAnswers
    BY <2>4, AnswerKeeps
  <2>5. CASE ProviderFails
    BY <2>5, FailKeeps
  <2>6. CASE BeginMessage \/ BeginMemory \/ BeginFinishBeat \/ BeginFinishAgent
    BY <2>6, BeginKeeps DEF BeginMessage, BeginMemory, BeginFinishBeat, BeginFinishAgent
  <2>7. CASE CommitMessage \/ CommitMemory
    BY <2>7, CompleteKeeps DEF CommitMessage, CommitMemory
  <2>8. CASE AddMessage
    BY <2>8, AddMessageKeeps
  <2>9. CASE AddMemory
    BY <2>9, AddMemoryKeeps
  <2>10. CASE AddGlobalMemory
    BY <2>10, AddCardKeeps
  <2>11. CASE FinishBeat
    BY <2>11, FinishBeatKeeps
  <2>12. CASE FinishAgent
    BY <2>12, FinishAgentKeeps
  <2>13. CASE RecordEvidence
    BY <2>13, EvidenceKeeps
  <2>14. CASE CompleteRound
    BY <2>14, CompleteRoundKeeps
  <2> QED BY <1>3, <2>1, <2>2, <2>3, <2>4, <2>5, <2>6, <2>7, <2>8, <2>9, <2>10, <2>11, <2>12,
             <2>13, <2>14 DEF Step
<1>4. CASE StopRound
  BY <1>4, StopKeeps
<1>5. CASE OtherTurn
  BY <1>5, OtherTurnKeeps
<1>6. CASE UNCHANGED vars
  <2>1. /\ UNCHANGED <<turn, attempts, prompts, evidence, result, ledger, completed, answers>>
        /\ UNCHANGED <<messages, memories, cards, lastSpeaker, step>>
        /\ UNCHANGED <<plan, left, beat, completion, visible>>
    BY <1>6 DEF vars, row, operations, records, task
  <2>2. TypeOK'
    BY <2>1 DEF IInv, TypeOK
  <2>3. Stored'
    BY <2>1, StoredFrame DEF IInv, operations, Stored, NothingIsDuplicated
  <2>4. /\ Speaker' = Speaker /\ (Searching' <=> Searching)
        /\ \A kind : Operation(kind)' = Operation(kind)
    BY <2>1, SamePlace
  <2>5. ControlInv' /\ ClaimInv'
    BY <2>1, <2>4 DEF IInv, ControlInv, ClaimInv, FinishedAgents, Begun
  <2>6. PathInv' /\ AnswerInv' /\ StageInv' /\ EndInv'
    BY <2>1, <2>4 DEF IInv, PathInv, AnswerInv, StageInv, EndInv, Settled, Discarded
  <2>7. VisibleInv'
    BY <2>1, <2>4 DEF IInv, VisibleInv, CitedVisible
  <2>8. FirstInv'
    BY <2>1, <2>4 DEF IInv, FirstInv, Unseen
  <2>9. ResultIsTranscript' /\ EvidenceIsBacked'
    BY <2>1 DEF IInv, ResultIsTranscript, EvidenceIsBacked
  <2> QED BY <2>2, <2>3, <2>5, <2>6, <2>7, <2>8, <2>9 DEF IInv
<1> QED BY <1>1, <1>2, <1>3, <1>4, <1>5, <1>6 DEF Next

-----------------------------------------------------------------------------
(* The theorems.                                                           *)

\* The invariant holds throughout.
THEOREM Inductive == Spec => []IInv
  BY InitHolds, NextKeeps, PTL DEF Spec

\* Every variable stays in its set, however the round runs.
THEOREM TypesHold == Spec => []TypeOK
<1>1. IInv => TypeOK
  BY DEF IInv
<1> QED BY <1>1, Inductive, PTL

\* However often the turn is cut short and resumed, nothing is stored twice:
\* one prompt, one message, one memory, one card and one row for each beat.
THEOREM NoDuplicates == Spec => []NothingIsDuplicated
<1>1. IInv => NothingIsDuplicated
  BY DEF IInv, Stored
<1> QED BY <1>1, Inductive, PTL

\* What the ledger calls completed is stored, the stages complete in order,
\* and a published answer is the checkpointed one.
THEOREM CheckpointsBacked == Spec => []CheckpointsAreBacked
<1>1. IInv => CheckpointsAreBacked
  BY DEF IInv, Stored
<1> QED BY <1>1, Inductive, PTL

\* An agent is called finished only when all its beats are remembered and its
\* last one was the last, with or without a search.
THEOREM FinishedWhole == Spec => []FinishedIsWhole
<1>1. IInv => FinishedIsWhole
  BY DEF IInv, Stored
<1> QED BY <1>1, Inductive, PTL

\* A completed turn answers with all agent messages stored for it, whether one
\* execution wrote them or several.
THEOREM ResultsAreTranscripts == Spec => []ResultIsTranscript
<1>1. IInv => ResultIsTranscript
  BY DEF IInv
<1> QED BY <1>1, Inductive, PTL

\* The room claims search evidence only with a stored message that cites it.
THEOREM EvidenceBacked == Spec => []EvidenceIsBacked
<1>1. IInv => EvidenceIsBacked
  BY DEF IInv
<1> QED BY <1>1, Inductive, PTL

\* With pages that cannot be read, nobody is prompted but the searching agent
\* until it has cited something.
THEOREM NoPromptWithoutEvidence == Spec => []NoEvidenceNoPrompt
<1>1. IInv => NoEvidenceNoPrompt
  <2> SUFFICES ASSUME IInv, step = "asking", plan.failures, ~plan.sources
               PROVE  Speaker = plan.fallback \/ CitedVisible
    BY DEF NoEvidenceNoPrompt, CitedVisible
  <2>1. plan.fallback \in left \/ CitedVisible
    BY DEF IInv, VisibleInv, Working
  <2> QED BY <2>1 DEF Speaker
<1> QED BY <1>1, Inductive, PTL

\* A checkpointed answer does not change.
LEMMA AnswersKept ==
  ASSUME IInv, [Next]_vars, NEW a \in Agents, NEW b \in Beats, answers[a][b] # None
  PROVE  answers'[a][b] = answers[a][b]
<1>1. CASE ProviderAnswers
  <2>1. PICK answer \in Completions : answers' = [answers EXCEPT ![Speaker][beat] = answer]
    BY <1>1 DEF ProviderAnswers
  <2>2. answers[Speaker][beat] = None
    BY <1>1 DEF ProviderAnswers, IInv, AnswerInv
  <2> QED BY <2>1, <2>2 DEF IInv, TypeOK
<1>2. CASE ~ProviderAnswers
  <2>1. answers' = answers
    BY <1>2 DEF Next, Step, vars, row, operations, records, task, BeginRound, ResumeRound, Execute,
      WriteUserMessage, RecoverCompletion, AskProvider, ProviderFails, BeginMessage, AddMessage,
      CommitMessage, BeginMemory, AddMemory, AddGlobalMemory, CommitMemory, BeginFinishBeat,
      FinishBeat, BeginFinishAgent, FinishAgent, RecordEvidence, CompleteRound, StopRound, OtherTurn,
      BeginOperation, CompleteOperation
  <2> QED BY <2>1
<1> QED BY <1>1, <1>2

\* No attempt replaces a checkpointed answer or asks for that beat again.
THEOREM AnswersStay == Spec => AnswersAreKept
<1> DEFINE A == \A a \in Agents, b \in Beats : answers[a][b] # None =>
                  /\ answers'[a][b] = answers[a][b]
                  /\ step' = "asking" => <<Speaker, beat>>' # <<a, b>>
<1>1. ASSUME IInv, [Next]_vars PROVE A
  <2> SUFFICES ASSUME NEW a \in Agents, NEW b \in Beats, answers[a][b] # None
               PROVE  /\ answers'[a][b] = answers[a][b]
                      /\ step' = "asking" => <<Speaker, beat>>' # <<a, b>>
    OBVIOUS
  <2>1. answers'[a][b] = answers[a][b]
    BY <1>1, AnswersKept
  <2>2. step' = "asking" => answers'[Speaker'][beat'] = None
    BY <1>1, NextKeeps DEF IInv, AnswerInv
  <2> QED BY <2>1, <2>2
<1>2. Spec => [][A]_vars
  BY <1>1, Inductive, PTL DEF Spec
<1> QED BY <1>2 DEF AnswersAreKept

-----------------------------------------------------------------------------
(* The round implements TurnTranscript.                                    *)

\* The transcript of a longer table is the longer transcript.
LEMMA TranscriptAppend ==
  ASSUME NEW s \in Seq(Messages), NEW e \in Messages
  PROVE  Transcript(Append(s, e)) = Append(Transcript(s), <<e.agent, e.beat>>)
<1> DEFINE t == Append(s, e)
           last == <<e.agent, e.beat>>
<1>1. /\ t \in Seq(Messages) /\ Len(t) = Len(s) + 1 /\ Len(s) \in Nat
      /\ DOMAIN s = 1..Len(s) /\ DOMAIN t = 1..(Len(s) + 1)
      /\ \A i \in DOMAIN s : t[i] = s[i]
      /\ t[Len(s) + 1] = e
  OBVIOUS
<1>2. /\ \A i \in DOMAIN s : s[i].agent \in Agents /\ s[i].beat \in Beats
      /\ last \in Agents \X Beats
  <2>1. \A i \in DOMAIN s : s[i] \in Messages
    OBVIOUS
  <2>2. \A m \in Messages : m.agent \in Agents /\ m.beat \in Beats
    BY DEF Messages
  <2> QED BY <2>1, <2>2
<1>3. /\ Transcript(s) \in Seq(Agents \X Beats) /\ Len(Transcript(s)) = Len(s)
      /\ \A i \in DOMAIN s : Transcript(s)[i] = <<s[i].agent, s[i].beat>>
  BY <1>1, <1>2 DEF Transcript
<1>4. /\ DOMAIN Append(Transcript(s), last) = 1..(Len(s) + 1)
      /\ \A i \in 1..Len(s) : Append(Transcript(s), last)[i] = Transcript(s)[i]
      /\ Append(Transcript(s), last)[Len(s) + 1] = last
      /\ Append(Transcript(s), last) \in Seq(Agents \X Beats)
  <2> HIDE DEF last
  <2> QED BY <1>1, <1>2, <1>3
<1>5. \A i \in 1..(Len(s) + 1) : Append(Transcript(s), last)[i] = <<t[i].agent, t[i].beat>>
  <2> HIDE DEF t
  <2>1. ASSUME NEW i \in 1..Len(s)
        PROVE  Append(Transcript(s), last)[i] = <<t[i].agent, t[i].beat>>
    <3>1. i \in DOMAIN s
      BY <1>1
    <3>2. Append(Transcript(s), last)[i] = <<s[i].agent, s[i].beat>> /\ t[i] = s[i]
      BY <1>1, <1>3, <1>4, <3>1, Zenon
    <3> QED BY <3>2, Zenon
  <2>2. Append(Transcript(s), last)[Len(s) + 1] = <<t[Len(s) + 1].agent, t[Len(s) + 1].beat>>
    BY <1>1, <1>4, Zenon
  <2>3. ASSUME NEW i \in 1..(Len(s) + 1) PROVE i \in 1..Len(s) \/ i = Len(s) + 1
    BY <1>1
  <2> QED BY <2>1, <2>2, <2>3, Zenon
<1>6. Append(Transcript(s), last) = [i \in 1..(Len(s) + 1) |-> Append(Transcript(s), last)[i]]
  BY <1>4
<1> HIDE DEF last, t
<1> QED BY <1>1, <1>5, <1>6 DEF Transcript

\* An agent that has the beats before one has spoken as many.
LEMMA SpokenSoFar ==
  ASSUME IInv, NEW a \in Agents, NEW b \in Beats,
         \A c \in Beats : Has(messages, a, c) <=> c < b
  PROVE  Reader!Spoken(a) = b - 1
<1> DEFINE beats == {c \in 1..MaxBeats : \E i \in DOMAIN Transcript(messages) : Transcript(messages)[i] = <<a, c>>}
<1>1. MaxBeats \in Nat /\ b \in 1..MaxBeats /\ b - 1 \in 0..MaxBeats
  BY AgentRoundAssumption DEF Beats
<1>2. \A c \in 1..MaxBeats : c \in beats <=> Has(messages, a, c)
  BY DEF Transcript, Has
<1>3. beats = 1..(b - 1)
  <2> HIDE DEF beats
  <2>1. \A c \in 1..MaxBeats : c \in beats <=> c < b
    BY <1>2 DEF Beats
  <2>2. beats \subseteq 1..MaxBeats
    BY DEF beats
  <2>3. \A c \in beats : c \in 1..(b - 1)
    BY <1>1, <2>1, <2>2
  <2>4. \A c \in 1..(b - 1) : c \in 1..MaxBeats /\ c < b
    BY <1>1
  <2>5. \A c \in 1..(b - 1) : c \in beats
    BY <2>1, <2>4
  <2> QED BY <2>3, <2>5
<1>4. \A n \in 0..MaxBeats : beats = 1..n <=> n = b - 1
  <2> HIDE DEF beats
  <2> SUFFICES ASSUME NEW n \in 0..MaxBeats, 1..n = 1..(b - 1) PROVE n = b - 1
    BY <1>3
  <2>1. n \in 1..n \/ n = 0
    OBVIOUS
  <2>2. b - 1 \in 1..(b - 1) \/ b - 1 = 0
    BY <1>1
  <2>3. n <= b - 1 /\ b - 1 <= n
    BY <1>1, <2>1, <2>2
  <2> QED BY <1>1, <2>3
<1>5. Reader!Spoken(a) = CHOOSE n \in 0..MaxBeats : beats = 1..n
  BY DEF Reader!Spoken
<1> HIDE DEF beats
<1> QED BY <1>1, <1>4, <1>5

\* The steps that a reader does not see.
LEMMA Unnoticed ==
  ASSUME IInv, [Next]_vars, ~AddMessage, ~FinishAgent, ~CompleteRound
  PROVE  /\ messages' = messages /\ FinishedAgents' = FinishedAgents
         /\ result' = result /\ (turn' = "completed" <=> turn = "completed")
<1>1. messages' = messages /\ result' = result
  BY DEF Next, Step, vars, row, operations, records, task, BeginRound, ResumeRound, Execute,
    WriteUserMessage, RecoverCompletion, AskProvider, ProviderAnswers, ProviderFails, BeginMessage,
    CommitMessage, BeginMemory, AddMemory, AddGlobalMemory, CommitMemory, BeginFinishBeat,
    FinishBeat, BeginFinishAgent, RecordEvidence, StopRound, OtherTurn,
    BeginOperation, CompleteOperation
<1>2. turn' = "completed" <=> turn = "completed"
  BY DEF Next, Step, vars, row, operations, records, task, BeginRound, ResumeRound, Execute,
    WriteUserMessage, RecoverCompletion, AskProvider, ProviderAnswers, ProviderFails, BeginMessage,
    CommitMessage, BeginMemory, AddMemory, AddGlobalMemory, CommitMemory, BeginFinishBeat,
    FinishBeat, BeginFinishAgent, RecordEvidence, StopRound, OtherTurn,
    BeginOperation, CompleteOperation
<1>3. FinishedAgents' = FinishedAgents
  <2>1. \/ completed' = completed
        \/ \E kind \in {"provider_completion", "message_committed", "memory_committed",
                         "beat_finished"} : completed' = completed \cup {Operation(kind)}
    BY DEF Next, Step, vars, row, operations, records, task, BeginRound, ResumeRound, Execute,
      WriteUserMessage, RecoverCompletion, AskProvider, ProviderAnswers, ProviderFails, BeginMessage,
      CommitMessage, BeginMemory, AddMemory, AddGlobalMemory, CommitMemory, BeginFinishBeat,
      FinishBeat, BeginFinishAgent, RecordEvidence, StopRound, OtherTurn,
      BeginOperation, CompleteOperation, Settle
  <2>2. CASE completed' = completed
    BY <2>2 DEF FinishedAgents
  <2>3. CASE \E kind \in {"provider_completion", "message_committed", "memory_committed",
                          "beat_finished"} : completed' = completed \cup {Operation(kind)}
    <3>1. PICK kind \in {"provider_completion", "message_committed", "memory_committed",
                         "beat_finished"} : completed' = completed \cup {Operation(kind)}
      BY <2>3
    <3>2. Operation(kind).kind # "agent_finished"
      BY <3>1 DEF Operation
    <3> QED BY <3>1, <3>2, Finishing
  <2> QED BY <2>1, <2>2, <2>3
<1> QED BY <1>1, <1>2, <1>3

\* Every step is one of the transcript's or is not seen.
LEMMA StepImplements ==
  ASSUME IInv, [Next]_vars
  PROVE  [Reader!Next]_(Reader!vars)
<1> DEFINE seen == IF turn = "completed" THEN Transcript(result) ELSE None
<1>1. CASE ~AddMessage /\ ~FinishAgent /\ ~CompleteRound
  <2>1. UNCHANGED <<messages, FinishedAgents, seen>>
    BY <1>1, Unnoticed
  <2>2. Transcript(messages)' = Transcript(messages)
    BY <2>1 DEF Transcript
  <2> QED BY <2>1, <2>2 DEF Reader!vars
<1>2. CASE AddMessage
  <2>1. /\ step = "message_add" /\ completed' = completed /\ turn' = turn /\ turn = "running"
        /\ Speaker \in Agents /\ beat \in Beats /\ completion \in Completions
        /\ messages \in Seq(Messages) /\ Speaker \notin FinishedAgents
    BY <1>2, WorkingFacts DEF AddMessage, row, operations, Working, MessageSteps, IInv, TypeOK, AnswerInv
  <2>2. seen = None /\ seen' = None /\ FinishedAgents' = FinishedAgents
    BY <2>1 DEF FinishedAgents
  <2>3. CASE Has(messages, Speaker, beat)
    <3>1. messages' = messages
      BY <1>2, <2>3 DEF AddMessage, Of, Has
    <3>2. Transcript(messages)' = Transcript(messages)
      BY <3>1 DEF Transcript
    <3> QED BY <2>2, <3>2 DEF Reader!vars
  <2>4. CASE ~Has(messages, Speaker, beat)
    <3> DEFINE new == [agent |-> Speaker, beat |-> beat, answer |-> completion]
    <3>1. messages' = Append(messages, new) /\ new \in Messages
      BY <1>2, <2>1, <2>4 DEF AddMessage, Of, Has, Messages
    <3>2. new.agent = Speaker /\ new.beat = beat
      OBVIOUS
    <3>3. Transcript(messages)' = Append(Transcript(messages), <<Speaker, beat>>)
      <4>1. Transcript(messages)' = Transcript(messages')
        BY DEF Transcript
      <4> HIDE DEF new
      <4> QED BY <2>1, <3>1, <3>2, <4>1, TranscriptAppend
    <3>4. Reader!Spoken(Speaker) = beat - 1
      <4>1. \A c \in 1..(beat - 1) : Has(messages, Speaker, c)
        BY <2>1 DEF IInv, PathInv, Working, MessageSteps
      <4>2. ASSUME NEW c \in Beats PROVE Has(messages, Speaker, c) <=> c < beat
        <5>1. CASE c < beat
          BY <2>1, <4>1, <5>1 DEF Beats
        <5>2. CASE c = beat
          BY <2>1, <2>4, <5>2 DEF Beats
        <5>3. CASE c > beat
          <6>1. beat \in 1..(c - 1)
            BY <2>1, <5>3 DEF Beats
          <6> QED BY <2>1, <2>4, <5>3, <6>1 DEF IInv, Stored, InOrder, Beats
        <5> QED BY <2>1, <5>1, <5>2, <5>3 DEF Beats
      <4> QED BY <2>1, <4>2, SpokenSoFar
    <3>5. Reader!Publish(Speaker)
      <4>1. beat - 1 < MaxBeats /\ (beat - 1) + 1 = beat
        BY <2>1, AgentRoundAssumption DEF Beats
      <4> QED BY <2>1, <2>2, <3>3, <3>4, <4>1 DEF Reader!Publish
    <3> QED BY <2>1, <3>5 DEF Reader!Next
  <2> QED BY <2>3, <2>4
<1>3. CASE FinishAgent
  <2>1. /\ step = "agent_done" /\ completed' = completed \cup {Operation("agent_finished")}
        /\ turn' = turn /\ turn = "running" /\ messages' = messages
        /\ Speaker \in Agents /\ Speaker \notin FinishedAgents
    BY <1>3, WorkingFacts DEF FinishAgent, Settle, row, records, Working
  <2>2. FinishedAgents' = FinishedAgents \cup {Speaker}
    <3>1. Operation("agent_finished").kind = "agent_finished" /\ Operation("agent_finished").agent = Speaker
      BY DEF Operation
    <3> QED BY <2>1, <3>1, Finishing
  <2>3. seen = None /\ seen' = None /\ Transcript(messages)' = Transcript(messages)
    BY <2>1 DEF Transcript
  <2>4. Reader!FinishAgent(Speaker)
    BY <2>1, <2>2, <2>3 DEF Reader!FinishAgent
  <2> QED BY <2>1, <2>4 DEF Reader!Next
<1>4. CASE CompleteRound
  <2>1. /\ turn = "running" /\ turn' = "completed" /\ messages' = messages /\ completed' = completed
    BY <1>4 DEF CompleteRound, operations, records, IInv, ControlInv
  <2>2. result' = messages'
    BY <1>4, <2>1, CompleteRoundKeeps DEF IInv, ResultIsTranscript
  <2>3. /\ seen = None /\ seen' = Transcript(messages)
        /\ Transcript(messages)' = Transcript(messages) /\ FinishedAgents' = FinishedAgents
    BY <2>1, <2>2 DEF Transcript, FinishedAgents
  <2>4. Reader!Complete
    BY <2>3 DEF Reader!Complete
  <2> QED BY <2>4 DEF Reader!Next
<1> QED BY <1>1, <1>2, <1>3, <1>4

\* To a reader of the room, the round with its ledger, crashes and resumptions is
\* the transcript of TurnTranscript: it only grows, each agent speaks its beats
\* once and in order and is silent after it has finished, and the turn's result
\* is all of it.
THEOREM RoundImplementsTranscript == Spec => ImplementsTranscript
<1>1. Init => Reader!Init
  <2> SUFFICES ASSUME Init PROVE Reader!Init
    OBVIOUS
  <2>1. messages = <<>> /\ completed = {} /\ turn = "absent"
    BY DEF Init
  <2>2. Transcript(messages) = <<>>
    BY <2>1 DEF Transcript
  <2>3. FinishedAgents = {}
    BY <2>1 DEF FinishedAgents
  <2> QED BY <2>1, <2>2, <2>3 DEF Reader!Init
<1>2. IInv /\ [Next]_vars => [Reader!Next]_(Reader!vars)
  BY StepImplements
<1>3. Spec => Reader!Spec
  BY <1>1, <1>2, Inductive, PTL DEF Spec, Reader!Spec
<1> QED BY <1>3 DEF ImplementsTranscript
=============================================================================
