------------------------------ MODULE AgentRound ------------------------------
(***************************************************************************)
(* What happens inside one room turn: the agents speak one after the other *)
(* in beats, and every stage of a beat is a transaction of its own in the  *)
(* ledger turn_operations, so that an attempt that a crash, a storage      *)
(* error, a timeout or a lost connection cuts short can be resumed.        *)
(*                                                                         *)
(* Module ChatTurns has the life of the turn's row; here it is only the    *)
(* stage on which attempts begin and end.                                  *)
(***************************************************************************)
EXTENDS Integers, Sequences

CONSTANTS
  NumAgents,      \* agents are numbered in the order of AGENT_IDS
  Participants,   \* the agents the request selects
  MaxBeats,       \* settings.max_agent_turn_beats
  MaxAttempts,    \* bound: executions of the turn
  Named,          \* the agents whose name or lens the prompt mentions
  Scope,          \* the search router's scope: "none", "lead" or "all"
  Score,          \* how well each agent's lens fits the prompt
  UrlsGiven,      \* the prompt contains page addresses
  Searchers,      \* the agents whose provider has native web search
  Completions,    \* what the model tells apart in the providers' answers
  None

Agents == 1..NumAgents
Beats == 1..MaxBeats

ASSUME AgentRoundAssumption ==
  /\ NumAgents \in Nat
  /\ MaxBeats \in Nat \ {0}
  /\ MaxAttempts \in Nat
  /\ Participants \subseteq Agents /\ Participants # {}
  /\ Named \subseteq Agents
  /\ Scope \in {"none", "lead", "all"}
  /\ Score \in [Agents -> Nat]
  /\ UrlsGiven \in BOOLEAN
  /\ Searchers \subseteq Agents

\* execution_semantics.BEAT_OPERATION_SEQUENCE and the operation that ends
\* an agent's part of the turn.
BeatOperations ==
  <<"provider_completion", "message_committed", "memory_committed", "beat_finished">>
Kinds == {BeatOperations[i] : i \in 1..4} \cup {"agent_finished"}
Operations == [agent : Agents, beat : Beats, kind : Kinds]

\* An AgentCompletion: whether the provider was asked to search, whether it
\* cites pages, and whether it asks for another beat, which the answer of a
\* search never does.
ASSUME CompletionsAssumption ==
  Completions \subseteq {c \in [search : BOOLEAN, cited : BOOLEAN, continue : BOOLEAN] :
                           c.search => ~c.continue}

ASSUME RoundNoneAssumption == None \notin Agents \cup Completions

VARIABLES
  \* durable: the turn's row and its user message
  turn,        \* "absent", "running", "stopped" (failed, interrupted), "completed"
  attempts,    \* executions begun so far
  prompts,     \* user messages stored for the turn
  evidence,    \* evidence_status in the user message, "none" before there is one
  result,      \* the agent messages of the stored result
  \* durable: turn_operations
  ledger,      \* the operations begun, in order
  completed,   \* the ones whose status is "completed"
  answers,     \* result_json of the provider_completion operations
  \* durable: messages, agent_memory_events, agent_global_memory_events
  messages,
  memories,
  cards,
  lastSpeaker, \* the agent that spoke last in the project, in any turn
  \* volatile: the execution in progress
  step,        \* the next thing it does
  plan,        \* what it settled before the first agent
  left,        \* the agents still to run, the current one included
  beat,        \* turn_beat of the current agent
  completion,  \* its AgentCompletion, None after a provider failure
  visible      \* visible_responses

row == <<turn, attempts, prompts, evidence, result>>
operations == <<ledger, completed, answers>>
records == <<messages, memories, cards, lastSpeaker>>
task == <<plan, left, beat, completion, visible>>
vars == <<row, operations, records, step, task>>

Init ==
  /\ turn = "absent"
  /\ attempts = 0
  /\ prompts = 0
  /\ evidence = "none"
  /\ result = None
  /\ ledger = <<>>
  /\ completed = {}
  /\ answers = [a \in Agents |-> [b \in Beats |-> None]]
  /\ messages = <<>>
  /\ memories = <<>>
  /\ cards = <<>>
  /\ lastSpeaker \in Agents \cup {None}
  /\ step = "idle"
  /\ plan = None
  /\ left = {}
  /\ beat = 1
  /\ completion = None
  /\ visible = <<>>

-----------------------------------------------------------------------------
(* Who speaks, and in which order.                                         *)

Least(S) == CHOOSE a \in S : \A b \in S : a <= b

\* Round robin through the selected agents.
NextAfter(a, S) ==
  LET after == {b \in S : b > a} IN Least(IF after # {} THEN after ELSE S)

BestFit(S) ==
  CHOOSE a \in S : \A b \in S : Score[a] > Score[b] \/ (Score[a] = Score[b] /\ a <= b)

\* _speaker_order: the agent the prompt names, the research lead, or the one
\* after the last speaker; the others follow in the order of AGENT_IDS.
FirstSpeaker(S) ==
  CASE S \cap Named # {} -> Least(S \cap Named)
    [] S \cap Named = {} /\ Scope = "lead" -> BestFit(S)
    [] S \cap Named = {} /\ Scope # "lead" /\ lastSpeaker \in S -> NextAfter(lastSpeaker, S)
    [] OTHER -> Least(S)

\* collect_for_prompt: whether a page could be read, and the worst failure.
SourceOutcomes ==
  IF UrlsGiven
  THEN [sources : BOOLEAN, failures : {"none", "plain", "searchable"}]
         \ {[sources |-> FALSE, failures |-> "none"]}
  ELSE {[sources |-> FALSE, failures |-> "none"]}

\* The first agent in speaking order that can search instead of the reader.
FallbackAgent(S, first, failures) ==
  IF failures # "searchable" \/ Scope = "none" \/ S \cap Searchers = {} THEN None
  ELSE IF first \in Searchers THEN first
  ELSE Least(S \cap Searchers)

Speaker ==
  IF plan.fallback \in left THEN plan.fallback
  ELSE IF plan.first \in left THEN plan.first
  ELSE Least(left)

-----------------------------------------------------------------------------
(* Executions begin, and end before their time.                            *)

FinishedAgents == {o.agent : o \in {p \in completed : p.kind = "agent_finished"}}

\* Before there is a ledger, the agents that have spoken count as finished.
DoneAgents ==
  IF ledger = <<>> THEN {messages[i].agent : i \in DOMAIN messages} ELSE FinishedAgents

\* An execution for the agents in S; without any it only closes the turn.
Execute(S, resumed) ==
  /\ turn' = "running"
  /\ attempts' = attempts + 1
  /\ step' = IF S = {} THEN "close" ELSE "user"
  /\ left' = S
  /\ beat' = 1
  /\ completion' = None
  /\ visible' = <<>>
  /\ \E out \in SourceOutcomes :
       LET first == IF S = {} THEN None ELSE FirstSpeaker(S) IN
       plan' = [resumed |-> resumed,
                prompted |-> resumed /\ prompts > 0,
                sources |-> out.sources,
                failures |-> out.failures # "none",
                first |-> first,
                fallback |-> FallbackAgent(S, first, out.failures)]
  /\ UNCHANGED <<prompts, evidence, result, operations, records>>

BeginRound ==
  /\ turn = "absent"
  /\ attempts < MaxAttempts
  /\ Execute(Participants, FALSE)

ResumeRound ==
  /\ turn = "stopped"
  /\ attempts < MaxAttempts
  /\ Execute(Participants \ DoneAgents, TRUE)

EndExecution ==
  /\ step' = "idle"
  /\ plan' = None
  /\ left' = {}
  /\ beat' = 1
  /\ completion' = None
  /\ visible' = <<>>

\* A crash, a storage error, a budget, or (while a page or an answer is
\* awaited) a timeout or a lost connection.  What was committed stays.
StopRound ==
  /\ turn = "running"
  /\ turn' = "stopped"
  /\ EndExecution
  /\ UNCHANGED <<attempts, prompts, evidence, result, operations, records>>

\* While this turn rests, the room may run others in the same project.
OtherTurn ==
  /\ turn # "running"
  /\ \E a \in Agents : lastSpeaker' = a
  /\ UNCHANGED <<row, operations, messages, memories, cards, step, task>>

-----------------------------------------------------------------------------
(* Before the first agent.                                                 *)

Skipped == plan.failures /\ ~plan.sources /\ plan.fallback = None

\* The user message is stored, or the one of an earlier attempt updated.
WriteUserMessage ==
  /\ step = "user"
  /\ prompts' = IF plan.prompted THEN prompts ELSE prompts + 1
  /\ evidence' = CASE plan.sources -> "direct"
                   [] ~plan.sources /\ plan.fallback # None -> "search_pending"
                   [] Skipped -> "unavailable"
                   [] OTHER -> "not_requested"
  /\ step' = IF Skipped THEN "close" ELSE "ask"
  /\ UNCHANGED <<turn, attempts, result, operations, records, task>>

-----------------------------------------------------------------------------
(* One beat of the current agent.                                          *)

Operation(kind) == [agent |-> Speaker, beat |-> beat, kind |-> kind]

\* begin_turn_operation inserts the row unless it is there.
Claim(kind) ==
  ledger' = IF \E i \in DOMAIN ledger : ledger[i] = Operation(kind)
            THEN ledger ELSE Append(ledger, Operation(kind))

\* complete_turn_operation; completing again with the same result is fine.
Settle(kind) == completed' = completed \cup {Operation(kind)}

Searching == Speaker = plan.fallback /\ beat = 1

\* A search answer without citations is discarded: nothing of it is stored.
Uncited(answer) == Searching /\ ~answer.cited

AfterAnswer(answer) == IF Uncited(answer) THEN "agent_begin" ELSE "message_begin"

\* Mutant of RecoverCompletion: a checkpointed answer is taken for a
\* finished beat.
RecoverAsFinished ==
  /\ step = "ask"
  /\ Operation("provider_completion") \in completed
  /\ completion' = answers[Speaker][beat]
  /\ step' = "agent_begin"
  /\ UNCHANGED <<row, operations, records, plan, left, beat, visible>>

\* recover_completion: a checkpointed answer is used instead of a new one.
RecoverCompletion ==
  /\ step = "ask"
  /\ Operation("provider_completion") \in completed
  /\ completion' = answers[Speaker][beat]
  /\ step' = AfterAnswer(completion')
  /\ UNCHANGED <<row, operations, records, plan, left, beat, visible>>

\* Mutant of AskProvider: the checkpoint is not looked for.
AskProviderAgain ==
  /\ step = "ask"
  /\ Claim("provider_completion")
  /\ step' = "asking"
  /\ UNCHANGED <<row, completed, answers, records, task>>

AskProvider ==
  /\ step = "ask"
  /\ Operation("provider_completion") \notin completed
  /\ Claim("provider_completion")
  /\ step' = "asking"
  /\ UNCHANGED <<row, completed, answers, records, task>>

\* The provider answers and the answer is checkpointed.
ProviderAnswers ==
  /\ step = "asking"
  /\ \E answer \in {c \in Completions : c.search = Searching} :
       /\ answers' = [answers EXCEPT ![Speaker][beat] = answer]
       /\ completion' = answer
       /\ step' = AfterAnswer(answer)
  /\ Settle("provider_completion")
  /\ UNCHANGED <<row, ledger, records, plan, left, beat, visible>>

\* A timeout, no response or an error: only a memory of it is recorded.
ProviderFails ==
  /\ step = "asking"
  /\ completion' = None
  /\ step' = "memory_begin"
  /\ UNCHANGED <<row, operations, records, plan, left, beat, visible>>

BeginOperation(at, kind, next) ==
  /\ step = at
  /\ Claim(kind)
  /\ step' = next
  /\ UNCHANGED <<row, completed, answers, records, task>>

CompleteOperation(at, kind, next) ==
  /\ step = at
  /\ Settle(kind)
  /\ step' = next
  /\ UNCHANGED <<row, ledger, answers, records, task>>

\* Mutant of BeginMessage: the message is checkpointed before it is stored.
SettleMessageFirst == CompleteOperation("message_begin", "message_committed", "message_add")

BeginMessage == BeginOperation("message_begin", "message_committed", "message_add")

Of(entry) == entry.agent = Speaker /\ entry.beat = beat

\* Mutant of AddMessage: the operation identifier is not looked up.
AddMessageAgain ==
  /\ step = "message_add"
  /\ messages' = Append(messages, [agent |-> Speaker, beat |-> beat, answer |-> completion])
  /\ lastSpeaker' = Speaker
  /\ step' = "message_done"
  /\ UNCHANGED <<row, operations, memories, cards, task>>

\* add_message returns the message the operation has already stored.
AddMessage ==
  /\ step = "message_add"
  /\ IF \E i \in DOMAIN messages : Of(messages[i])
     THEN UNCHANGED <<messages, lastSpeaker>>
     ELSE /\ messages' =
               Append(messages, [agent |-> Speaker, beat |-> beat, answer |-> completion])
          /\ lastSpeaker' = Speaker
  /\ step' = "message_done"
  /\ UNCHANGED <<row, operations, memories, cards, task>>

CommitMessage == CompleteOperation("message_done", "message_committed", "memory_begin")

BeginMemory == BeginOperation("memory_begin", "memory_committed", "memory_add")

\* add_memory_event returns the event the operation has already stored.
AddMemory ==
  /\ step = "memory_add"
  /\ memories' =
       IF \E i \in DOMAIN memories : Of(memories[i]) THEN memories
       ELSE Append(memories, [agent |-> Speaker, beat |-> beat, failure |-> completion = None])
  /\ step' = IF completion = None THEN "memory_done" ELSE "card_add"
  /\ UNCHANGED <<row, operations, messages, cards, lastSpeaker, task>>

\* add_global_memory_event copies the memory event, once for each event.
AddGlobalMemory ==
  /\ step = "card_add"
  /\ \E i \in DOMAIN memories :
       /\ Of(memories[i])
       /\ cards' = IF \E k \in DOMAIN cards : Of(cards[k]) THEN cards
                   ELSE Append(cards, memories[i])
  /\ step' = "memory_done"
  /\ UNCHANGED <<row, operations, messages, memories, lastSpeaker, task>>

CommitMemory == CompleteOperation("memory_done", "memory_committed", "beat_begin")

BeginFinishBeat == BeginOperation("beat_begin", "beat_finished", "beat_done")

\* Mutant of FinishBeat: one beat too many.
FinishBeatOffByOne ==
  /\ step = "beat_done"
  /\ Settle("beat_finished")
  /\ visible' = IF completion = None THEN visible
                ELSE Append(visible, CHOOSE m \in {messages[i] : i \in DOMAIN messages} : Of(m))
  /\ IF completion # None /\ completion.continue /\ beat <= MaxBeats
     THEN step' = "ask" /\ beat' = beat + 1
     ELSE step' = "agent_begin" /\ UNCHANGED beat
  /\ UNCHANGED <<row, ledger, answers, records, plan, left, completion>>

\* The response becomes visible to the room, and the agent goes on if it
\* asked to and may; a failed beat ends its part.
FinishBeat ==
  /\ step = "beat_done"
  /\ Settle("beat_finished")
  /\ visible' = IF completion = None THEN visible
                ELSE Append(visible, CHOOSE m \in {messages[i] : i \in DOMAIN messages} : Of(m))
  /\ IF completion # None /\ completion.continue /\ beat < MaxBeats
     THEN step' = "ask" /\ beat' = beat + 1
     ELSE step' = "agent_begin" /\ UNCHANGED beat
  /\ UNCHANGED <<row, ledger, answers, records, plan, left, completion>>

BeginFinishAgent == BeginOperation("agent_begin", "agent_finished", "agent_done")

\* The room's loop goes on with the agents in S.
Proceed(S) ==
  /\ left' = S
  /\ step' = IF S = {} THEN "close" ELSE "ask"
  /\ beat' = 1

\* Mutant of FinishAgent: the loop does not advance.
FinishAgentInPlace ==
  /\ step = "agent_done"
  /\ Settle("agent_finished")
  /\ Proceed(left)
  /\ UNCHANGED <<row, ledger, answers, records, plan, completion, visible>>

FinishAgent ==
  /\ step = "agent_done"
  /\ Settle("agent_finished")
  /\ IF Speaker = plan.fallback
     THEN step' = "evidence" /\ UNCHANGED <<left, beat>>
     ELSE Proceed(left \ {Speaker})
  /\ UNCHANGED <<row, ledger, answers, records, plan, completion, visible>>

-----------------------------------------------------------------------------
(* The end of the round.                                                   *)

\* Mutants of RecordEvidence: any search counts as cited; the loop does not
\* end without evidence.
RecordAnySearch ==
  /\ step = "evidence"
  /\ evidence' = IF plan.sources THEN "direct_and_search" ELSE "search_cited"
  /\ Proceed(left \ {plan.fallback})
  /\ UNCHANGED <<turn, attempts, prompts, result, operations, records, plan, completion, visible>>

RecordAndGoOn ==
  /\ step = "evidence"
  /\ evidence' = "unavailable"
  /\ Proceed(left \ {plan.fallback})
  /\ UNCHANGED <<turn, attempts, prompts, result, operations, records, plan, completion, visible>>

\* What the search brought is noted in the user message; with neither pages
\* nor citations the other agents are not prompted.
RecordEvidence ==
  /\ step = "evidence"
  /\ LET found == \E i \in DOMAIN visible : visible[i].agent = plan.fallback IN
     /\ evidence' = IF found
                    THEN IF plan.sources THEN "direct_and_search" ELSE "search_cited"
                    ELSE IF plan.sources THEN "direct" ELSE "unavailable"
     /\ Proceed(IF found \/ plan.sources THEN left \ {plan.fallback} ELSE {})
  /\ UNCHANGED <<turn, attempts, prompts, result, operations, records, plan, completion,
                 visible>>

\* Mutant of CompleteRound: only this attempt's messages are the result.
CompleteWithVisible ==
  /\ step = "close"
  /\ turn' = "completed"
  /\ result' = visible
  /\ EndExecution
  /\ UNCHANGED <<attempts, prompts, evidence, operations, records>>

\* A resumed turn answers with everything stored for it.
CompleteRound ==
  /\ step = "close"
  /\ turn' = "completed"
  /\ result' = IF plan.resumed THEN messages ELSE visible
  /\ EndExecution
  /\ UNCHANGED <<attempts, prompts, evidence, operations, records>>

Step ==
  \/ WriteUserMessage
  \/ RecoverCompletion \/ AskProvider \/ ProviderAnswers \/ ProviderFails
  \/ BeginMessage \/ AddMessage \/ CommitMessage
  \/ BeginMemory \/ AddMemory \/ AddGlobalMemory \/ CommitMemory
  \/ BeginFinishBeat \/ FinishBeat
  \/ BeginFinishAgent \/ FinishAgent
  \/ RecordEvidence \/ CompleteRound

Next == BeginRound \/ ResumeRound \/ Step \/ StopRound \/ OtherTurn

Spec == Init /\ [][Next]_vars

\* An execution that is not stopped goes on: provider runs end by themselves
\* or by their own timeout.
FairSpec == Spec /\ WF_vars(Step)

-----------------------------------------------------------------------------
(* Properties.                                                             *)

Messages == [agent : Agents, beat : Beats, answer : Completions]
Memories == [agent : Agents, beat : Beats, failure : BOOLEAN]
Steps == {"idle", "user", "ask", "asking", "message_begin", "message_add", "message_done",
          "memory_begin", "memory_add", "card_add", "memory_done", "beat_begin", "beat_done",
          "agent_begin", "agent_done", "evidence", "close"}
Plans == [resumed : BOOLEAN, prompted : BOOLEAN, sources : BOOLEAN, failures : BOOLEAN,
          first : Agents \cup {None}, fallback : Agents \cup {None}]

TypeOK ==
  /\ turn \in {"absent", "running", "stopped", "completed"}
  /\ attempts \in Nat
  /\ prompts \in Nat
  /\ evidence \in {"none", "not_requested", "direct", "search_pending", "search_cited",
                   "direct_and_search", "unavailable"}
  /\ result \in Seq(Messages) \cup {None}
  /\ ledger \in Seq(Operations)
  /\ completed \subseteq Operations
  /\ answers \in [Agents -> [Beats -> Completions \cup {None}]]
  /\ messages \in Seq(Messages)
  /\ memories \in Seq(Memories)
  /\ cards \in Seq(Memories)
  /\ lastSpeaker \in Agents \cup {None}
  /\ step \in Steps
  /\ plan \in Plans \cup {None}
  /\ left \subseteq Agents
  /\ beat \in Beats
  /\ completion \in Completions \cup {None}
  /\ visible \in Seq(Messages)

\* What the ledger and the tables have of a beat.
Settled(a, b, kind) == [agent |-> a, beat |-> b, kind |-> kind] \in completed
Has(entries, a, b) == \E i \in DOMAIN entries : entries[i].agent = a /\ entries[i].beat = b
HasFailure(entries, a, b) ==
  \E i \in DOMAIN entries : entries[i].agent = a /\ entries[i].beat = b /\ entries[i].failure

OncePerBeat(entries) ==
  \A i, k \in DOMAIN entries :
    entries[i].agent = entries[k].agent /\ entries[i].beat = entries[k].beat => i = k

\* However often the turn is cut short between two transactions and resumed,
\* the prompt is stored once, and each beat leaves at most one message, one
\* memory event, one cross-project card and one row for each operation.
NothingIsDuplicated ==
  /\ prompts <= 1
  /\ OncePerBeat(messages) /\ OncePerBeat(memories) /\ OncePerBeat(cards)
  /\ \A i, k \in DOMAIN ledger : ledger[i] = ledger[k] => i = k

Backed(a, b) ==
  /\ Settled(a, b, "provider_completion") <=> answers[a][b] # None
  /\ Has(messages, a, b) => Settled(a, b, "provider_completion")
  /\ Settled(a, b, "message_committed") => Has(messages, a, b)
  /\ Has(memories, a, b) => Settled(a, b, "message_committed") \/ HasFailure(memories, a, b)
  /\ Settled(a, b, "memory_committed") =>
       Has(memories, a, b) /\ (Has(cards, a, b) \/ HasFailure(memories, a, b))
  /\ Settled(a, b, "beat_finished") => Settled(a, b, "memory_committed")
  /\ \A i \in DOMAIN messages : messages[i].agent = a /\ messages[i].beat = b
                            => messages[i].answer = answers[a][b]

\* No checkpoint runs ahead of its data: what the ledger calls completed is
\* in the table it stands for, the stages of a beat complete in order, and the
\* answer that is published is the one that was checkpointed, whichever attempt
\* asked for it.
CheckpointsAreBacked == \A a \in Agents, b \in Beats : Backed(a, b)

\* Once an answer is checkpointed it stays, and no later attempt sends the
\* provider another request for that beat.
AnswersAreKept ==
  [][\A a \in Agents, b \in Beats : answers[a][b] # None =>
       /\ answers'[a][b] = answers[a][b]
       /\ step' = "asking" => <<Speaker, beat>>' # <<a, b>>]_vars

Whole(op) ==
  /\ \A b \in 1..op.beat : Has(memories, op.agent, b)
  /\ \A b \in Beats : Has(messages, op.agent, b) => Has(memories, op.agent, b)
  /\ \/ op.beat = MaxBeats
     \/ answers[op.agent][op.beat] = None
     \/ ~answers[op.agent][op.beat].continue

\* With addresses in the prompt, a first answer without citations may have
\* been taken for a search and discarded.
Discarded(op) ==
  UrlsGiven /\ op.beat = 1 /\ answers[op.agent][1] # None /\ ~answers[op.agent][1].cited

\* An agent that the ledger calls finished has nothing left to do: each of
\* its messages is remembered, and its last beat failed, did not ask for
\* another one or was the last allowed; unless its search was discarded.
FinishedIsWhole ==
  \A op \in completed : op.kind = "agent_finished" => Whole(op) \/ Discarded(op)

\* A completed turn's stored result has every agent message stored for the
\* turn, in order, those of earlier attempts included.
ResultIsTranscript == turn = "completed" => result = messages

\* The room claims search evidence only with a stored message that cites it.
EvidenceIsBacked ==
  evidence \in {"search_cited", "direct_and_search"} =>
    \E i \in DOMAIN messages : messages[i].answer.cited

\* With pages that cannot be read, an agent is prompted only to search for
\* them or after a search of this execution has cited something.
NoEvidenceNoPrompt ==
  step = "asking" /\ plan.failures /\ ~plan.sources =>
    \/ Speaker = plan.fallback
    \/ \E i \in DOMAIN visible : visible[i].agent = plan.fallback /\ visible[i].answer.cited

\* Under the bound on attempts, an execution always ends.
RoundEnds == turn = "running" ~> turn # "running"

-----------------------------------------------------------------------------
(* The round implements TurnTranscript.                                    *)

Transcript(entries) == [i \in DOMAIN entries |-> <<entries[i].agent, entries[i].beat>>]

Reader == INSTANCE TurnTranscript
  WITH NoResult <- None,
       published <- Transcript(messages),
       finished <- FinishedAgents,
       result <- IF turn = "completed" THEN Transcript(result) ELSE None

\* To a reader of the room, every step is one of the transcript's or nothing.
ImplementsTranscript == Reader!Spec

-----------------------------------------------------------------------------
(* What the documentation says and the code does not do.                   *)

\* README.md:120-122: recovery starts at the first unfinished stage without
\* "changing sequential room causality": an agent that has begun to speak
\* ends its part before another one speaks.
AgentsSpeakInSequence ==
  \A i, j, k \in DOMAIN messages :
    i < j /\ j < k /\ messages[i].agent = messages[k].agent
      => messages[j].agent = messages[i].agent

\* SECURITY.md:96-97 and the agents' prompt (orchestration_prompts.py:210):
\* the continuity cards are summaries of successful returns.
CardsAreSuccesses == \A i \in DOMAIN cards : ~cards[i].failure

\* README.md:209-210: "Uncited search output is treated as no evidence and is
\* not stored as an agent response."
UncitedSearchIsNotStored ==
  \A i \in DOMAIN messages : messages[i].answer.search => messages[i].answer.cited
===============================================================================
