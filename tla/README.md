# Motif Feedback: a verification project

TLA+ modules, model-checking configurations and machine-checked proofs for
Motif Feedback, a local web application in which up to a handful of language
model agents answer a prompt one after the other in a shared room, remember it,
write project files and let the user run Python in an isolated container.

`PROJECT.json` is the index: components, runs, mutants, the source lines that
each definition models, findings, hazards and theorems. Paths below are relative
to `src/motif_feedback/` unless they begin with `src/`.

## The system

One process (FastAPI on an asyncio loop, with a thread pool for the handlers
that are not coroutines) holds all state in one SQLite database and a tree of
files below `workspace/`. A second container, the runner, executes Python. The
browser page keeps a queue of prompts of its own.

| component | state it keeps | operations | interacts with |
|---|---|---|---|
| turn life cycle (`turn_service.py`, `storage_turns.py`, `main.py`) | table `chat_turns`: status, request, provider-request count, resolution; the in-memory chat lock | begin, replay, resume, complete, fail, interrupt, accept as partial, prune; crash and restart | handlers call it under the chat lock, except acceptance; runs the agent round; project deletion removes its rows |
| agent round (`orchestrator.py`, `agent_turn_execution.py`, `execution_ledger.py`) | table `turn_operations` (checkpoints), the messages and memories of the turn; the loop's local variables | order the speakers, read sources, ask a provider, checkpoint, store a message, a memory and a card, finish a beat and an agent, note evidence | called by the turn service; provider loop; message and memory storage |
| provider loop and tools (`providers.py`, `agent_tools.py`) | rounds of tool calls within one request; tool operations in `turn_operations` | request, call tools, replay a completed tool, verify an uncertain one | file tools, persona store, motif storage |
| project files (`file_tools.py`, `storage_files.py`, `atomic_files.py`) | the tree of a project, table of owners and sharing | write, upload, delete, share | agents (event loop), user (thread pool) |
| code runs (`run_coordinator.py`, `run_sessions.py`, `code_runner.py`, `src/runner/service.py`) | one session: events, input queue, cancel event; a socket; the runner's process | run, input, EOF, cancel, hang up; pump, kill, reply | endpoints in threads, a client thread, the runner's single-threaded service, the program |
| motifs (`storage_motifs.py`, `motif_checkpoints.py`, `motif_trajectories.py`) | motifs, aliases, events, batches, connections, choices about patterns | record a batch, promote, set a status, choose how a pattern is treated | recorded by a tool; a stored message is attached as evidence |
| persona store (`persona_store.py`) | persona files, history, change log, dormant records | submit, commit, suggest, supersede, incorporate, edit, clear a position | agent tools; manual edits; project deletion |
| project storage (`storage_projects.py`) | table `projects`, directories | create, delete with quarantine | every component by foreign key |
| memory, web sources, analytics, bridge, export, catalogue, configuration, pages | rows written once, projections, settings | | |

What is hard: turns outlive the process that runs them; a turn is cut short
between any two of some ten transactions per beat and resumed later; connections
are lost while their request waits for a lock; one handler (acceptance) does
not take the lock; in a code run four parties (browser, endpoint threads, client
thread, runner) and the program itself act at once; a file and the row of its
owner, or a persona and its history, log and records, are written one after the
other, from the event loop and from threads of the pool. `PROJECT.json` lists these
hazards one by one, each at its line, with the property that would catch it or
the reason why none does yet.

What makes each component correct:

- **turn life cycle**: a row says `running` exactly while something executes it;
  a turn that stopped stays recoverable and one that is closed is final;
  whoever waits is served; nobody gets the answer to another request.
- **agent round**: whatever crashes and resumes, each beat leaves one message,
  one memory and one card; no checkpoint runs ahead of its data; the published
  answer is the checkpointed one; the result has all messages; evidence is
  claimed only when there is some.
- **code runs**: the transcript is causal, the result of a run has all of it and
  the message in the room says so when it was cut; no program is alive when a run
  is recorded or the next one can come in; runs always end.
- **files and tools**: an operation takes effect once, whatever is interrupted and
  repeated, and what the agent is told about it is true; agents touch only what
  they own or what is shared; nothing of a deleted project is reachable.
- **provider loop**: requests, tool rounds and reminders are bounded, so that each
  execution ends whatever the provider answers.
- **motifs**: a batch counts once and as a whole; a motif is supported after two
  distinct turns unless the user says otherwise; evidence is the beat's own;
  choices are about patterns that did recur.
- **personas**: what is structural is the user's alone; no two active records name
  the same path; every version ever saved is kept.

## Modules

| module | what it is |
|---|---|
| `ChatTurns` | the rows of `chat_turns`, the connections that wait for the chat lock, acceptance, deletion, hang-ups, crash and restart |
| `RoomTurns` | abstract: a room in which one turn runs at a time, without lock, connections or crashes |
| `ChatTurnsProofs` | theorems about `ChatTurns`, among them that it implements `RoomTurns` |
| `AgentRound` | the agents' loop of one turn at the grain of its transactions, stopped and resumed anywhere |
| `AgentRoundProofs` | theorems about `AgentRound`, among them that it implements `TurnTranscript` |
| `TurnTranscript` | abstract: a transcript that only grows, in which each agent speaks its beats once and in order |
| `CodeRun` | endpoints, session, client thread, socket, runner and an arbitrary program |
| `CodeRunProofs`, `TranscriptProofs` | theorems about `CodeRun`: the runner, and the transcript |
| `ProjectFiles` | the tree of one project and the rows of its owners: uploads, writes, threads that delete and share, deletion of the project |
| `ToolLoop` | the requests of one turn and the tools called on the way, over `ProjectFiles` |
| `ToolEffects` | abstract: what the identifier of a tool operation promises |
| `ToolLoopProofs` | theorems about `ToolLoop` and `ProjectFiles`: the files, and the operations, which implement `ToolEffects` |
| `Motifs` | observation batches, motifs, evidence and pattern choices over turns that are stopped and resumed |
| `MotifsProofs` | theorems about `Motifs` |
| `Personas` | the files about one agent's persona, write by write |
| `PersonasProofs` | theorems about `Personas` |
| `SequenceLemmas` | what the proofs share: least and greatest numbers, and joined sequences |
| `MCChatTurns`, `MCAgentRound`, `MCCodeRun`, `MCToolLoop`, `MCMotifs`, `MCPersonas` | constants for TLC |

The levels of a turn meet in two places. `ChatTurns` treats the execution of a turn as
one activity that ends in completion, failure, interruption or a crash;
`AgentRound` opens this activity up for one turn, and reduces the row to
`running`, `stopped` and `completed`. Its `StopRound` stands for everything that
`FailTurn`, `InterruptTurn`, `Crash` and `Restart` of `ChatTurns` do to a running
turn. `ToolLoop` opens up the one step in which `AgentRound` asks a provider
(`AskProvider`): the rounds of tool calls until the answer that is checkpointed.
It has one beat for each agent, since the identifiers of operations keep the beats
apart. `Motifs` has the beats of several turns, each reduced to its recorded
batch, its stored reply and the attachment of one to the other.

### ChatTurns

`durable` is the database: for each turn its status, request, count of provider
requests and resolution, and the projects that exist. `tasks` is the process: for
each client connection its job, its place in the queue for the lock and what it
was told. One action per handler or part of a handler between two awaits:

- `SubmitPrompt`, `SubmitResume`, `SubmitDelete` put a job in the queue;
- `BeginTurn`, `ReplayTurn`, `RejectPrompt`, `ResumeTurn`, `RejectResume`,
  `DeleteProject`, `RejectDelete` are what the job finds when it gets the lock;
- `ProviderRequest`, `CompleteTurn`, `FailTurn`, `InterruptTurn` are the execution;
- `AcceptPartial` runs at any time, without the lock;
- `AbandonWait`, `InterruptTurn` are the two ways of a lost connection: a queued
  stream is cancelled, a running one interrupted;
- `Crash` loses `tasks`; `Restart` marks running rows interrupted and prunes.

The lock is fair (asyncio serves waiters in order), which the tickets model.

### AgentRound

`ledger`, `completed` and `answers` are the rows of `turn_operations`; `messages`,
`memories` and `cards` the rows of three tables with the operation identifier
they are looked up by; `step` is the place in the loop. Every transaction of
`execution_ledger.py` and of the storage calls between them is an action. The
answers a provider may give are reduced to what the loop tells apart: whether a
search was asked for, whether it cites pages, whether the agent asks for another
beat. `SourceOutcomes` are the outcomes of reading the pages of the prompt.
Left out of `AddMessage`: attaching the message to motifs
(`agent_turn_execution.py:486-498`, which is `AttachReply` of `Motifs`), and the
prompt-run and exposure rows for analytics, whose failure the code logs and
ignores.

### CodeRun

`session` is `CodeRunSession`, `thread` the client in its thread (its loop is
`SendCancel`, `SendQueued`, `Receive`), `link` the two directions of the socket,
`runner` the service's loop, `program` any script. Inputs have size 1, except
the standard input a request brings; an output chunk is represented by the
number of inputs that the program had read when it wrote it, which is all that
causality needs. The socket of the runner is non-blocking, so a write fails when
the client has left `SocketCapacity` events unread (`PumpFails`). The
client's deadline (`GiveUp`) covers a response that exceeds its bound too.
Connecting, sending the request and its acceptance by the listening service are one
step; a request beyond the client's own limit ends there (`"oversized"`). The
service reads the request through a buffer (`ReadRequest`), so commands that arrive
right behind it may be lost, a cancellation among them. The message of the room
has less than the result of the run: its output is cut at the room's limit of
characters, which the model does not count (`Shown`: any prefix, flagged if it is
a proper one).

### ProjectFiles and ToolLoop

`file` is the tree, `owner` the table `file_ownership`. What runs on the event loop
(uploads, the agents' writes, deletion of the project) is serial, and its steps
are kept apart because the process may die, or the disk fail, between any two of
them, and because the threads of the pool (`thread`: the user's deletions and
sharing) go on meanwhile. A write is `StartWrite`, `PutFile`, `RecordOwner`; a
deletion `BeginDelete`, `Unlink`, `RemoveOwner`; the deletion of the project
`BeginDeleteProject` (the folder gets another name), `CommitDeletion` or
`AbortDeletion`, `RemoveTree`. `maker` and `consent` are not in the code: they
remember who created the file that is there, and for whose file the user has
enabled sharing, and exist for the properties.

`loop` has the local variables of `run_agent`: round, calls so far, reminders, the
call in progress. An operation is `absent`, `started`, `ok` or `error` in `ledger`;
`BeginOperation` is its transaction at the beginning, the three `Recover` actions
what happens to one that an earlier attempt left `started`, the three `Run` actions
its execution, `CompleteOperation` its settlement. `effects` counts for the properties
how often an operation has changed anything, and `held` remembers the writes whose
content was in the file during the call that is under way, or that answered them
(`Observe`, beside every step): a write that is said to be done but was neither put
nor found in place is one that is `ok` and not held. `RecoverMotifs` reads it where the
code reads the batch stored under the operation's identifier. Files are directly
in the project's folder; subfolders, whose empty parents a deletion removes, and
the checks of suffix, size and SVG content, which refuse before anything happens,
are left out. A malformed call and a tool that only reads are one kind of step.

### Motifs

The tables `motifs`, `motif_aliases`, `motif_events`, `motif_observation_batches` and
`motif_pattern_preferences`, with rows numbered in the order of insertion.
`RecordMotifObservations` is one transaction, a function of the number of observations
recorded as the code loops over them, and refused as a whole when one of them is; `ValidBatches`
are the batches that pass validation, with numbers of other observers' motifs
among them. `StoreReply` and `AttachReply` are two transactions with a possible
stop between them. A user's choice about a pattern is `ChoosePreference`
(the check) and `SetPreference` (the write). Agents speak in the order of their
numbers; the code settles the order anew on every attempt (`orchestrator.py:300-337`),
which `AgentRound` models and on which nothing here depends. Left out: descriptions, confidence,
connections between motifs, and the ranking of patterns, which only select what
is shown.

### Personas

The files about one agent: `persona`, its `history`, its `log`, its `records`.
`SubmitUpdate` and `SaveUserEdit` are the two operations up to their first write;
then each file write is an action (`Snapshot`, `WritePersona`, `AppendLog`,
`Reconcile` and `Supersede` for one record each, `SaveCandidate`), and `Crash` may come
between any two. `OpenEditor` shows the user a copy that may be outdated when it is
saved. Fields are the leaves of the YAML document and a path covers some of them.
One of the fields is the update policy, which the user may edit like any other and
which agents cannot (a path that covers it is locked): `RequiredEvidence` reads it,
and a record keeps what was required of it when it was saved.

## Runs

| run | configuration | shows |
|---|---|---|
| `chat_turns` | 2 connections, 2 turn identifiers, 2 requests to 2 projects, 2 provider requests, 3 submissions, fairness (so no symmetry) | the rows always tell the truth; implements `RoomTurns`; waiters are served; runs end; 178,140 states |
| `agent_round` | 2 agents of up to 2 beats, 2 attempts, no pages | recovery at every stage, implements `TurnTranscript`, the round ends |
| `agent_round_search` | 2 agents of 1 beat, 3 attempts, pages that may fail, both can search, one is named in the prompt | evidence, fallback, skipped rounds |
| `agent_round_order`, `agent_round_cards`, `agent_round_uncited` | smaller instances | the findings below |
| `code_run` | 2 runs, 1 command, 3 chunks of output of which 2 fit the limit, standard input of size 0 or 2, 1 unread event | causality, completeness of the result and honesty of the message, clean runner, liveness; 521,606 states |
| `code_run_record` | 1 run, 1 chunk, 1 command | the finding below |
| `tool_loop` | one agent that calls and one that owns files, 1 path, 2 contents, 1 thread, 2 requests of the user, 2 executions of the turn, 1 round with 1 call, 1 reminder | operations take effect once and say so truly (implements `ToolEffects`), ownership, deletion, the loop ends; 444,091 states |
| `tool_loop_consent` | the same with two agents that write | the finding below |
| `motifs` | 2 turns of up to 2 beats, one agent in both and one in the second, 2 labels, batches of 2, 3 observations, 1 rejection by the user; labels symmetric | batches, promotion against the user's word, evidence, choices; 1,176,405 states |
| `personas` | 4 fields, the update policy among them, and a path to each, of which the policy's is locked; 2 values, 2 memory events (symmetric), 2 updates of up to 2 changes, 1 edit, 1 crash | structure, records, history; 2,088,327 states |

Why the bounds are enough. Two connections and two turns give every pair of
handlers that may race (lock holder against waiter, acceptance against resume,
deletion against a queued prompt); a third adds another waiter behind the same
lock. The safety properties were also checked with four submissions and
symmetric connections and turns (some 770,000 states). Two attempts are one
interruption at every stage and its recovery; three, in `agent_round_search`, let
the plan change twice. The first instance was also
run with three attempts (1,949,390 states), with the same outcome. Two beats are
the least with which a resumed agent is in the middle of its part. In a code run
the second request matters only as the one that meets what the first has left.
In `tool_loop`, one path suffices because the steps on different paths touch
different files and rows, and two requests of the user are what it takes for a
deletion or a deletion of the project to race another request; the second
execution is the one that meets the operation which the first has left open.
In `motifs`, `MinTurns` is 2 where the code has 3, and `Window` 3 where it has 64:
the patterns are the same with fewer turns, and the three observations do not exceed
the window. The user's one choice of a status is the one that contradicts a promotion
and takes a motif out of the patterns. That what holds here holds with any window and
any statuses is proved (`MotifsProofs`). In `personas`, relationship memory needs two events, so that one update is too early
and two together are enough (one, after an edit of the policy), and a second update of two changes is what may
contradict two records at once.

`CHECK_DEADLOCK FALSE` is set for `CodeRun`, `ToolLoop`, `Motifs` and `Personas`: when
their bounds on runs, attempts, observations or updates are used up, nothing more
happens.

Fairness. `ChatTurns`: each connection at the head of the queue is eventually
served and an execution goes on or ends, because every await in it has a
timeout (providers, pages, the room's own budget); the process restarts
eventually after a crash (the container's restart policy); nothing is assumed of
clients. `AgentRound`: the current execution takes its next step; stopping,
resuming and other turns need not happen. `CodeRun`: the client thread, the
recording handler and the runner go on; the program, the browser and the
client's deadline need not do anything. `ToolLoop`: the turn and a write in
progress take their next step (a request to a provider has a deadline, the rest is
code that runs); users, threads, crashes and new attempts need not come, and
`LoopEnds` would fail without the limits on rounds, calls and reminders. In a code
run everything ends because the runner has its own deadline (the action `LoopEnds`
of `CodeRun`), which is therefore part of the fair actions.

## Mutants

Each property of a passing run is broken by at least one plausible change of a
modelled definition (a missing guard, a dropped check for an existing row, a
wrong order of two transactions); these are the operators marked "Mutant of" in
the modules, and `PROJECT.json` pairs them with the properties.

## Proofs

TLC checks the instances above; TLAPS proves the following for all values of the
constants that satisfy the named assumptions.

`ChatTurnsProofs` (assumptions: those of `ChatTurns` on its constants).

- The inductive invariant `IInv` has the types of rows and tasks, tickets that
  are distinct and below the next one, at most one holder of the lock, a job in
  execution only with a matching row, and an accepted row only in a stopped
  state. It is needed because `RunningMeansExecuting` alone does not exclude two
  lock holders, one of which would stop the other's turn.
- From it: `TypeCorrect`, `RunningTurnsHaveARun`, `AcceptanceCloses`,
  `ConnectionsGetTheirOwnTurn`, `ClosedTurnsAreFinal`, `RecoveryIsNotForgotten`
  and `RoomRefinement` (each step of the server is one of the room's or none).
- `BudgetHolds` uses a second invariant, `RequestsAreCounted`, which relates the
  count in the row of a running turn to the count of its task.

`AgentRoundProofs` (assumptions: those of `AgentRound` on its constants).

- The properties of the tables are not inductive, since an attempt may stop between
  any two transactions, and what a later step stores depends on where the execution
  thinks it is. `IInv` has the tables (`Stored`), and a conjunct for each thing
  that a position of the execution owes to them: the row of the stage in progress
  (`ClaimInv`), the earlier beats of the agent (`PathInv`), the checkpointed answer
  that it holds (`AnswerInv`), what is stored at each step of a beat (`StageInv`)
  and at the end of an agent's part (`EndInv`), and what the responses it has seen
  are (`VisibleInv`, `FirstInv`). Positions begin anew with every attempt; going
  through the stages again, whatever the tables hold, establishes the conjuncts again.
- From it: `TypesHold`, `NoDuplicates`, `CheckpointsBacked`, `FinishedWhole`,
  `ResultsAreTranscripts`, `EvidenceBacked`, `NoPromptWithoutEvidence`, the action
  property `AnswersStay` and `RoundImplementsTranscript`, the refinement of
  `TurnTranscript`. `FinishedIsWhole` has one exception, `Discarded`: a search answer
  without citations is dropped, and its agent is finished without a message. A first
  attempt at the proof showed that it is needed whenever the prompt has addresses.

`CodeRunProofs` (assumption: `CodeRunAssumption`).

- `RunnerStaysClean`: a program is alive only in the runner's loop, the socket
  has a name only outside of the handler, and a final response is under way or
  held by the client only after the connection was closed. The last part is what
  makes the statement inductive: without it a run might be recorded with a
  response that came before the end of the program.

`TranscriptProofs` (the same assumption) adds to that invariant what `TInv` says.

- Causality: the inputs that are under way (in the session's queue, unsent, on the
  socket or in the program's own input) and those already read are together no more
  than the recorded ones (`InputInv`). A chunk carries the number of inputs read
  before it, so no chunk can claim an input that the transcript does not have yet.
- Completeness: the text of the recorded events followed by that of the events on
  the socket is what the runner has captured, from the start of the program until
  a write fails, which makes the response an error; when the response is under
  way, that is all that was written and the limit allows (`OutputInv`). What the
  room is shown follows from that: a prefix of the events has a prefix of their text.
- From it: `RunTypesHold`, `TranscriptStaysCausal`, `TranscriptBecomesComplete`.

`ToolLoopProofs` (assumptions: `ProjectFilesAssumption`, `ToolLoopAssumption`).

- `IInv` has the types of files, rows, requests and the loop (`FileTypes`,
  `LoopInv`); that while the project is being deleted, and after that, its folder
  is empty, nothing is being written and the turn is idle (`Emptied`); and that the
  row of an upload is the user's or missing, in the folder and in the tree that
  was moved away, an agent's write in progress is not to an upload, and the user's
  is to a file that did not exist (`UploadsKept`). The properties alone are not
  inductive: an aborted deletion brings files back, and a write that has looked at
  the row goes on after threads have removed it.
- From it: `UploadsAreProtected` and `DeletedProjectsAreGone`.

Its second half adds what `OInv` says of operations.

- An operation that is begun, takes effect and is completed in three steps is found
  by the next attempt only as "started". `OInv` says what an attempt may still rely
  on at each place of a call: a fresh operation has had no effect, a motif batch
  that runs has had none either, a file that is to be written again is not there
  yet, and the operation of the call is the one begun in the ledger (`CallInv`,
  `WriteInv`, `MissingInv`, `EffectInv`). `OnceAnExecution` bounds the effects of an
  operation by the executions of the turn, and by one less while it may still take
  effect in the current one; for that it orders the places of the loop (`Ahead`).
- `HeldInv` is what makes a write that says ok true: an operation that is about to be
  settled as ok is held, and so is one whose file was just put; the observation can
  only be lost when the call is cut off (`HeldKeeps`). `WritesAreHeld` joins both.
- From it: `OperationTypesHold`, `ToolResultsAreTrue`, `InterruptedWritesAreChecked`
  and `OncePerOperationHolds`, the refinement of `ToolEffects`.

`PersonasProofs` (assumption: `PersonasAssumption`).

- Between two writes of an operation the file does not change, because the lock is
  held, and after a crash the operation is gone. So the version that an operation
  is about to write is the next one (`WritesNext`; the copy in the editor is never
  newer than the file, `Newest`), the structure that an agent's operation will write is
  that of the file (`WritesStructure`), and what it overwrites is in the history
  (`OverwritesKept`). A record that is saved conflicts with no active one, and at most
  one active record has its changes, because a suggestion has at least one path
  (`Suggests`, `Speaks`). The policies by which records are measured are among the
  saved versions, of which none is ever forgotten (`PoliciesSaved`, `SavedGrows`).
- From it: `StructureStaysTheUsers`, `PathsHaveOneRecord`, `HistoryStaysComplete`.

`MotifsProofs` (assumption: `MotifsAssumption`).

- `Tables` joins the three tables. What the row of a motif knows of its events
  (`Chronicle`): its support is their number, the first one created it, and its
  counter of turns is 1 exactly while one turn has seen it. The code only compares
  the turn that sees a motif with the last one that did, so the counter itself may
  be larger than the number of turns; a status only asks whether it is at least 2.
- `ReachedInv`: events and messages of a turn lie at or before its place, and places
  only move forward (`NextPlaces`). So a beat that is over records nothing more, and
  its reply isn't attached to another. `AttachInv` says the same of the steps of the
  running beat: stored before it is attached, attached before the beat is over.
- `BatchesOK`: the events of a beat are a contiguous part of the table that its
  result tells one by one. Later steps only append events or write evidence (`Kept`).
- `EarnedInv` says of the choice between its check and its write what
  `PreferencesAreEarned` says of written ones; it stays true because events only grow
  and no motif becomes a candidate again (`Later`). That a pattern is earned when it
  is checked (`PatternsEarned`) needs that the trajectory is in the order of events.
- A transaction keeps all this observation by observation (`RecordOneKeeps`,
  `TransactionRecorded`).
- From it: `MotifTypesHold`, `BatchesStayWhole`, `UserKeepsTheLastWord`,
  `EvidenceStaysOfTheBeat` and `PreferencesStayEarned`.

The assumptions say of the constants what the code fixes: limits are natural
numbers, `None` is none of the values it is told apart from, paths that overlap are
of one kind, the path of an agent's position is one that agents may change
(`persona_store.py:34`), memory events are finitely many. TLC evaluates each of them.

`SequenceLemmas` has what several of these proofs rest on. Sequences are joined and
filtered with the community modules' `FlattenSeq`, which is a recursive function;
that it types, appends and concatenates as it should is shown from the least
index at which it would not, so that no induction principle is needed.

Only model-checked: the liveness properties `WaitersAreServed`,
`RunsEnd`, `RoundEnds`, `RunsComeToAnEnd` and `LoopEnds`, since the prover has no
rule for fairness and ENABLED that its backends support. Every other property of a
passing run is a theorem.

## Findings

Five places where the code does something other than it or its documents say; each
is a run that TLC ends with a counterexample.

1. `agent_round_order`: a resumed turn settles the speaking order anew, from a
   history that has its own messages, so another agent can speak between the
   beats of the one that was interrupted.
2. `agent_round_cards`: a beat that failed and later succeeds keeps the failure
   event as its memory, and a "successful return" card is made from it.
3. `agent_round_uncited`: a search answer without citations that was
   checkpointed is published by a later attempt in which it is not a search.
4. `code_run_record`: a command sent just after the runner has answered loses the
   answer, and the run leaves no message.
5. `tool_loop_consent`: when a deletion is cut off between the file and the row of
   its owner, the next file of that name inherits the row's sharing, so other
   agents may edit a file for which the user never enabled it.

Behaviour that no document speaks about, and which is therefore no finding, is
listed with the hazards (for example standard input that is larger than one
message and is silently dropped by the runner). Two more places are there although
a document does speak about them, in words that leave room:

- Two suggestions conflict, in the code, if they name the same path
  (`persona_store.py:404`), and `OneRecordForAPath` says no more than that. A
  suggestion about a branch and one about a leaf of it stay active together with
  values that contradict each other, and so may two changes of one record.
  How much evidence a record needs is that of the policy when it was saved
  (`persona_store.py:451`); an edit of the policy does not change it.
- Observations that a tool stored before the provider of its beat failed cite the
  user's message and no reply of the agent (`agent_turn_execution.py:886`), against
  the words of `src/README.md:90`. `EvidenceIsOfTheBeat` asks for a reply of those
  beats only that have stored one.

## What is not modelled, and the plan

In this order:

1. `PromptQueue`: the browser's queue against running, resumed and reloaded turns.
2. Paths of `Personas` that cover several fields, in the instance for TLC.
3. Connections between motifs, and the deletion of a project in `Motifs`.
4. Subfolders in `ProjectFiles`: a deletion removes empty parents that a write has
   just made.

Left out within the modelled components: the shared context file, the append
operation, the bound on an attractor's change and a version raised by the user
(`persona_store.py`); confidence and ranking of motifs;
the payloads of requests, the parsing of answers and the accounting of usage
(`providers.py`).

Left out for good: prompt assembly, retrieval and ranking (pure selection of text
for prompts), fetching and sanitising pages, settings and catalogue validation,
analytics, export and bridge (read-only), schema migration, markdown rendering
and the page (presentation), and the resource limits that the kernel and the
container enforce on the runner's child.
