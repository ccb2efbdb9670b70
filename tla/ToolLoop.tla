------------------------------- MODULE ToolLoop -------------------------------
(***************************************************************************)
(* The loop of requests in which a provider answers for an agent, and the  *)
(* tools that it calls on the way.  A call that changes state is an        *)
(* operation in the ledger turn_operations: it is begun, takes effect and  *)
(* is completed in three steps, and an attempt that a crash, an error or a *)
(* lost connection cuts short is repeated from the first request on.       *)
(*                                                                         *)
(* Module AgentRound has the beats of a turn; here each agent has one, and *)
(* the files that the tools write are the ones of module ProjectFiles.     *)
(***************************************************************************)
EXTENDS ProjectFiles

CONSTANTS
  Participants,     \* the agents that the turn asks
  Calls,            \* what the calls of the providers may ask for
  MaxRounds,        \* settings.max_tool_rounds
  CallsPerResponse, \* settings.provider_tool_calls_per_response
  CallsPerTurn,     \* settings.provider_tool_calls_per_turn
  Retries,          \* settings.provider_participation_retries
  MaxAttempts       \* bound: executions of the turn

\* tool_metadata.TOOL_POLICIES: the tools that change state.
Changing(call) == call.tool \in {"write_project_file", "propose_persona_update",
                                 "record_motif_observations"}

\* The identifier of an operation: turn, agent, beat, round, position, digest.
Operations == [agent : Participants, round : 1..MaxRounds, index : 1..CallsPerResponse,
               call : {c \in Calls : Changing(c)}]

VARIABLES
  \* durable
  ledger,    \* "absent", "started", "ok" or "error" for each operation
  effects,   \* how often it has changed a file, a persona or the motifs
  outcome,   \* the checkpointed outcome of each agent, None before
  \* volatile
  loop,      \* the execution in progress
  attempts,  \* executions begun so far
  \* for the properties
  held       \* the writes whose content was in their file at some moment of
             \* the call that answered them

loopVars == <<ledger, effects, outcome, loop, attempts>>
vars == <<fileVars, loopVars, held>>

Idle == [at |-> "idle", agent |-> 1, round |-> 1, left |-> 0, index |-> 1, total |-> 0,
         retries |-> 0, acted |-> FALSE, call |-> None, fresh |-> FALSE, result |-> None]
Places == {"idle", "next", "asking", "searching", "tool", "recover", "run", "writing",
           "settle", "ended"}
Outcomes == {"answer", "fallback", "failed"}

ASSUME ToolLoopAssumption ==
  /\ Participants \subseteq Agents
  /\ Calls \subseteq
       [tool : {"write_project_file"}, path : Paths, content : Contents]
         \cup [tool : {"propose_persona_update", "record_motif_observations", "read", "malformed"},
               content : Contents]
  /\ MaxRounds \in Nat
  /\ CallsPerResponse \in Nat /\ CallsPerTurn \in Nat /\ Retries \in Nat /\ MaxAttempts \in Nat
  /\ None \notin Outcomes

TypeOK ==
  /\ FilesTypeOK
  /\ ledger \in [Operations -> {"absent", "started", "ok", "error"}]
  /\ effects \in [Operations -> 0..MaxAttempts]
  /\ outcome \in [Participants -> Outcomes \cup {None}]
  /\ loop \in [at : Places, agent : Agents, round : 1..MaxRounds + 1,
               left : 0..CallsPerResponse, index : 1..CallsPerResponse + 1,
               total : 0..CallsPerTurn, retries : 0..Retries, acted : BOOLEAN,
               call : Calls \cup {None}, fresh : BOOLEAN,
               result : Outcomes \cup {"ok", "error", None}]
  /\ attempts \in 0..MaxAttempts
  /\ held \subseteq Operations

Init ==
  /\ FilesInit
  /\ ledger = [o \in Operations |-> "absent"]
  /\ effects = [o \in Operations |-> 0]
  /\ outcome = [a \in Participants |-> None]
  /\ loop = Idle
  /\ attempts = 0
  /\ held = {}

\* The event loop is at this place of the turn, and in nothing else.
At(place) == loop.at = place /\ LoopIsFree

Writing == loop.at = "writing"

Operation(call) == [agent |-> loop.agent, round |-> loop.round, index |-> loop.index, call |-> call]

Current == Operation(loop.call)

\* A call that changes state is under way.
InCall == loop.at \in {"recover", "run", "writing", "settle"}

IsWrite(o) == o.call.tool = "write_project_file"

\* Beside every step, the content of the files is observed: a write is held
\* when its content is there during its call, until the call is cut off.
Observe ==
  held' = {o \in Operations :
             /\ IsWrite(o)
             /\ \/ InCall' /\ o = Current' /\ (o \in held \/ file'[o.call.path] = o.call.content)
                \/ o \in held /\ ledger'[o] \in {"ok", "error"}}

-----------------------------------------------------------------------------
(* Requests and answers.                                                   *)

\* The turn begins, or is resumed, under the chat lock.
StartTurn ==
  /\ At("idle") /\ project /\ attempts < MaxAttempts
  /\ attempts' = attempts + 1
  /\ \E a \in Participants : outcome[a] = None
  /\ loop' = [loop EXCEPT !.at = "next"]
  /\ UNCHANGED <<fileVars, ledger, effects, outcome>>

\* The next agent whose part is not checkpointed is asked, by a search when
\* the room wants one of it; with no agent left the turn is complete.
NextAgent ==
  /\ At("next")
  /\ \/ \E a \in Participants :
          /\ outcome[a] = None /\ \A b \in Participants : b < a => outcome[b] # None
          /\ \E at \in {"asking", "searching"} : loop' = [Idle EXCEPT !.at = at, !.agent = a]
     \/ /\ \A a \in Participants : outcome[a] # None
        /\ loop' = Idle
  /\ UNCHANGED <<fileVars, ledger, effects, outcome, attempts>>

End(result) == loop' = [loop EXCEPT !.at = "ended", !.result = result]

\* An answer without words.  The agent is reminded as long as there are
\* retries and rounds; after that, tools that succeeded speak for it.
FinishSilently ==
  IF loop.retries < Retries /\ loop.round <= MaxRounds
  THEN loop' = [loop EXCEPT !.round = @ + 1, !.retries = @ + 1]
  ELSE End(IF loop.acted THEN "fallback" ELSE "failed")

\* Mutant of TakeCalls: the last request may call tools too.
TakeCallsInAnyRound(n) ==
  IF n > CallsPerResponse \/ loop.total + n > CallsPerTurn
  THEN End("failed")
  ELSE loop' = [loop EXCEPT !.at = "tool", !.left = n, !.index = 1, !.total = @ + n]

\* An answer with n calls.
TakeCalls(n) ==
  IF n > CallsPerResponse \/ loop.total + n > CallsPerTurn \/ loop.round > MaxRounds
  THEN End("failed")
  ELSE loop' = [loop EXCEPT !.at = "tool", !.left = n, !.index = 1, !.total = @ + n]

ProviderAnswers ==
  /\ At("asking")
  /\ \/ End("answer")
     \/ FinishSilently
     \/ \E n \in 1..CallsPerResponse + 1 : TakeCalls(n)
  /\ UNCHANGED <<fileVars, ledger, effects, outcome, attempts>>

\* A search is one request without tools; no text is a failure.
SearchAnswers ==
  /\ At("searching")
  /\ End("answer") \/ End("failed")
  /\ UNCHANGED <<fileVars, ledger, effects, outcome, attempts>>

\* A timeout, an error or an answer that cannot be read.
ProviderFails ==
  /\ At("asking") \/ At("searching")
  /\ End("failed")
  /\ UNCHANGED <<fileVars, ledger, effects, outcome, attempts>>

\* Mutant of Checkpoint: the outcome is not stored.
CheckpointNothing ==
  /\ At("ended")
  /\ loop' = [loop EXCEPT !.at = "next"]
  /\ UNCHANGED <<fileVars, ledger, effects, outcome, attempts>>

\* The outcome becomes the checkpoint of the agent's part.
Checkpoint ==
  /\ At("ended")
  /\ outcome' = [outcome EXCEPT ![loop.agent] = loop.result]
  /\ loop' = [loop EXCEPT !.at = "next"]
  /\ UNCHANGED <<fileVars, ledger, effects, attempts>>

-----------------------------------------------------------------------------
(* One call of a tool.                                                     *)

\* The result of call goes to the provider, after the ones before it; the
\* record of motifs does not count as an action of the agent.
AfterCall(call, ok) ==
  LET told == [loop EXCEPT !.acted = @ \/ (ok /\ call.tool # "record_motif_observations"),
                           !.call = None, !.fresh = FALSE, !.result = None]
  IN loop' = IF loop.left = 1
             THEN [told EXCEPT !.at = "asking", !.round = @ + 1, !.left = 0]
             ELSE [told EXCEPT !.at = "tool", !.left = @ - 1, !.index = @ + 1]

\* Arguments that are no JSON object are answered without running anything,
\* tools that only read are run on the spot.
CallReader ==
  /\ At("tool")
  /\ \E call \in Calls : \E ok \in BOOLEAN :
       /\ ~Changing(call)
       /\ call.tool = "malformed" => ~ok
       /\ AfterCall(call, ok)
  /\ UNCHANGED <<fileVars, ledger, effects, outcome, attempts>>

\* Mutant of BeginOperation: a completed operation is not looked at.
BeginAgain(call) ==
  /\ ledger' = [ledger EXCEPT ![Operation(call)] = "started"]
  /\ loop' = [loop EXCEPT !.at = "run", !.call = call, !.fresh = TRUE]

\* An operation is begun; one that was completed before is answered with its
\* result, one that was only begun has to be recovered.
BeginOperation(call) ==
  CASE ledger[Operation(call)] = "absent" ->
         /\ ledger' = [ledger EXCEPT ![Operation(call)] = "started"]
         /\ loop' = [loop EXCEPT !.at = "run", !.call = call, !.fresh = TRUE]
    [] ledger[Operation(call)] = "started" ->
         /\ loop' = [loop EXCEPT !.at = "recover", !.call = call, !.fresh = FALSE]
         /\ UNCHANGED ledger
    [] OTHER ->
         /\ AfterCall(call, ledger[Operation(call)] = "ok")
         /\ UNCHANGED ledger

CallChanger ==
  /\ At("tool")
  /\ \E call \in Calls : Changing(call) /\ BeginOperation(call)
  /\ UNCHANGED <<fileVars, effects, outcome, attempts>>

Result(r) == loop' = [loop EXCEPT !.at = "settle", !.result = r]

RunIt == loop' = [loop EXCEPT !.at = "run"]

\* Mutant of RecoverWrite: an interrupted write is always repeated.
RecoverWriteBlindly ==
  /\ At("recover") /\ loop.call.tool = "write_project_file"
  /\ RunIt
  /\ UNCHANGED <<fileVars, ledger, effects, outcome, attempts>>

\* Mutant of RecoverWrite: an interrupted write is taken for done.
RecoverWriteUnchecked ==
  /\ At("recover") /\ loop.call.tool = "write_project_file"
  /\ Result("ok")
  /\ UNCHANGED <<fileVars, ledger, effects, outcome, attempts>>

\* A file that has the content already counts as written.
RecoverWrite ==
  /\ At("recover") /\ loop.call.tool = "write_project_file"
  /\ IF file[loop.call.path] = loop.call.content THEN Result("ok") ELSE RunIt
  /\ UNCHANGED <<fileVars, ledger, effects, outcome, attempts>>

\* Mutant of RecoverPersona: the update is taken for done.
RecoverPersonaAsDone ==
  /\ At("recover") /\ loop.call.tool = "propose_persona_update"
  /\ Result("ok")
  /\ UNCHANGED <<fileVars, ledger, effects, outcome, attempts>>

\* An interrupted update is left to the user.
RecoverPersona ==
  /\ At("recover") /\ loop.call.tool = "propose_persona_update"
  /\ Result("error")
  /\ UNCHANGED <<fileVars, ledger, effects, outcome, attempts>>

\* The batch of an operation tells that it was recorded.
RecoverMotifs ==
  /\ At("recover") /\ loop.call.tool = "record_motif_observations"
  /\ IF effects[Current] > 0 THEN Result("ok") ELSE RunIt
  /\ UNCHANGED <<fileVars, ledger, effects, outcome, attempts>>

\* A valid write of a file that is new or that the agent may replace.
RunWrite ==
  /\ At("run") /\ loop.call.tool = "write_project_file"
  /\ LET p == loop.call.path IN
     \/ /\ Exists(p) => Permitted(loop.agent, p)
        /\ StartWrite(loop.agent, p, loop.call.content)
        /\ root' = TRUE
        /\ loop' = [loop EXCEPT !.at = "writing"]
     \/ /\ Exists(p) /\ ~Permitted(loop.agent, p)
        /\ Result("error")
        /\ UNCHANGED <<writer, root>>
  /\ UNCHANGED <<files, deletion, thread, asked, ledger, effects, outcome, attempts>>

TakesEffect == effects' = [effects EXCEPT ![Current] = @ + 1]

\* PersonaStore.submit_update, and the error of one that is not accepted.
RunPersona ==
  /\ At("run") /\ loop.call.tool = "propose_persona_update"
  /\ \/ TakesEffect /\ Result("ok")
     \/ Result("error") /\ UNCHANGED effects
  /\ UNCHANGED <<fileVars, ledger, outcome, attempts>>

\* Some operation of the agent's beat has recorded its motifs.
BeatHasBatch ==
  \E o \in Operations : /\ o.agent = loop.agent
                        /\ o.call.tool = "record_motif_observations"
                        /\ effects[o] > 0

\* One transaction; a beat has one batch at most.
RunMotifs ==
  /\ At("run") /\ loop.call.tool = "record_motif_observations"
  /\ \/ ~BeatHasBatch /\ TakesEffect /\ Result("ok")
     \/ Result("error") /\ UNCHANGED effects
  /\ UNCHANGED <<fileVars, ledger, outcome, attempts>>

\* The write of an agent or of an upload goes on.
Write ==
  /\ PutFile
  /\ IF Writing THEN TakesEffect ELSE UNCHANGED effects
  /\ UNCHANGED <<ledger, outcome, loop, attempts>>

FinishWrite ==
  /\ RecordOwner
  /\ IF Writing THEN Result("ok") ELSE UNCHANGED loop
  /\ UNCHANGED <<ledger, effects, outcome, attempts>>

\* An error of the disk or of the database is no result: it ends the turn,
\* and the operation stays begun.
FailWrite ==
  /\ AbandonWrite
  /\ loop' = IF Writing THEN Idle ELSE loop
  /\ UNCHANGED <<ledger, effects, outcome, attempts>>

FailOperation ==
  /\ At("recover") \/ At("run") \/ At("settle")
  /\ loop' = Idle
  /\ UNCHANGED <<fileVars, ledger, effects, outcome, attempts>>

CompleteOperation ==
  /\ At("settle")
  /\ ledger' = [ledger EXCEPT ![Current] = loop.result]
  /\ AfterCall(loop.call, loop.result = "ok")
  /\ UNCHANGED <<fileVars, effects, outcome, attempts>>

-----------------------------------------------------------------------------
(* Everything else.                                                        *)

\* The client hangs up: the turn is interrupted where it waits.
InterruptTurn ==
  /\ At("next") \/ At("asking") \/ At("searching") \/ At("tool")
  /\ loop' = Idle
  /\ UNCHANGED <<fileVars, ledger, effects, outcome, attempts>>

Crash ==
  /\ LoseProcess
  /\ loop' = Idle
  /\ UNCHANGED <<ledger, effects, outcome, attempts>>

\* What runs on the loop besides the turn, where the turn waits.
UserUploads ==
  /\ loop.at \in {"idle", "next", "asking", "searching", "tool", "ended"}
  /\ \E p \in Paths, c \in Contents : Upload(p, c)
  /\ UNCHANGED loopVars

\* The deletion of the project waits for the chat lock.
UserDeletesProject ==
  /\ At("idle")
  /\ BeginDeleteProject
  /\ UNCHANGED loopVars

ProjectGoes == DeletionStep /\ UNCHANGED loopVars

UserRequests ==
  /\ \E t \in Threads, p \in Paths :
       BeginDelete(t, p) \/ \E allowed \in BOOLEAN : BeginShare(t, p, allowed)
  /\ UNCHANGED loopVars

ThreadGoes == ThreadStep /\ UNCHANGED loopVars

ToolStep == CallReader \/ CallChanger \/ RecoverWrite \/ RecoverPersona \/ RecoverMotifs
              \/ RunWrite \/ RunPersona \/ RunMotifs \/ CompleteOperation \/ FailOperation

WriterStep == Write \/ FinishWrite \/ FailWrite

TurnStep == NextAgent \/ ProviderAnswers \/ SearchAnswers \/ ProviderFails \/ Checkpoint \/ ToolStep

Next ==
  /\ \/ StartTurn \/ TurnStep \/ WriterStep \/ InterruptTurn \/ Crash
     \/ UserUploads \/ UserDeletesProject \/ ProjectGoes \/ UserRequests \/ ThreadGoes
  /\ Observe

Spec == Init /\ [][Next]_vars

\* Requests to providers have deadlines, everything else is code that runs.
FairSpec == Spec /\ WF_vars(TurnStep /\ Observe) /\ WF_vars(WriterStep /\ Observe)

-----------------------------------------------------------------------------
(* Properties.                                                             *)

\* What the provider, and through it the room, is told about an operation is
\* true, over interruptions and repetitions.  An operation that says ok took
\* effect; a write that says so had its content in the file during the call
\* that answered it, put there by the call or found there.  An error of an
\* operation that was never interrupted means that nothing was changed, and so
\* does any error of a record of motifs; an interrupted write or update may
\* have taken effect before its later call ended in an error.
ResultsAreTrue ==
  /\ \A o \in Operations :
       /\ ledger[o] = "ok" => IF IsWrite(o) THEN o \in held ELSE effects[o] > 0
       /\ ledger[o] = "error" /\ o.call.tool = "record_motif_observations" => effects[o] = 0
       /\ ledger[o] = "absent" => effects[o] = 0
  /\ loop.at = "settle" /\ loop.fresh /\ loop.result = "error" => effects[Current] = 0

\* A file is written for an interrupted operation only when it does not have
\* the requested content (README.md, "verifies its requested content hash
\* before deciding whether it must write again").
RewritesAreChecked ==
  Writing /\ ~loop.fresh /\ writer.at = "put" => file[writer.path] # writer.content

\* Every execution of the turn ends, whatever the provider answers.
LoopEnds == loop.at # "idle" ~> loop.at = "idle"

phase ==
  [o \in Operations |->
     CASE ledger[o] = "absent" -> "new"
       [] ledger[o] \in {"ok", "error"} -> "settled"
       [] OTHER -> IF loop.at \in {"run", "writing", "settle"} /\ loop.fresh /\ o = Current
                   THEN "begun" ELSE "uncertain"]

\* The operations are what their identifiers promise.
Once == INSTANCE ToolEffects WITH
          Repeatable <- {o \in Operations : o.call.tool = "write_project_file"},
          Reviewed <- {o \in Operations : o.call.tool = "propose_persona_update"}
OncePerOperation == Once!Spec
===============================================================================
