------------------------------ MODULE ChatTurns ------------------------------
(***************************************************************************)
(* The durable life of a room turn: one row of the table chat_turns, the   *)
(* HTTP handlers that create, replay, resume, accept and delete it, the    *)
(* asyncio lock that serialises them, and a server that may crash between  *)
(* any two transactions.                                                   *)
(*                                                                         *)
(* What happens inside an execution (agents, beats, checkpoints) is the    *)
(* subject of module AgentRound; here an execution issues provider         *)
(* requests and then completes, fails or is interrupted.                   *)
(***************************************************************************)
EXTENDS Integers

CONSTANTS
  Clients,          \* HTTP connections that may have a request in flight
  Streaming,        \* the ones that read a streamed response
  Turns,            \* turn identifiers a browser may send
  Requests,         \* request contents that have different fingerprints
  Projects,         \* project identifiers
  ProjectOf,        \* the project a request names
  General,          \* the project that is created when none is left
  RequestLimit,     \* settings.room_max_provider_requests
  MaxSubmissions,   \* bound: requests submitted over the whole behaviour
  None              \* "no client", "no job", "no request"

ASSUME ChatTurnsAssumption ==
  /\ Streaming \subseteq Clients
  /\ ProjectOf \in [Requests -> Projects]
  /\ General \in Projects
  /\ RequestLimit \in Nat
  /\ MaxSubmissions \in Nat

VARIABLES
  \* durable: the projects table and one column of chat_turns each
  projects,   \* identifiers present in the table projects
  status,     \* chat_turns.status, "absent" where there is no row
  request,    \* chat_turns.request_fingerprint and request_json
  result,     \* chat_turns.result_json: the ticket of the run that wrote it
  accepted,   \* chat_turns.resolution = 'accepted_partial'
  traced,     \* chat_turns.trace_json: model_request events recorded
  \* volatile: the server process
  up,         \* the server is running
  holder,     \* the client whose task holds chat_lock
  phase,      \* how far a client's request has come
  job,        \* what the client asked for
  spent,      \* TurnService.execute's provider_requests
  tickets,    \* number of submissions so far (names runs and results)
  \* history of the outside world
  sent,       \* provider requests that were really issued for a turn
  lost        \* the part of them whose trace died with a crash

durable == <<projects, status, request, result, accepted, traced>>
tasks == <<holder, phase, job, spent>>
history == <<sent, lost>>
vars == <<durable, up, tasks, tickets, history>>

Statuses == {"absent", "running", "completed", "failed", "interrupted"}
Stopped == {"failed", "interrupted"}
Tickets == 1..MaxSubmissions

TurnJobs == [kind : {"prompt", "resume"}, turn : Turns, request : Requests, ticket : Tickets]
DeleteJobs == [kind : {"delete"}, project : Projects, ticket : Tickets]
Jobs == TurnJobs \cup DeleteJobs

ASSUME NoneAssumption == None \notin Clients \cup Requests \cup Jobs

-----------------------------------------------------------------------------
Init ==
  /\ projects = Projects
  /\ status = [t \in Turns |-> "absent"]
  /\ request = [t \in Turns |-> None]
  /\ result = [t \in Turns |-> 0]
  /\ accepted = [t \in Turns |-> FALSE]
  /\ traced = [t \in Turns |-> 0]
  /\ up = TRUE
  /\ holder = None
  /\ phase = [c \in Clients |-> "idle"]
  /\ job = [c \in Clients |-> None]
  /\ spent = [c \in Clients |-> 0]
  /\ tickets = 0
  /\ sent = [t \in Turns |-> 0]
  /\ lost = [t \in Turns |-> 0]

-----------------------------------------------------------------------------
(* Arrival of requests.  A handler's task queues for chat_lock.            *)

Queue(c, j) ==
  /\ up
  /\ phase[c] = "idle"
  /\ tickets < MaxSubmissions
  /\ tickets' = tickets + 1
  /\ job' = [job EXCEPT ![c] = j]
  /\ phase' = [phase EXCEPT ![c] = "waiting"]
  /\ UNCHANGED <<durable, up, holder, spent, history>>

SubmitPrompt(c, t, r) ==
  Queue(c, [kind |-> "prompt", turn |-> t, request |-> r, ticket |-> tickets + 1])

\* The endpoint reads the row before it queues; what it read may be stale
\* when the lock is granted.  A turn that is not there is answered 404.
SubmitResume(c, t) ==
  /\ c \in Streaming
  /\ status[t] # "absent"
  /\ Queue(c, [kind |-> "resume", turn |-> t, request |-> request[t], ticket |-> tickets + 1])

SubmitDelete(c, p) ==
  Queue(c, [kind |-> "delete", project |-> p, ticket |-> tickets + 1])

-----------------------------------------------------------------------------
(* The lock is granted and the handler's first transaction runs.           *)

\* Mutant of Granted: the handler does not take chat_lock.
GrantedWithoutLock(c, kind) ==
  /\ phase[c] = "waiting"
  /\ job[c].kind = kind

\* asyncio.Lock wakes its waiters in the order in which they came.
Granted(c, kind) ==
  /\ holder = None
  /\ phase[c] = "waiting"
  /\ \A d \in Clients : phase[d] = "waiting" => job[c].ticket <= job[d].ticket
  /\ job[c].kind = kind

\* The handler raises, or returns without running agents: chat_lock is free.
LeaveRoom(c) ==
  /\ holder' = None
  /\ phase' = [phase EXCEPT ![c] = "idle"]
  /\ job' = [job EXCEPT ![c] = None]
  /\ spent' = [spent EXCEPT ![c] = 0]

EnterRoom(c, ph) ==
  /\ holder' = c
  /\ phase' = [phase EXCEPT ![c] = ph]
  /\ UNCHANGED job

ProjectThere(r) == ProjectOf[r] \in projects

BeginTurn(c) ==
  /\ Granted(c, "prompt")
  /\ LET t == job[c].turn IN
     /\ ProjectThere(job[c].request)
     /\ status[t] = "absent"
     /\ status' = [status EXCEPT ![t] = "running"]
     /\ request' = [request EXCEPT ![t] = job[c].request]
  /\ EnterRoom(c, "running")
  /\ spent' = [spent EXCEPT ![c] = 0]
  /\ UNCHANGED <<projects, result, accepted, traced, up, tickets, history>>

\* Mutant of ReplayTurn: the stored fingerprint is not compared.
ReplayAnyRequest(c) ==
  /\ Granted(c, "prompt")
  /\ ProjectThere(job[c].request)
  /\ status[job[c].turn] = "completed"
  /\ EnterRoom(c, "replying")
  /\ UNCHANGED <<durable, up, spent, tickets, history>>

\* A completed turn with the same request: its stored result is the answer.
ReplayTurn(c) ==
  /\ Granted(c, "prompt")
  /\ LET t == job[c].turn IN
     /\ ProjectThere(job[c].request)
     /\ status[t] = "completed"
     /\ request[t] = job[c].request
  /\ EnterRoom(c, "replying")
  /\ UNCHANGED <<durable, up, spent, tickets, history>>

\* 404 without the project; 409 for another request's turn identifier and
\* for a turn that has not completed.
RejectPrompt(c) ==
  /\ Granted(c, "prompt")
  /\ LET t == job[c].turn IN
     \/ ~ProjectThere(job[c].request)
     \/ status[t] # "absent" /\ request[t] # job[c].request
     \/ status[t] \notin {"absent", "completed"}
  /\ LeaveRoom(c)
  /\ UNCHANGED <<durable, up, tickets, history>>

\* Mutants of Resumable: an accepted turn, or a completed one, is resumed.
ResumableThoughAccepted(t) == status[t] \in Stopped
ResumableThoughCompleted(t) == status[t] \in Stopped \cup {"completed"} /\ ~accepted[t]

Resumable(t) == status[t] \in Stopped /\ ~accepted[t]

\* Read again under the lock: the row may have been accepted, resumed by
\* another request, deleted, or deleted and used anew for another project.
ResumeAllowed(c) ==
  LET t == job[c].turn IN
  Resumable(t) /\ ProjectOf[request[t]] = ProjectOf[job[c].request]

\* Mutant of ResumeTurn: each attempt starts with a fresh budget.
ResumeWithFreshBudget(c) ==
  /\ Granted(c, "resume")
  /\ ResumeAllowed(c)
  /\ status' = [status EXCEPT ![job[c].turn] = "running"]
  /\ spent' = [spent EXCEPT ![c] = 0]
  /\ EnterRoom(c, "running")
  /\ UNCHANGED <<projects, request, result, accepted, traced, up, tickets, history>>

\* The events recorded by earlier attempts still count against the budget.
ResumeTurn(c) ==
  /\ Granted(c, "resume")
  /\ ResumeAllowed(c)
  /\ LET t == job[c].turn IN
     /\ status' = [status EXCEPT ![t] = "running"]
     /\ spent' = [spent EXCEPT ![c] = traced[t]]
  /\ EnterRoom(c, "running")
  /\ UNCHANGED <<projects, request, result, accepted, traced, up, tickets, history>>

RejectResume(c) ==
  /\ Granted(c, "resume")
  /\ ~ResumeAllowed(c)
  /\ LeaveRoom(c)
  /\ UNCHANGED <<durable, up, tickets, history>>

TurnsOf(p) == {t \in Turns : status[t] # "absent" /\ ProjectOf[request[t]] = p}

\* Deleting a project cascades to its turns; the room always keeps a project.
DeleteProject(c) ==
  /\ Granted(c, "delete")
  /\ LET p == job[c].project
         gone == TurnsOf(p)
         left == projects \ {p}
     IN
     /\ p \in projects
     /\ projects' = IF left = {} THEN {General} ELSE left
     /\ status' = [t \in Turns |-> IF t \in gone THEN "absent" ELSE status[t]]
     /\ request' = [t \in Turns |-> IF t \in gone THEN None ELSE request[t]]
     /\ result' = [t \in Turns |-> IF t \in gone THEN 0 ELSE result[t]]
     /\ accepted' = [t \in Turns |-> accepted[t] /\ t \notin gone]
     /\ traced' = [t \in Turns |-> IF t \in gone THEN 0 ELSE traced[t]]
     /\ sent' = [t \in Turns |-> IF t \in gone THEN 0 ELSE sent[t]]
     /\ lost' = [t \in Turns |-> IF t \in gone THEN 0 ELSE lost[t]]
  /\ LeaveRoom(c)
  /\ UNCHANGED <<up, tickets>>

RejectDelete(c) ==
  /\ Granted(c, "delete")
  /\ job[c].project \notin projects
  /\ LeaveRoom(c)
  /\ UNCHANGED <<durable, up, tickets, history>>

Enter(c) ==
  \/ BeginTurn(c)
  \/ ReplayTurn(c)
  \/ RejectPrompt(c)
  \/ ResumeTurn(c)
  \/ RejectResume(c)
  \/ DeleteProject(c)
  \/ RejectDelete(c)

-----------------------------------------------------------------------------
(* The execution that holds the lock.                                      *)

Executing(c, t) == phase[c] = "running" /\ job[c].turn = t

\* report() counts the request before it is sent, and refuses it at the limit.
ProviderRequest(c) ==
  /\ phase[c] = "running"
  /\ spent[c] < RequestLimit
  /\ spent' = [spent EXCEPT ![c] = @ + 1]
  /\ sent' = [sent EXCEPT ![job[c].turn] = @ + 1]
  /\ UNCHANGED <<durable, up, holder, phase, job, tickets, lost>>

\* _finish_chat_turn: it writes whatever the row's status was.
Finish(t, st, res, trace) ==
  /\ status' = [status EXCEPT ![t] = st]
  /\ result' = [result EXCEPT ![t] = res]
  /\ traced' = [traced EXCEPT ![t] = trace]
  /\ UNCHANGED <<projects, request, accepted>>

CompleteTurn(c) ==
  /\ phase[c] = "running"
  /\ Finish(job[c].turn, "completed", job[c].ticket, spent[c])
  /\ phase' = [phase EXCEPT ![c] = "replying"]
  /\ UNCHANGED <<up, holder, job, spent, tickets, history>>

\* Mutant of FailTurn: the error path forgets to release chat_lock.
FailHoldingLock(c) ==
  /\ phase[c] = "running"
  /\ Finish(job[c].turn, "failed", 0, spent[c])
  /\ phase' = [phase EXCEPT ![c] = "idle"]
  /\ job' = [job EXCEPT ![c] = None]
  /\ UNCHANGED <<up, holder, spent, tickets, history>>

\* An exception, the provider-request budget or the elapsed-time budget.
FailTurn(c) ==
  /\ phase[c] = "running"
  /\ Finish(job[c].turn, "failed", 0, spent[c])
  /\ LeaveRoom(c)
  /\ UNCHANGED <<up, tickets, history>>

\* The streaming client goes away and its task is cancelled and awaited.
InterruptTurn(c) ==
  /\ c \in Streaming
  /\ phase[c] = "running"
  /\ Finish(job[c].turn, "interrupted", 0, spent[c])
  /\ LeaveRoom(c)
  /\ UNCHANGED <<up, tickets, history>>

\* The result is handed to the response and chat_lock is released.
Reply(c) ==
  /\ phase[c] = "replying"
  /\ LeaveRoom(c)
  /\ UNCHANGED <<durable, up, tickets, history>>

\* A streaming client goes away while its task still waits for the lock.
AbandonWait(c) ==
  /\ c \in Streaming
  /\ phase[c] = "waiting"
  /\ phase' = [phase EXCEPT ![c] = "idle"]
  /\ job' = [job EXCEPT ![c] = None]
  /\ UNCHANGED <<durable, up, holder, spent, tickets, history>>

-----------------------------------------------------------------------------
(* Outside the lock.                                                       *)

\* accept_partial_chat_turn runs in a worker thread and takes no lock but
\* the storage lock of its one conditional UPDATE.
AcceptPartial(t) ==
  /\ up
  /\ status[t] \in Stopped
  /\ ~accepted[t]
  /\ accepted' = [accepted EXCEPT ![t] = TRUE]
  /\ UNCHANGED <<projects, status, request, result, traced, up, tasks, tickets, history>>

Crash ==
  /\ up
  /\ up' = FALSE
  /\ lost' = [t \in Turns |->
                IF \E c \in Clients : Executing(c, t) THEN sent[t] - traced[t] ELSE lost[t]]
  /\ holder' = None
  /\ phase' = [c \in Clients |-> "idle"]
  /\ job' = [c \in Clients |-> None]
  /\ spent' = [c \in Clients |-> 0]
  /\ UNCHANGED <<durable, tickets, sent>>

Closed(t) == status[t] = "completed" \/ accepted[t]

\* Mutants of Restart: interrupted rows are left "running"; they get a status
\* the table does not have; the traces of stopped turns are pruned, too.
RestartWithoutMarking ==
  /\ ~up
  /\ up' = TRUE
  /\ UNCHANGED <<durable, tasks, tickets, history>>

RestartMarkingCrashed ==
  /\ ~up
  /\ up' = TRUE
  /\ status' = [t \in Turns |-> IF status[t] = "running" THEN "crashed" ELSE status[t]]
  /\ UNCHANGED <<projects, request, result, accepted, traced, tasks, tickets, history>>

RestartPruningStopped ==
  /\ ~up
  /\ up' = TRUE
  /\ status' = [t \in Turns |-> IF status[t] = "running" THEN "interrupted" ELSE status[t]]
  /\ traced' = [t \in Turns |-> 0]
  /\ UNCHANGED <<projects, request, result, accepted, tasks, tickets, history>>

\* Storage.initialize and prune_chat_turn_traces; "old" are the turns beyond
\* the configured retention.
Restart ==
  /\ ~up
  /\ up' = TRUE
  /\ status' = [t \in Turns |-> IF status[t] = "running" THEN "interrupted" ELSE status[t]]
  /\ \E old \in SUBSET {t \in Turns : Closed(t)} :
       traced' = [t \in Turns |-> IF t \in old THEN 0 ELSE traced[t]]
  /\ UNCHANGED <<projects, request, result, accepted, tasks, tickets, history>>

Submit(c) ==
  \/ \E t \in Turns, r \in Requests : SubmitPrompt(c, t, r)
  \/ \E t \in Turns : SubmitResume(c, t)
  \/ \E p \in Projects : SubmitDelete(c, p)

Work(c) ==
  \/ ProviderRequest(c)
  \/ CompleteTurn(c)
  \/ FailTurn(c)
  \/ InterruptTurn(c)
  \/ Reply(c)
  \/ AbandonWait(c)

Next ==
  \/ \E c \in Clients : Submit(c) \/ Enter(c) \/ Work(c)
  \/ \E t \in Turns : AcceptPartial(t)
  \/ Crash
  \/ Restart

Spec == Init /\ [][Next]_vars

\* The lock is fair and its holder never blocks on it; an execution ends at
\* the latest when asyncio.timeout(room_max_elapsed_seconds) fires; whoever
\* operates the server starts it again.
Fairness ==
  /\ \A c \in Clients : WF_vars(Enter(c)) /\ WF_vars(FailTurn(c)) /\ WF_vars(Reply(c))
  /\ WF_vars(Restart)

FairSpec == Spec /\ Fairness

-----------------------------------------------------------------------------
(* Properties.                                                             *)

TypeOK ==
  /\ projects \subseteq Projects
  /\ status \in [Turns -> Statuses]
  /\ request \in [Turns -> Requests \cup {None}]
  /\ result \in [Turns -> Nat]
  /\ accepted \in [Turns -> BOOLEAN]
  /\ traced \in [Turns -> Nat]
  /\ up \in BOOLEAN
  /\ holder \in Clients \cup {None}
  /\ phase \in [Clients -> {"idle", "waiting", "running", "replying"}]
  /\ job \in [Clients -> Jobs \cup {None}]
  /\ spent \in [Clients -> Nat]
  /\ tickets \in Nat
  /\ sent \in [Turns -> Nat]
  /\ lost \in [Turns -> Int]

\* While the server runs, a row says "running" exactly when one task, the
\* holder of chat_lock, is executing that turn: no turn is stranded in a
\* state that can be neither resumed nor accepted, and no task works on a
\* row that was finished, resolved or deleted under it.
RunningMeansExecuting ==
  /\ \A t \in Turns :
       up /\ status[t] = "running" => \E c \in Clients : holder = c /\ Executing(c, t)
  /\ \A c \in Clients :
       phase[c] = "running" => holder = c /\ status[job[c].turn] = "running"

\* A turn accepted as partial is closed: it never runs or completes later,
\* however acceptance (which takes no lock) interleaves with a resume.
AcceptedIsClosed == \A t \in Turns : accepted[t] => status[t] \in Stopped

\* A connection is only ever served the turn it asked for: a prompt works on
\* the row of its own request even if the identifier was used before, a
\* resume stays in the project it named even if the row was deleted and made
\* anew while it waited, and what is replayed is a stored result.
ServesOwnRequest ==
  \A c \in Clients : phase[c] \in {"running", "replying"} =>
    LET t == job[c].turn IN
    /\ job[c].kind = "prompt" => request[t] = job[c].request
    /\ ProjectOf[request[t]] = ProjectOf[job[c].request]
    /\ phase[c] = "replying" => status[t] = "completed" /\ result[t] # 0

\* A completed or accepted row is final: later submissions with its
\* identifier, resumes, crashes and restarts change neither its status nor
\* its result nor its request; only deleting its project removes it.
ClosedIsFinal ==
  [][\A t \in Turns : Closed(t) =>
       \/ status'[t] = "absent"
       \/ /\ status'[t] = status[t]
          /\ result'[t] = result[t]
          /\ request'[t] = request[t]
          /\ accepted'[t] = accepted[t]]_vars

\* The ceiling on provider requests holds over all attempts of a turn
\* together, except for what was sent by attempts that a crash cut short:
\* every request is in the trace, in the running task's count, or lost.
BudgetAccounted ==
  \A t \in Turns : status[t] # "absent" =>
    /\ sent[t] <= RequestLimit + lost[t]
    /\ \A c \in Clients : Executing(c, t) => sent[t] = spent[c] + lost[t]
    /\ Resumable(t) => sent[t] = traced[t] + lost[t]

\* A turn that stopped early stays in the recovery list, unchanged, until it
\* is resumed, accepted or deleted with its project.
StoppedStaysRecoverable ==
  [][\A t \in Turns : Resumable(t) =>
       \/ Resumable(t)' /\ request'[t] = request[t] /\ traced'[t] = traced[t]
       \/ status'[t] = "absent"
       \/ accepted'[t] /\ status'[t] = status[t]
       \/ \E c \in Clients : Executing(c, t)' /\ job[c].kind = "resume"]_vars

\* Every request that waits for the room is served or dies with the server
\* or its connection: executions end, so the first-in-first-out lock moves.
WaitersAreServed == \A c \in Clients : phase[c] = "waiting" ~> phase[c] = "idle"

\* No turn runs for ever: its execution ends, or the next start marks it.
RunsEnd == \A t \in Turns : status[t] = "running" ~> status[t] # "running"

-----------------------------------------------------------------------------
(* The service implements RoomTurns: a crash stops the active turn at once, *)
(* and the restart that marks its row is invisible.                         *)

StageOf(t) ==
  CASE status[t] = "absent" -> "absent"
    [] status[t] = "completed" -> "done"
    [] status[t] = "running" /\ up -> "active"
    [] OTHER -> IF accepted[t] THEN "accepted" ELSE "open"

Room == INSTANCE RoomTurns
  WITH Outcomes <- Tickets, NoOutcome <- 0,
       stage <- [t \in Turns |-> StageOf(t)], outcome <- result

\* Every step of locks, connections, crashes and restarts is a step of the
\* abstract room or invisible to it.
ImplementsRoom == Room!Spec
=============================================================================
