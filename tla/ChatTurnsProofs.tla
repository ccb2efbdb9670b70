--------------------------- MODULE ChatTurnsProofs ---------------------------
(***************************************************************************)
(* What ChatTurns guarantees for any number of connections, turns, requests *)
(* and projects, and any budget.                                           *)
(***************************************************************************)
EXTENDS ChatTurns, TLAPS

-----------------------------------------------------------------------------
(* The inductive invariant.                                                *)

\* A connection's job is there exactly while its request is in flight, and
\* only prompts and resumes work on a turn.
JobsMatchPhases ==
  \A c \in Clients :
    /\ phase[c] = "idle" <=> job[c] = None
    /\ phase[c] \in {"running", "replying"} => job[c] \in TurnJobs /\ holder = c

\* The lock is held exactly by the request that is inside the room.
HolderIsInside ==
  \A c \in Clients : holder = c => phase[c] \in {"running", "replying"}

\* No request survives the process that was serving it.
NobodyWhenDown == ~up => \A c \in Clients : phase[c] = "idle"

\* A row stores its request, and a missing row stores nothing.
RowsAreWhole ==
  \A t \in Turns :
    /\ status[t] = "absent" <=> request[t] = None
    /\ status[t] # "completed" => result[t] = 0
    /\ status[t] = "completed" => result[t] \in Tickets

IInv ==
  /\ TypeOK
  /\ JobsMatchPhases
  /\ HolderIsInside
  /\ NobodyWhenDown
  /\ RowsAreWhole
  /\ RunningMeansExecuting
  /\ AcceptedIsClosed
  /\ ServesOwnRequest

-----------------------------------------------------------------------------
LEMMA InitIInv == Init => IInv
  BY ChatTurnsAssumption, NoneAssumption
  DEF Init, IInv, TypeOK, JobsMatchPhases, HolderIsInside, NobodyWhenDown, RowsAreWhole,
      RunningMeansExecuting, Executing, AcceptedIsClosed, ServesOwnRequest,
      Statuses, Stopped

LEMMA QueueKeepsIInv ==
  ASSUME IInv, NEW c \in Clients, NEW j \in Jobs, Queue(c, j)
  PROVE  IInv'
<1> USE ChatTurnsAssumption, NoneAssumption DEF IInv, Queue, durable, history
<1>1. TypeOK'
  BY DEF TypeOK
<1>2. JobsMatchPhases'
  BY DEF TypeOK, JobsMatchPhases
<1>3. HolderIsInside'
  BY DEF TypeOK, HolderIsInside
<1>4. NobodyWhenDown'
  BY DEF NobodyWhenDown
<1>5. RowsAreWhole'
  BY DEF RowsAreWhole
<1>6. RunningMeansExecuting'
  BY DEF TypeOK, RunningMeansExecuting, Executing, JobsMatchPhases
<1>7. AcceptedIsClosed'
  BY DEF AcceptedIsClosed
<1>8. ServesOwnRequest'
  BY DEF TypeOK, ServesOwnRequest
<1> QED
  BY <1>1, <1>2, <1>3, <1>4, <1>5, <1>6, <1>7, <1>8

\* The next ticket is within the bound, so what is queued is a job.
LEMMA NextTicket ==
  ASSUME IInv, tickets < MaxSubmissions
  PROVE  tickets + 1 \in Tickets
BY ChatTurnsAssumption DEF IInv, TypeOK, Tickets

LEMMA SubmitKeepsIInv ==
  ASSUME IInv, NEW c \in Clients, Submit(c)
  PROVE  IInv'
<1>1. ASSUME NEW t \in Turns, NEW r \in Requests, SubmitPrompt(c, t, r)
      PROVE  IInv'
  <2> DEFINE j == [kind |-> "prompt", turn |-> t, request |-> r, ticket |-> tickets + 1]
  <2>1. Queue(c, j) /\ tickets < MaxSubmissions
    BY <1>1 DEF SubmitPrompt, Queue
  <2>2. j \in Jobs
    BY <2>1, NextTicket DEF Jobs, TurnJobs
  <2> HIDE DEF j
  <2> QED
    BY <2>1, <2>2, QueueKeepsIInv
<1>2. ASSUME NEW t \in Turns, SubmitResume(c, t)
      PROVE  IInv'
  <2> DEFINE j == [kind |-> "resume", turn |-> t, request |-> request[t], ticket |-> tickets + 1]
  <2>1. Queue(c, j) /\ tickets < MaxSubmissions
    BY <1>2 DEF SubmitResume, Queue
  <2>2. request[t] \in Requests
    BY <1>2 DEF SubmitResume, IInv, TypeOK, RowsAreWhole
  <2>3. j \in Jobs
    BY <2>1, <2>2, NextTicket DEF Jobs, TurnJobs
  <2> HIDE DEF j
  <2> QED
    BY <2>1, <2>3, QueueKeepsIInv
<1>3. ASSUME NEW p \in Projects, SubmitDelete(c, p)
      PROVE  IInv'
  <2> DEFINE j == [kind |-> "delete", project |-> p, ticket |-> tickets + 1]
  <2>1. Queue(c, j) /\ tickets < MaxSubmissions
    BY <1>3 DEF SubmitDelete, Queue
  <2>2. j \in Jobs
    BY <2>1, NextTicket DEF Jobs, DeleteJobs
  <2> HIDE DEF j
  <2> QED
    BY <2>1, <2>2, QueueKeepsIInv
<1> QED
  BY <1>1, <1>2, <1>3 DEF Submit

\* A granted job is a job of its kind.
LEMMA GrantedJob ==
  ASSUME IInv, NEW c \in Clients, NEW kind, Granted(c, kind)
  PROVE  /\ job[c] \in Jobs
         /\ kind \in {"prompt", "resume"} => job[c] \in TurnJobs
         /\ kind = "delete" => job[c] \in DeleteJobs
BY DEF IInv, TypeOK, JobsMatchPhases, Granted, Jobs, TurnJobs, DeleteJobs

LEMMA BeginKeepsIInv ==
  ASSUME IInv, NEW c \in Clients, BeginTurn(c)
  PROVE  IInv'
<1> DEFINE t == job[c].turn
<1>1. job[c] \in TurnJobs /\ t \in Turns /\ job[c].request \in Requests
  BY GrantedJob DEF BeginTurn, TurnJobs
<1>2. request[t] = None /\ result[t] = 0 /\ ~accepted[t]
  BY <1>1 DEF IInv, TypeOK, BeginTurn, RowsAreWhole, AcceptedIsClosed, Stopped
<1> USE <1>1, <1>2, ChatTurnsAssumption, NoneAssumption
        DEF IInv, BeginTurn, Granted, EnterRoom, history
<1>3. TypeOK'
  BY DEF TypeOK, Statuses
<1>4. JobsMatchPhases'
  BY DEF TypeOK, JobsMatchPhases, HolderIsInside
<1>5. HolderIsInside'
  BY DEF TypeOK, HolderIsInside
<1>6. NobodyWhenDown'
  BY DEF NobodyWhenDown
<1>7. RowsAreWhole'
  BY DEF TypeOK, RowsAreWhole
<1>8. RunningMeansExecuting'
  BY DEF TypeOK, RunningMeansExecuting, Executing, JobsMatchPhases, HolderIsInside
<1>9. AcceptedIsClosed'
  BY DEF TypeOK, AcceptedIsClosed
<1>10. ServesOwnRequest'
  BY DEF TypeOK, ServesOwnRequest, JobsMatchPhases
<1> QED
  BY <1>3, <1>4, <1>5, <1>6, <1>7, <1>8, <1>9, <1>10

LEMMA ReplayKeepsIInv ==
  ASSUME IInv, NEW c \in Clients, ReplayTurn(c)
  PROVE  IInv'
<1> DEFINE t == job[c].turn
<1>1. job[c] \in TurnJobs /\ t \in Turns
  BY GrantedJob DEF ReplayTurn, TurnJobs
<1> USE <1>1, ChatTurnsAssumption, NoneAssumption
        DEF IInv, ReplayTurn, Granted, EnterRoom, history, durable
<1>2. TypeOK'
  BY DEF TypeOK
<1>3. JobsMatchPhases'
  BY DEF TypeOK, JobsMatchPhases, HolderIsInside
<1>4. HolderIsInside'
  BY DEF TypeOK, HolderIsInside
<1>5. NobodyWhenDown'
  BY DEF NobodyWhenDown
<1>6. RowsAreWhole'
  BY DEF RowsAreWhole
<1>7. RunningMeansExecuting'
  BY DEF TypeOK, RunningMeansExecuting, Executing, JobsMatchPhases
<1>8. AcceptedIsClosed'
  BY DEF AcceptedIsClosed
<1>9. ServesOwnRequest'
  BY DEF TypeOK, ServesOwnRequest, JobsMatchPhases, RowsAreWhole, Tickets
<1> QED
  BY <1>2, <1>3, <1>4, <1>5, <1>6, <1>7, <1>8, <1>9

\* Refusals leave the table alone and give the lock back.
LEMMA RefusalKeepsIInv ==
  ASSUME IInv, NEW c \in Clients, phase[c] \in {"waiting", "replying"},
         holder \in {None, c}, LeaveRoom(c),
         UNCHANGED <<durable, up, tickets, history>>
  PROVE  IInv'
<1> USE ChatTurnsAssumption, NoneAssumption DEF IInv, LeaveRoom, history, durable
<1>1. TypeOK'
  BY DEF TypeOK
<1>2. JobsMatchPhases'
  BY DEF TypeOK, JobsMatchPhases, HolderIsInside
<1>3. HolderIsInside'
  BY DEF TypeOK, HolderIsInside
<1>4. NobodyWhenDown'
  BY DEF TypeOK, NobodyWhenDown
<1>5. RowsAreWhole'
  BY DEF RowsAreWhole
<1>6. RunningMeansExecuting'
  BY DEF TypeOK, RunningMeansExecuting, Executing, JobsMatchPhases
<1>7. AcceptedIsClosed'
  BY DEF AcceptedIsClosed
<1>8. ServesOwnRequest'
  BY DEF TypeOK, ServesOwnRequest, JobsMatchPhases
<1> QED
  BY <1>1, <1>2, <1>3, <1>4, <1>5, <1>6, <1>7, <1>8

LEMMA ResumeKeepsIInv ==
  ASSUME IInv, NEW c \in Clients, ResumeTurn(c)
  PROVE  IInv'
<1> DEFINE t == job[c].turn
<1>1. job[c] \in TurnJobs /\ t \in Turns
  BY GrantedJob DEF ResumeTurn, TurnJobs
<1>2. status[t] \in Stopped /\ ~accepted[t] /\ result[t] = 0
  BY <1>1 DEF IInv, TypeOK, ResumeTurn, ResumeAllowed, Resumable, RowsAreWhole, Stopped
<1> USE <1>1, <1>2, ChatTurnsAssumption, NoneAssumption
        DEF IInv, ResumeTurn, Granted, EnterRoom, history, Stopped
<1>3. TypeOK'
  BY DEF TypeOK, Statuses
<1>4. JobsMatchPhases'
  BY DEF TypeOK, JobsMatchPhases, HolderIsInside
<1>5. HolderIsInside'
  BY DEF TypeOK, HolderIsInside
<1>6. NobodyWhenDown'
  BY DEF NobodyWhenDown
<1>7. RowsAreWhole'
  BY DEF TypeOK, RowsAreWhole
<1>8. RunningMeansExecuting'
  BY DEF TypeOK, RunningMeansExecuting, Executing, JobsMatchPhases, HolderIsInside
<1>9. AcceptedIsClosed'
  BY DEF TypeOK, AcceptedIsClosed
<1>10. ServesOwnRequest'
  BY DEF TypeOK, ServesOwnRequest, JobsMatchPhases, ResumeAllowed
<1> QED
  BY <1>3, <1>4, <1>5, <1>6, <1>7, <1>8, <1>9, <1>10

\* The holder is alone in the room: nobody executes or replies while the
\* lock is free, so deleting a project cannot take a row from under a task.
LEMMA DeleteKeepsIInv ==
  ASSUME IInv, NEW c \in Clients, DeleteProject(c)
  PROVE  IInv'
<1> USE ChatTurnsAssumption, NoneAssumption
        DEF IInv, DeleteProject, LeaveRoom, Granted
<1>1. \A d \in Clients : phase[d] \notin {"running", "replying"}
  BY DEF JobsMatchPhases
<1>2. TypeOK'
  BY DEF TypeOK, Statuses
<1>3. JobsMatchPhases'
  BY <1>1 DEF TypeOK, JobsMatchPhases
<1>4. HolderIsInside'
  BY DEF TypeOK, HolderIsInside
<1>5. NobodyWhenDown'
  BY DEF TypeOK, NobodyWhenDown
<1>6. RowsAreWhole'
  BY DEF TypeOK, RowsAreWhole
<1>7. RunningMeansExecuting'
  <2>1. \A t \in Turns : up' => status'[t] # "running"
    BY <1>1 DEF TypeOK, RunningMeansExecuting, Executing
  <2>2. \A d \in Clients : phase'[d] # "running"
    BY <1>1 DEF TypeOK
  <2> QED
    BY <2>1, <2>2 DEF RunningMeansExecuting
<1>8. AcceptedIsClosed'
  BY DEF TypeOK, AcceptedIsClosed, Stopped
<1>9. ServesOwnRequest'
  BY <1>1 DEF TypeOK, ServesOwnRequest
<1> QED
  BY <1>2, <1>3, <1>4, <1>5, <1>6, <1>7, <1>8, <1>9

LEMMA EnterKeepsIInv ==
  ASSUME IInv, NEW c \in Clients, Enter(c)
  PROVE  IInv'
<1>1. CASE RejectPrompt(c) \/ RejectResume(c) \/ RejectDelete(c)
  BY <1>1, RefusalKeepsIInv DEF RejectPrompt, RejectResume, RejectDelete, Granted
<1> QED
  BY <1>1, BeginKeepsIInv, ReplayKeepsIInv, ResumeKeepsIInv, DeleteKeepsIInv DEF Enter

-----------------------------------------------------------------------------
(* The execution's own steps.                                              *)

LEMMA RequestKeepsIInv ==
  ASSUME IInv, NEW c \in Clients, ProviderRequest(c)
  PROVE  IInv'
<1> DEFINE t == job[c].turn
<1>1. job[c] \in TurnJobs /\ t \in Turns
  BY DEF IInv, JobsMatchPhases, ProviderRequest, TurnJobs
<1> USE <1>1 DEF IInv, ProviderRequest, durable
<1>2. TypeOK'
  BY DEF TypeOK
<1>3. JobsMatchPhases' /\ HolderIsInside' /\ NobodyWhenDown' /\ RowsAreWhole'
  BY DEF JobsMatchPhases, HolderIsInside, NobodyWhenDown, RowsAreWhole
<1>4. RunningMeansExecuting' /\ AcceptedIsClosed' /\ ServesOwnRequest'
  BY DEF RunningMeansExecuting, Executing, AcceptedIsClosed, ServesOwnRequest
<1> QED
  BY <1>2, <1>3, <1>4

LEMMA CompleteKeepsIInv ==
  ASSUME IInv, NEW c \in Clients, CompleteTurn(c)
  PROVE  IInv'
<1> DEFINE t == job[c].turn
<1>1. job[c] \in TurnJobs /\ t \in Turns /\ job[c].ticket \in Tickets /\ holder = c
  BY DEF IInv, JobsMatchPhases, CompleteTurn, TurnJobs
<1>2. status[t] = "running" /\ ~accepted[t]
  BY <1>1 DEF IInv, RunningMeansExecuting, CompleteTurn, AcceptedIsClosed, Stopped
<1>3. \A d \in Clients : d # c => phase[d] \notin {"running", "replying"}
  BY <1>1 DEF IInv, JobsMatchPhases
<1> USE <1>1, <1>2, <1>3, ChatTurnsAssumption, NoneAssumption
        DEF IInv, CompleteTurn, Finish, history
<1>4. TypeOK'
  BY DEF TypeOK, Statuses, Tickets
<1>5. JobsMatchPhases'
  BY DEF TypeOK, JobsMatchPhases
<1>6. HolderIsInside'
  BY DEF TypeOK, HolderIsInside
<1>7. NobodyWhenDown'
  BY DEF TypeOK, NobodyWhenDown
<1>8. RowsAreWhole'
  BY DEF TypeOK, RowsAreWhole
<1>9. RunningMeansExecuting'
  BY DEF TypeOK, RunningMeansExecuting, Executing
<1>10. AcceptedIsClosed'
  BY DEF TypeOK, AcceptedIsClosed
<1>11. ServesOwnRequest'
  BY DEF TypeOK, ServesOwnRequest, Tickets
<1> QED
  BY <1>4, <1>5, <1>6, <1>7, <1>8, <1>9, <1>10, <1>11

LEMMA StopKeepsIInv ==
  ASSUME IInv, NEW c \in Clients, FailTurn(c) \/ InterruptTurn(c)
  PROVE  IInv'
<1> DEFINE t == job[c].turn
<1>1. /\ phase[c] = "running"
      /\ \E st \in Stopped : Finish(t, st, 0, spent[c])
      /\ LeaveRoom(c)
      /\ UNCHANGED <<up, tickets, history>>
  BY DEF FailTurn, InterruptTurn, Stopped
<1>2. job[c] \in TurnJobs /\ t \in Turns /\ holder = c
  BY <1>1 DEF IInv, JobsMatchPhases, TurnJobs
<1>3. status[t] = "running" /\ ~accepted[t]
  BY <1>1, <1>2 DEF IInv, RunningMeansExecuting, AcceptedIsClosed, Stopped
<1>4. \A d \in Clients : d # c => phase[d] \notin {"running", "replying"}
  BY <1>2 DEF IInv, JobsMatchPhases
<1> USE <1>1, <1>2, <1>3, <1>4, ChatTurnsAssumption, NoneAssumption
        DEF IInv, Finish, LeaveRoom, history, Stopped
<1>5. TypeOK'
  BY DEF TypeOK, Statuses
<1>6. JobsMatchPhases'
  BY DEF TypeOK, JobsMatchPhases
<1>7. HolderIsInside'
  BY DEF TypeOK, HolderIsInside
<1>8. NobodyWhenDown'
  BY DEF TypeOK, NobodyWhenDown
<1>9. RowsAreWhole'
  BY DEF TypeOK, RowsAreWhole
<1>10. RunningMeansExecuting'
  BY DEF TypeOK, RunningMeansExecuting, Executing
<1>11. AcceptedIsClosed'
  BY DEF TypeOK, AcceptedIsClosed
<1>12. ServesOwnRequest'
  BY DEF TypeOK, ServesOwnRequest
<1> QED
  BY <1>5, <1>6, <1>7, <1>8, <1>9, <1>10, <1>11, <1>12

LEMMA AbandonKeepsIInv ==
  ASSUME IInv, NEW c \in Clients, AbandonWait(c)
  PROVE  IInv'
<1> USE ChatTurnsAssumption, NoneAssumption DEF IInv, AbandonWait, durable, history
<1>1. TypeOK'
  BY DEF TypeOK
<1>2. JobsMatchPhases'
  BY DEF TypeOK, JobsMatchPhases
<1>3. HolderIsInside'
  BY DEF TypeOK, HolderIsInside
<1>4. NobodyWhenDown'
  BY DEF TypeOK, NobodyWhenDown
<1>5. RowsAreWhole'
  BY DEF RowsAreWhole
<1>6. RunningMeansExecuting'
  BY DEF TypeOK, RunningMeansExecuting, Executing
<1>7. AcceptedIsClosed'
  BY DEF AcceptedIsClosed
<1>8. ServesOwnRequest'
  BY DEF TypeOK, ServesOwnRequest
<1> QED
  BY <1>1, <1>2, <1>3, <1>4, <1>5, <1>6, <1>7, <1>8

LEMMA WorkKeepsIInv ==
  ASSUME IInv, NEW c \in Clients, Work(c)
  PROVE  IInv'
<1>1. CASE Reply(c)
  BY <1>1, RefusalKeepsIInv DEF Reply, IInv, JobsMatchPhases
<1> QED
  BY <1>1, RequestKeepsIInv, CompleteKeepsIInv, StopKeepsIInv, AbandonKeepsIInv DEF Work

-----------------------------------------------------------------------------
(* Steps outside the lock.                                                 *)

LEMMA AcceptKeepsIInv ==
  ASSUME IInv, NEW t \in Turns, AcceptPartial(t)
  PROVE  IInv'
BY DEF IInv, AcceptPartial, tasks, history, TypeOK, JobsMatchPhases, HolderIsInside,
       NobodyWhenDown, RowsAreWhole, RunningMeansExecuting, Executing, AcceptedIsClosed,
       ServesOwnRequest

LEMMA CrashKeepsIInv ==
  ASSUME IInv, Crash
  PROVE  IInv'
<1> USE NoneAssumption DEF IInv, Crash, durable
<1>1. TypeOK'
  <2>1. sent \in [Turns -> Nat] /\ traced \in [Turns -> Nat] /\ lost \in [Turns -> Int]
    BY DEF TypeOK
  <2>2. \A t \in Turns : sent[t] - traced[t] \in Int /\ lost[t] \in Int
    BY <2>1
  <2>3. lost' \in [Turns -> Int]
    BY <2>2
  <2> QED
    BY <2>3 DEF TypeOK
<1>2. /\ ~up' /\ holder' = None
      /\ \A c \in Clients : phase'[c] = "idle" /\ job'[c] = None
  OBVIOUS
<1>3. RowsAreWhole' /\ AcceptedIsClosed'
  BY DEF RowsAreWhole, AcceptedIsClosed
<1> QED
  BY <1>1, <1>2, <1>3
  DEF JobsMatchPhases, HolderIsInside, NobodyWhenDown, RunningMeansExecuting, ServesOwnRequest

LEMMA RestartKeepsIInv ==
  ASSUME IInv, Restart
  PROVE  IInv'
<1> USE DEF IInv, Restart, tasks, history, Stopped
<1>1. TypeOK'
  BY DEF TypeOK, Statuses
<1>2. \A c \in Clients : phase'[c] = "idle"
  BY DEF NobodyWhenDown
<1>3. \A t \in Turns : status'[t] # "running"
  BY DEF TypeOK
<1>4. RowsAreWhole'
  BY DEF TypeOK, RowsAreWhole
<1>5. AcceptedIsClosed'
  BY DEF TypeOK, AcceptedIsClosed
<1> QED
  BY <1>1, <1>2, <1>3, <1>4, <1>5
  DEF JobsMatchPhases, HolderIsInside, NobodyWhenDown, RunningMeansExecuting, ServesOwnRequest

LEMMA StutterKeepsIInv ==
  ASSUME IInv, UNCHANGED vars
  PROVE  IInv'
BY DEF IInv, vars, durable, tasks, history, TypeOK, JobsMatchPhases, HolderIsInside,
       NobodyWhenDown, RowsAreWhole, RunningMeansExecuting, Executing, AcceptedIsClosed,
       ServesOwnRequest

LEMMA NextKeepsIInv ==
  ASSUME IInv, [Next]_vars
  PROVE  IInv'
BY SubmitKeepsIInv, EnterKeepsIInv, WorkKeepsIInv, AcceptKeepsIInv, CrashKeepsIInv,
   RestartKeepsIInv, StutterKeepsIInv DEF Next

THEOREM Invariance == Spec => []IInv
<1>1. Init => IInv
  BY InitIInv
<1>2. IInv /\ [Next]_vars => IInv'
  BY NextKeepsIInv
<1> QED
  BY <1>1, <1>2, PTL DEF Spec

-----------------------------------------------------------------------------
(* The results.                                                            *)

\* Every variable keeps its type.
THEOREM TypeCorrect == Spec => []TypeOK
BY Invariance, PTL DEF IInv

\* For any number of connections a row says "running" exactly while the
\* holder of chat_lock executes it.
THEOREM RunningTurnsHaveARun == Spec => []RunningMeansExecuting
BY Invariance, PTL DEF IInv

\* Acceptance, which takes no lock, never meets a running or completed turn.
THEOREM AcceptanceCloses == Spec => []AcceptedIsClosed
BY Invariance, PTL DEF IInv

\* No connection is served the row of another request.
THEOREM ConnectionsGetTheirOwnTurn == Spec => []ServesOwnRequest
BY Invariance, PTL DEF IInv

-----------------------------------------------------------------------------
(* Closed rows are final.                                                  *)

FinalStep ==
  \A t \in Turns : Closed(t) =>
    \/ status'[t] = "absent"
    \/ /\ status'[t] = status[t]
       /\ result'[t] = result[t]
       /\ request'[t] = request[t]
       /\ accepted'[t] = accepted[t]

\* What an executing task writes, it writes to a row that is not closed.
LEMMA RunningIsNotClosed ==
  ASSUME IInv, NEW c \in Clients, phase[c] = "running"
  PROVE  /\ job[c].turn \in Turns /\ holder = c
         /\ status[job[c].turn] = "running" /\ ~Closed(job[c].turn)
BY DEF IInv, JobsMatchPhases, TurnJobs, RunningMeansExecuting, AcceptedIsClosed, Closed, Stopped

LEMMA StepIsFinal ==
  ASSUME IInv, [Next]_vars
  PROVE  FinalStep
<1> USE DEF FinalStep
<1>1. CASE UNCHANGED vars
  BY <1>1 DEF vars, durable
<1>2. ASSUME NEW c \in Clients, Submit(c)
      PROVE  FinalStep
  BY <1>2 DEF Submit, SubmitPrompt, SubmitResume, SubmitDelete, Queue, durable
<1>3. ASSUME NEW c \in Clients, Enter(c)
      PROVE  FinalStep
  <2>1. CASE ReplayTurn(c) \/ RejectPrompt(c) \/ RejectResume(c) \/ RejectDelete(c)
    BY <2>1 DEF ReplayTurn, RejectPrompt, RejectResume, RejectDelete, durable
  <2>2. CASE BeginTurn(c)
    BY <2>2 DEF BeginTurn, Closed, IInv, TypeOK, AcceptedIsClosed, Stopped
  <2>3. CASE ResumeTurn(c)
    BY <2>3 DEF ResumeTurn, ResumeAllowed, Resumable, Closed, IInv, TypeOK, Stopped
  <2>4. CASE DeleteProject(c)
    BY <2>4 DEF DeleteProject, IInv, TypeOK
  <2> QED
    BY <1>3, <2>1, <2>2, <2>3, <2>4 DEF Enter
<1>4. ASSUME NEW c \in Clients, Work(c)
      PROVE  FinalStep
  <2>1. CASE ProviderRequest(c) \/ Reply(c) \/ AbandonWait(c)
    BY <2>1 DEF ProviderRequest, Reply, AbandonWait, durable
  <2>2. CASE CompleteTurn(c) \/ FailTurn(c) \/ InterruptTurn(c)
    BY <2>2, RunningIsNotClosed DEF CompleteTurn, FailTurn, InterruptTurn, Finish, IInv, TypeOK
  <2> QED
    BY <1>4, <2>1, <2>2 DEF Work
<1>5. ASSUME NEW t \in Turns, AcceptPartial(t)
      PROVE  FinalStep
  BY <1>5 DEF AcceptPartial, Closed, IInv, TypeOK, Stopped
<1>6. CASE Crash
  BY <1>6 DEF Crash, durable
<1>7. CASE Restart
  BY <1>7 DEF Restart, Closed, IInv, TypeOK, AcceptedIsClosed, Stopped
<1> QED
  BY <1>1, <1>2, <1>3, <1>4, <1>5, <1>6, <1>7 DEF Next

\* A completed or accepted turn keeps its status, result and request under
\* every interleaving, until its project is deleted.
THEOREM ClosedTurnsAreFinal == Spec => ClosedIsFinal
<1>1. IInv /\ [Next]_vars => [FinalStep]_vars
  BY StepIsFinal
<1> QED
  BY <1>1, Invariance, PTL DEF Spec, ClosedIsFinal, FinalStep

-----------------------------------------------------------------------------
(* The service implements RoomTurns.                                       *)

stages == [t \in Turns |-> StageOf(t)]

\* With the lock free no turn is in progress.
LEMMA QuietRoom ==
  ASSUME IInv, holder = None
  PROVE  \A t \in Turns : stages[t] # "active"
BY NoneAssumption DEF IInv, TypeOK, RunningMeansExecuting, stages, StageOf

\* The server is up while anybody's request is in flight.
LEMMA UpWhileServing ==
  ASSUME IInv, NEW c \in Clients, phase[c] # "idle"
  PROVE  up
BY DEF IInv, NobodyWhenDown

\* What is not a step of a row is invisible.
LEMMA RowsUnchanged ==
  ASSUME UNCHANGED <<status, result, accepted, up>>
  PROVE  UNCHANGED <<stages, result>>
BY DEF stages, StageOf

\* One row changes its stage, the others keep theirs.
LEMMA OneStage ==
  ASSUME NEW t \in Turns, up' = up,
         \A u \in Turns : u # t => status'[u] = status[u] /\ accepted'[u] = accepted[u]
  PROVE  stages' = [stages EXCEPT ![t] = StageOf(t)']
BY DEF stages, StageOf

LEMMA EnterImplements ==
  ASSUME IInv, NEW c \in Clients, Enter(c)
  PROVE  [Room!Next]_<<stages, result>>
<1>1. up /\ holder = None /\ phase[c] = "waiting"
  BY UpWhileServing
  DEF Enter, BeginTurn, ReplayTurn, RejectPrompt, ResumeTurn, RejectResume, DeleteProject,
      RejectDelete, Granted
<1>2. Room!Quiet
  BY <1>1, QuietRoom DEF Room!Quiet, stages
<1>3. CASE ReplayTurn(c) \/ RejectPrompt(c) \/ RejectResume(c) \/ RejectDelete(c)
  BY <1>3, RowsUnchanged DEF ReplayTurn, RejectPrompt, RejectResume, RejectDelete, durable
<1>4. CASE BeginTurn(c) \/ ResumeTurn(c)
  <2>1. PICK t \in Turns : t = job[c].turn
    BY <1>4, GrantedJob DEF BeginTurn, ResumeTurn, TurnJobs
  <2>2. /\ status' = [status EXCEPT ![t] = "running"]
        /\ UNCHANGED <<result, accepted, up>>
    BY <1>4, <2>1 DEF BeginTurn, ResumeTurn
  <2>3. stages[t] \in {"absent", "open"}
    <3>1. status[t] = "absent" \/ (status[t] \in {"failed", "interrupted"} /\ ~accepted[t])
      BY <1>4, <2>1 DEF BeginTurn, ResumeTurn, ResumeAllowed, Resumable, Stopped
    <3>2. StageOf(t) \in {"absent", "open"}
      BY <3>1 DEF StageOf
    <3> QED
      BY <2>1, <3>2 DEF stages
  <2>4. StageOf(t)' = "active"
    <3>1. status'[t] = "running" /\ up'
      BY <1>1, <2>1, <2>2 DEF IInv, TypeOK
    <3> QED
      BY <3>1 DEF StageOf
  <2>5. stages' = [stages EXCEPT ![t] = "active"]
    BY <2>1, <2>2, <2>4, OneStage DEF IInv, TypeOK
  <2>6. Room!Activate(t)
    BY <1>2, <2>2, <2>3, <2>5 DEF Room!Activate, stages
  <2> QED
    BY <2>1, <2>6 DEF Room!Next
<1>5. CASE DeleteProject(c)
  <2> DEFINE gone == TurnsOf(job[c].project)
  <2>1. stages' = [t \in Turns |-> IF t \in gone THEN "absent" ELSE stages[t]]
    BY <1>5 DEF DeleteProject, stages, StageOf, TurnsOf
  <2>2. result' = [t \in Turns |-> IF t \in gone THEN 0 ELSE result[t]]
    BY <1>5 DEF DeleteProject
  <2>3. gone \in SUBSET Turns
    BY DEF TurnsOf
  <2>4. Room!Forget(gone)
    BY <1>2, <2>1, <2>2 DEF Room!Forget, stages
  <2> QED
    BY <2>3, <2>4 DEF Room!Next
<1> QED
  BY <1>3, <1>4, <1>5, Enter(c) DEF Enter

LEMMA WorkImplements ==
  ASSUME IInv, NEW c \in Clients, Work(c)
  PROVE  [Room!Next]_<<stages, result>>
<1>1. CASE ProviderRequest(c) \/ Reply(c) \/ AbandonWait(c)
  BY <1>1, RowsUnchanged DEF ProviderRequest, Reply, AbandonWait, durable
<1>2. CASE CompleteTurn(c) \/ FailTurn(c) \/ InterruptTurn(c)
  <2> DEFINE t == job[c].turn
  <2>1. phase[c] = "running" /\ UNCHANGED <<up, accepted>>
    BY <1>2 DEF CompleteTurn, FailTurn, InterruptTurn, Finish
  <2>2. up /\ t \in Turns /\ status[t] = "running" /\ ~accepted[t] /\ result[t] = 0
    BY <2>1, UpWhileServing, RunningIsNotClosed DEF Closed, IInv, RowsAreWhole
  <2>3. stages[t] = "active"
    BY <2>2 DEF stages, StageOf
  <2>4. CASE CompleteTurn(c)
    <3>1. job[c].ticket \in Tickets
      BY <2>1 DEF IInv, JobsMatchPhases, TurnJobs
    <3>2. status' = [status EXCEPT ![t] = "completed"]
          /\ result' = [result EXCEPT ![t] = job[c].ticket]
      BY <2>4 DEF CompleteTurn, Finish
    <3>3. stages' = [stages EXCEPT ![t] = "done"]
      BY <2>1, <2>2, <3>2, OneStage DEF StageOf, IInv, TypeOK
    <3>4. Room!Complete(t)
      BY <2>3, <3>1, <3>2, <3>3 DEF Room!Complete, stages
    <3> QED
      BY <2>2, <3>4 DEF Room!Next
  <2>5. CASE FailTurn(c) \/ InterruptTurn(c)
    <3>1. PICK st \in Stopped : /\ status' = [status EXCEPT ![t] = st]
                                /\ result' = [result EXCEPT ![t] = 0]
      BY <2>5 DEF FailTurn, InterruptTurn, Finish, Stopped
    <3>2. result' = result
      BY <2>2, <3>1 DEF IInv, TypeOK
    <3>3. stages' = [stages EXCEPT ![t] = "open"]
      BY <2>1, <2>2, <3>1, OneStage DEF StageOf, IInv, TypeOK, Stopped
    <3>4. Room!Stop(t)
      BY <2>3, <3>2, <3>3 DEF Room!Stop, stages
    <3> QED
      BY <2>2, <3>4 DEF Room!Next
  <2> QED
    BY <1>2, <2>4, <2>5
<1> QED
  BY <1>1, <1>2 DEF Work

LEMMA OutsideImplements ==
  ASSUME IInv, (\E t \in Turns : AcceptPartial(t)) \/ Crash \/ Restart
  PROVE  [Room!Next]_<<stages, result>>
<1>1. ASSUME NEW t \in Turns, AcceptPartial(t)
      PROVE  Room!Next
  <2>1. stages[t] = "open" /\ StageOf(t)' = "accepted"
    BY <1>1 DEF AcceptPartial, stages, StageOf, Stopped, IInv, TypeOK
  <2>2. stages' = [stages EXCEPT ![t] = "accepted"]
    BY <1>1, <2>1, OneStage DEF AcceptPartial, IInv, TypeOK
  <2>3. Room!Accept(t)
    BY <1>1, <2>1, <2>2 DEF AcceptPartial, Room!Accept, stages
  <2> QED
    BY <2>3 DEF Room!Next
<1>2. CASE Crash
  <2>1. up /\ ~up' /\ UNCHANGED <<status, accepted, result>>
    BY <1>2 DEF Crash, durable
  <2>2. CASE \E t \in Turns : status[t] = "running"
    <3>1. PICK t \in Turns : status[t] = "running"
      BY <2>2
    <3>2. \A u \in Turns : status[u] = "running" => u = t
      BY <2>1, <3>1 DEF IInv, RunningMeansExecuting, Executing
    <3>3. stages[t] = "active" /\ stages' = [stages EXCEPT ![t] = "open"]
      BY <2>1, <3>1, <3>2 DEF stages, StageOf, IInv, AcceptedIsClosed, Stopped
    <3>4. Room!Stop(t)
      BY <2>1, <3>3 DEF Room!Stop, stages
    <3> QED
      BY <3>4 DEF Room!Next
  <2>3. CASE \A t \in Turns : status[t] # "running"
    BY <2>1, <2>3 DEF stages, StageOf
  <2> QED
    BY <2>2, <2>3
<1>3. CASE Restart
  BY <1>3 DEF Restart, stages, StageOf, IInv, TypeOK, AcceptedIsClosed, Stopped
<1> QED
  BY <1>1, <1>2, <1>3

\* Every step of locks, connections, crashes and restarts is a step of the
\* abstract room or invisible to it.
THEOREM RoomRefinement == Spec => ImplementsRoom
<1>1. Init => Room!Init
  BY DEF Init, Room!Init, StageOf
<1>2. IInv /\ [Next]_vars => [Room!Next]_<<stages, result>>
  <2> SUFFICES ASSUME IInv, [Next]_vars
               PROVE  [Room!Next]_<<stages, result>>
    OBVIOUS
  <2>1. CASE UNCHANGED vars
    BY <2>1, RowsUnchanged DEF vars, durable
  <2>2. ASSUME NEW c \in Clients, Submit(c)
        PROVE  UNCHANGED <<stages, result>>
    BY <2>2, RowsUnchanged
    DEF Submit, SubmitPrompt, SubmitResume, SubmitDelete, Queue, durable
  <2> QED
    BY <2>1, <2>2, EnterImplements, WorkImplements, OutsideImplements DEF Next
<1> QED
  BY <1>1, <1>2, Invariance, PTL DEF Spec, ImplementsRoom, Room!Spec, Room!vars, stages

-----------------------------------------------------------------------------
(* The provider-request budget.                                            *)

\* Where the requests of a turn are counted: nowhere for a missing row, in
\* the trace of a stopped one, in the running task's counter, which started
\* from that trace, for a running one; what a crash cut off is lost.
RequestsAreCounted ==
  /\ \A t \in Turns :
       /\ lost[t] >= 0 /\ traced[t] <= RequestLimit
       /\ sent[t] <= RequestLimit + lost[t]
       /\ status[t] = "absent" => sent[t] = 0 /\ traced[t] = 0 /\ lost[t] = 0
       /\ Resumable(t) \/ (status[t] = "running" /\ ~up) => sent[t] = traced[t] + lost[t]
  /\ \A c \in Clients : phase[c] = "running" =>
       LET t == job[c].turn IN
       /\ traced[t] <= spent[c] /\ spent[c] <= RequestLimit
       /\ sent[t] = spent[c] + lost[t]

LEMMA InitCounted == Init => RequestsAreCounted
  BY ChatTurnsAssumption DEF Init, RequestsAreCounted, Resumable, Stopped

LEMMA SubmitCounted ==
  ASSUME IInv, RequestsAreCounted, NEW c \in Clients, Submit(c)
  PROVE  RequestsAreCounted'
<1>1. /\ phase[c] = "idle" /\ phase' = [phase EXCEPT ![c] = "waiting"]
      /\ \E j : job' = [job EXCEPT ![c] = j]
      /\ UNCHANGED <<durable, up, spent, history>>
  BY DEF Submit, SubmitPrompt, SubmitResume, SubmitDelete, Queue
<1> QED
  BY <1>1 DEF RequestsAreCounted, Resumable, durable, history, IInv, TypeOK

\* The lock is given back without a run.
LEMMA LeaveCounted ==
  ASSUME IInv, RequestsAreCounted, NEW c \in Clients,
         phase' = [phase EXCEPT ![c] = "idle"], job' = [job EXCEPT ![c] = None],
         \A d \in Clients : d # c => spent'[d] = spent[d],
         UNCHANGED <<durable, up, history>>
  PROVE  RequestsAreCounted'
BY DEF RequestsAreCounted, Resumable, durable, history, IInv, TypeOK

LEMMA EnterCounted ==
  ASSUME IInv, RequestsAreCounted, NEW c \in Clients, Enter(c)
  PROVE  RequestsAreCounted'
<1>1. holder = None /\ phase[c] = "waiting" /\ up
  BY UpWhileServing
  DEF Enter, BeginTurn, ReplayTurn, RejectPrompt, ResumeTurn, RejectResume, DeleteProject,
      RejectDelete, Granted
<1>2. \A d \in Clients : phase[d] \notin {"running", "replying"}
  BY <1>1, NoneAssumption DEF IInv, JobsMatchPhases
<1>3. CASE RejectPrompt(c) \/ RejectResume(c) \/ RejectDelete(c)
  <2>1. LeaveRoom(c) /\ UNCHANGED <<durable, up, history>>
    BY <1>3 DEF RejectPrompt, RejectResume, RejectDelete
  <2>2. \A d \in Clients : d # c => spent'[d] = spent[d]
    BY <2>1 DEF LeaveRoom, IInv, TypeOK
  <2> QED
    BY <2>1, <2>2, LeaveCounted DEF LeaveRoom
<1>4. CASE ReplayTurn(c)
  BY <1>4, <1>2 DEF ReplayTurn, EnterRoom, RequestsAreCounted, Resumable, durable, history,
                    IInv, TypeOK
<1>5. CASE BeginTurn(c) \/ ResumeTurn(c)
  <2>1. PICK t \in Turns : t = job[c].turn
    BY <1>5, GrantedJob DEF BeginTurn, ResumeTurn, TurnJobs
  <2>2. /\ sent[t] = traced[t] + lost[t]
        /\ spent' = [spent EXCEPT ![c] = traced[t]]
        /\ job' = job /\ phase' = [phase EXCEPT ![c] = "running"]
        /\ status' = [status EXCEPT ![t] = "running"]
        /\ UNCHANGED <<accepted, traced, up, sent, lost>>
    BY <1>5, <2>1
    DEF BeginTurn, ResumeTurn, ResumeAllowed, EnterRoom, history, RequestsAreCounted, IInv,
        TypeOK
  <2>3. \A d \in Clients : phase'[d] = "running" => d = c
    BY <1>2, <2>2 DEF IInv, TypeOK
  <2>4. \A u \in Turns : Resumable(u)' => Resumable(u)
    BY <2>2 DEF Resumable, Stopped, IInv, TypeOK
  <2> QED
    BY <1>1, <2>1, <2>2, <2>3, <2>4 DEF RequestsAreCounted, IInv, TypeOK
<1>6. CASE DeleteProject(c)
  <2>1. \A d \in Clients : phase'[d] # "running"
    BY <1>6, <1>2 DEF DeleteProject, LeaveRoom, IInv, TypeOK
  <2>2. up'
    BY <1>1, <1>6 DEF DeleteProject
  <2> QED
    BY <1>6, <2>1, <2>2, ChatTurnsAssumption
    DEF DeleteProject, RequestsAreCounted, Resumable, Stopped, IInv, TypeOK
<1> QED
  BY <1>3, <1>4, <1>5, <1>6 DEF Enter

LEMMA WorkCounted ==
  ASSUME IInv, RequestsAreCounted, NEW c \in Clients, Work(c)
  PROVE  RequestsAreCounted'
<1>1. CASE Reply(c) \/ AbandonWait(c)
  BY <1>1, LeaveCounted DEF Reply, AbandonWait, LeaveRoom, IInv, TypeOK
<1>2. CASE ProviderRequest(c) \/ CompleteTurn(c) \/ FailTurn(c) \/ InterruptTurn(c)
  <2>1. phase[c] = "running"
    BY <1>2 DEF ProviderRequest, CompleteTurn, FailTurn, InterruptTurn
  <2>2. PICK t \in Turns : t = job[c].turn
    BY <2>1, RunningIsNotClosed
  <2>3. up /\ holder = c /\ status[t] = "running"
    BY <2>1, <2>2, RunningIsNotClosed, UpWhileServing
  <2>4. \A d \in Clients : phase[d] = "running" => d = c
    BY <2>3 DEF IInv, JobsMatchPhases
  <2>5. /\ traced[t] <= spent[c] /\ spent[c] <= RequestLimit
        /\ sent[t] = spent[c] + lost[t] /\ lost[t] >= 0
    BY <2>1, <2>2 DEF RequestsAreCounted
  <2>6. CASE ProviderRequest(c)
    <3>1. /\ sent' = [sent EXCEPT ![t] = sent[t] + 1]
          /\ spent' = [spent EXCEPT ![c] = spent[c] + 1]
          /\ spent[c] < RequestLimit
          /\ UNCHANGED <<status, accepted, traced, up, phase, job, lost>>
      BY <2>6, <2>2 DEF ProviderRequest, durable
    <3>2. \A u \in Turns : Resumable(u)' => Resumable(u) /\ u # t
      BY <3>1, <2>3 DEF Resumable, Stopped
    <3>3. /\ sent[t] \in Nat /\ spent[c] \in Nat /\ lost[t] \in Int /\ traced[t] \in Nat
          /\ sent'[t] = sent[t] + 1 /\ spent'[c] = spent[c] + 1
          /\ \A u \in Turns : u # t => sent'[u] = sent[u]
      BY <3>1 DEF IInv, TypeOK
    <3>4. ASSUME NEW u \in Turns
          PROVE  /\ lost'[u] >= 0 /\ traced'[u] <= RequestLimit
                 /\ sent'[u] <= RequestLimit + lost'[u]
                 /\ status'[u] = "absent" => sent'[u] = 0 /\ traced'[u] = 0 /\ lost'[u] = 0
                 /\ Resumable(u)' \/ (status'[u] = "running" /\ ~up')
                      => sent'[u] = traced'[u] + lost'[u]
      <4>1. CASE u = t
        BY <4>1, <3>1, <3>2, <3>3, <2>3, <2>5, ChatTurnsAssumption DEF Resumable
      <4>2. CASE u # t
        BY <4>2, <3>1, <3>2, <3>3, <2>3 DEF RequestsAreCounted
      <4> QED
        BY <4>1, <4>2
    <3>5. \A d \in Clients : phase'[d] = "running" =>
            LET u == job'[d].turn IN
            /\ traced'[u] <= spent'[d] /\ spent'[d] <= RequestLimit
            /\ sent'[u] = spent'[d] + lost'[u]
      BY <3>1, <3>3, <2>2, <2>4, <2>5, ChatTurnsAssumption
    <3> QED
      BY <3>4, <3>5 DEF RequestsAreCounted
  <2>7. CASE CompleteTurn(c) \/ FailTurn(c) \/ InterruptTurn(c)
    <3>1. /\ \E st \in {"completed", "failed", "interrupted"} :
               status' = [status EXCEPT ![t] = st]
          /\ traced' = [traced EXCEPT ![t] = spent[c]]
          /\ UNCHANGED <<accepted, up, sent, lost>>
      BY <2>7, <2>2 DEF CompleteTurn, FailTurn, InterruptTurn, Finish, history
    <3>2. \A d \in Clients : phase'[d] # "running"
      BY <2>7, <2>4 DEF CompleteTurn, FailTurn, InterruptTurn, LeaveRoom, IInv, TypeOK
    <3>3. \A u \in Turns : u # t /\ Resumable(u)' => Resumable(u)
      BY <3>1 DEF Resumable, IInv, TypeOK
    <3> QED
      BY <3>1, <3>2, <3>3, <2>2, <2>3, <2>5, ChatTurnsAssumption
      DEF RequestsAreCounted, IInv, TypeOK
  <2> QED
    BY <1>2, <2>6, <2>7
<1> QED
  BY <1>1, <1>2 DEF Work

LEMMA OutsideCounted ==
  ASSUME IInv, RequestsAreCounted, (\E t \in Turns : AcceptPartial(t)) \/ Crash \/ Restart
  PROVE  RequestsAreCounted'
<1>1. CASE \E t \in Turns : AcceptPartial(t)
  BY <1>1 DEF AcceptPartial, RequestsAreCounted, Resumable, tasks, history, IInv, TypeOK
<1>2. CASE Crash
  <2>1. /\ up /\ ~up' /\ \A d \in Clients : phase'[d] # "running"
        /\ UNCHANGED <<status, accepted, traced, sent>>
    BY <1>2 DEF Crash, durable
  <2>2. ASSUME NEW t \in Turns, status[t] = "running"
        PROVE  lost'[t] = sent[t] - traced[t] /\ lost'[t] >= lost[t]
    <3>1. PICK c \in Clients : Executing(c, t)
      BY <2>1, <2>2 DEF IInv, RunningMeansExecuting
    <3>2. lost'[t] = sent[t] - traced[t]
      BY <1>2, <3>1 DEF Crash
    <3>3. sent[t] = spent[c] + lost[t] /\ traced[t] <= spent[c]
      BY <3>1 DEF Executing, RequestsAreCounted
    <3> QED
      BY <3>2, <3>3 DEF IInv, TypeOK
  <2>3. ASSUME NEW t \in Turns, status[t] # "running"
        PROVE  lost'[t] = lost[t]
    BY <1>2, <2>3 DEF Crash, Executing, IInv, RunningMeansExecuting
  <2>4. ASSUME NEW t \in Turns
        PROVE  /\ lost'[t] >= 0 /\ traced'[t] <= RequestLimit
               /\ sent'[t] <= RequestLimit + lost'[t]
               /\ status'[t] = "absent" => sent'[t] = 0 /\ traced'[t] = 0 /\ lost'[t] = 0
               /\ Resumable(t)' \/ (status'[t] = "running" /\ ~up')
                    => sent'[t] = traced'[t] + lost'[t]
    <3>1. CASE status[t] = "running"
      BY <3>1, <2>1, <2>2, ChatTurnsAssumption
      DEF RequestsAreCounted, Resumable, Stopped, IInv, TypeOK
    <3>2. CASE status[t] # "running"
      BY <3>2, <2>1, <2>3 DEF RequestsAreCounted, Resumable
    <3> QED
      BY <3>1, <3>2
  <2> QED
    BY <2>1, <2>4 DEF RequestsAreCounted
<1>3. CASE Restart
  <2>1. \A d \in Clients : phase'[d] # "running"
    BY <1>3 DEF Restart, tasks, IInv, NobodyWhenDown
  <2>2. up' /\ ~up /\ UNCHANGED <<accepted, sent, lost>>
    BY <1>3 DEF Restart, history
  <2>3. PICK old \in SUBSET {t \in Turns : Closed(t)} :
          traced' = [t \in Turns |-> IF t \in old THEN 0 ELSE traced[t]]
    BY <1>3 DEF Restart
  <2>4. ASSUME NEW t \in Turns
        PROVE  Resumable(t)' => (Resumable(t) \/ status[t] = "running") /\ t \notin old
    BY <1>3, <2>2 DEF Restart, Resumable, Stopped, Closed, IInv, TypeOK, AcceptedIsClosed
  <2>5. \A t \in Turns : status'[t] = "absent" => status[t] = "absent"
    BY <1>3 DEF Restart
  <2> QED
    BY <2>1, <2>2, <2>3, <2>4, <2>5, ChatTurnsAssumption DEF RequestsAreCounted, IInv, TypeOK
<1> QED
  BY <1>1, <1>2, <1>3

LEMMA CountedInvariant == Spec => []RequestsAreCounted
<1>1. RequestsAreCounted /\ UNCHANGED vars => RequestsAreCounted'
  BY DEF vars, durable, tasks, history, RequestsAreCounted, Resumable
<1>2. IInv /\ RequestsAreCounted /\ [Next]_vars => RequestsAreCounted'
  BY <1>1, SubmitCounted, EnterCounted, WorkCounted, OutsideCounted DEF Next
<1> QED
  BY <1>2, InitCounted, Invariance, PTL DEF Spec

\* All attempts of a turn together stay within the request budget, but for
\* the requests whose trace died with a crash; this holds for every limit.
THEOREM BudgetHolds == Spec => []BudgetAccounted
<1>1. IInv /\ RequestsAreCounted => BudgetAccounted
  BY DEF IInv, JobsMatchPhases, TurnJobs, RequestsAreCounted, BudgetAccounted, Executing
<1> QED
  BY <1>1, Invariance, CountedInvariant, PTL

-----------------------------------------------------------------------------
(* Stopped turns stay recoverable.                                         *)

RecoverableStep ==
  \A t \in Turns : Resumable(t) =>
    \/ Resumable(t)' /\ request'[t] = request[t] /\ traced'[t] = traced[t]
    \/ status'[t] = "absent"
    \/ accepted'[t] /\ status'[t] = status[t]
    \/ \E c \in Clients : Executing(c, t)' /\ job[c].kind = "resume"

LEMMA StepKeepsRecoverable ==
  ASSUME IInv, [Next]_vars
  PROVE  RecoverableStep
<1> USE DEF RecoverableStep, Resumable
<1>1. CASE UNCHANGED vars
  BY <1>1 DEF vars, durable
<1>2. ASSUME NEW c \in Clients, Submit(c)
      PROVE  RecoverableStep
  BY <1>2 DEF Submit, SubmitPrompt, SubmitResume, SubmitDelete, Queue, durable
<1>3. ASSUME NEW c \in Clients, Enter(c)
      PROVE  RecoverableStep
  <2>1. CASE ReplayTurn(c) \/ RejectPrompt(c) \/ RejectResume(c) \/ RejectDelete(c)
    BY <2>1 DEF ReplayTurn, RejectPrompt, RejectResume, RejectDelete, durable
  <2>2. CASE BeginTurn(c)
    BY <2>2 DEF BeginTurn, Stopped, IInv, TypeOK
  <2>3. CASE ResumeTurn(c)
    <3>1. PICK t \in Turns : t = job[c].turn
      BY <2>3, GrantedJob DEF ResumeTurn, TurnJobs
    <3>2. Executing(c, t)' /\ job[c].kind = "resume"
      BY <2>3, <3>1 DEF ResumeTurn, EnterRoom, Granted, Executing, IInv, TypeOK
    <3>3. \A u \in Turns : u # t => status'[u] = status[u]
      BY <2>3, <3>1 DEF ResumeTurn, IInv, TypeOK
    <3> QED
      BY <2>3, <3>2, <3>3 DEF ResumeTurn
  <2>4. CASE DeleteProject(c)
    BY <2>4 DEF DeleteProject, IInv, TypeOK
  <2> QED
    BY <1>3, <2>1, <2>2, <2>3, <2>4 DEF Enter
<1>4. ASSUME NEW c \in Clients, Work(c)
      PROVE  RecoverableStep
  <2>1. CASE ProviderRequest(c) \/ Reply(c) \/ AbandonWait(c)
    BY <2>1 DEF ProviderRequest, Reply, AbandonWait, durable
  <2>2. CASE CompleteTurn(c) \/ FailTurn(c) \/ InterruptTurn(c)
    BY <2>2, RunningIsNotClosed
    DEF CompleteTurn, FailTurn, InterruptTurn, Finish, Stopped, IInv, TypeOK
  <2> QED
    BY <1>4, <2>1, <2>2 DEF Work
<1>5. ASSUME NEW t \in Turns, AcceptPartial(t)
      PROVE  RecoverableStep
  BY <1>5 DEF AcceptPartial, IInv, TypeOK
<1>6. CASE Crash
  BY <1>6 DEF Crash, durable
<1>7. CASE Restart
  BY <1>7 DEF Restart, Closed, Stopped, IInv, TypeOK
<1> QED
  BY <1>1, <1>2, <1>3, <1>4, <1>5, <1>6, <1>7 DEF Next

\* A turn that stopped early stays in the recovery list with its request and
\* its count of requests until it is resumed, accepted or deleted.
THEOREM RecoveryIsNotForgotten == Spec => StoppedStaysRecoverable
<1>1. IInv /\ [Next]_vars => [RecoverableStep]_vars
  BY StepKeepsRecoverable
<1> QED
  BY <1>1, Invariance, PTL DEF Spec, StoppedStaysRecoverable, RecoverableStep
=============================================================================
