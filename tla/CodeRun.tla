-------------------------------- MODULE CodeRun --------------------------------
(***************************************************************************)
(* A user-approved run of a Python file.  The endpoint registers a session *)
(* and hands the run to a thread of the application, the client, which     *)
(* talks to the isolated runner over a socket; the runner starts the       *)
(* program, pumps its output and its input, kills it and answers.  Input,  *)
(* cancellation and a lost connection come in while all of this goes on,   *)
(* and a run that is over is recorded in the room.                         *)
(***************************************************************************)
EXTENDS Integers, FiniteSets, Sequences, SequencesExt

CONSTANTS
  InitialInputs,  \* sizes of the standard input a request may bring
  InputLimit,     \* runner_input_max_bytes, on both sides
  MessageLimit,   \* runner_input_message_max_bytes, on both sides
  OutputLimit,    \* MAX_OUTPUT_BYTES, in chunks
  SocketCapacity, \* events the runner's socket holds unread
  MaxRuns,        \* bound: runs requested
  MaxCommands,    \* bound: inputs, EOFs and cancellations of all runs
  MaxChunks,      \* bound: chunks a program writes
  None

\* What the client's thread may end with.
Answers == {"unavailable", "oversized", "unreachable", "nothing", "deadline", "result", "error"}

ASSUME CodeRunAssumption ==
  /\ {InputLimit, OutputLimit} \subseteq Nat
  /\ InitialInputs \subseteq Nat
  /\ {MessageLimit, SocketCapacity} \subseteq Nat \ {0}
  /\ {MaxRuns, MaxCommands, MaxChunks} \subseteq Nat
  /\ None \notin Answers

VARIABLES
  \* the application: the endpoints and the session
  runs,          \* runs requested so far
  project,       \* the project is there
  phase,         \* the run request: "none", "running", "recorded" or "failed"
  initial,       \* size of its standard input
  events,        \* session.events
  inputBytes,    \* session.input_bytes
  queue,         \* session.input_queue
  cancelEvent,   \* session.cancel_event
  commands,      \* commands received
  unsent,        \* commands of endpoints that have not yet queued them
  message,       \* what this run has left: its result, and the part shown in the room
  \* the client thread
  client,        \* "off", "connect", "cancel", "send", "receive" or "done"
  cancelSent,
  answer,        \* what the thread ends with
  \* the socket
  linked,        \* the client holds its end of the runner's connection
  toRunner,      \* commands under way
  toApp,         \* events under way
  \* the runner
  socketFile,    \* the socket's name exists
  server,        \* "listening", "requested", "running", "draining", "replying", "closed"
  verdict,       \* how the program ended
  stdinOpen,
  delivered,     \* the runner's input_bytes
  captured,      \* chunks of output read
  \* the program
  process,       \* "none", "alive", "exited"
  pipe,          \* inputs written to its standard input and not read
  consumed,      \* inputs read
  written        \* chunks written, each with the inputs read before it

session == <<phase, initial, events, inputBytes, queue, cancelEvent, commands, unsent>>
thread == <<client, cancelSent, answer>>
link == <<linked, toRunner, toApp>>
runner == <<socketFile, server, verdict, stdinOpen, delivered, captured>>
program == <<process, pipe, consumed, written>>
vars == <<runs, project, session, message, thread, link, runner, program>>

Init ==
  /\ runs = 0 /\ project = TRUE
  /\ phase = "none" /\ initial = 0 /\ events = <<>> /\ inputBytes = 0 /\ queue = <<>>
  /\ cancelEvent = FALSE /\ commands = 0 /\ unsent = <<>>
  /\ message = None
  /\ client = "off" /\ cancelSent = FALSE /\ answer = None
  /\ linked = FALSE /\ toRunner = <<>> /\ toApp = <<>>
  /\ socketFile = TRUE /\ server = "listening" /\ verdict = None
  /\ stdinOpen = FALSE /\ delivered = 0 /\ captured = 0
  /\ process = "none" /\ pipe = 0 /\ consumed = 0 /\ written = <<>>

Stdin == [type |-> "stdin", text |-> <<>>]
Event(type, text) == [type |-> type, text |-> text]

-----------------------------------------------------------------------------
(* The endpoints.  One session at a time is registered.                    *)

\* create_session, the registration and the snapshot of the project's files;
\* a request that one of them refuses leaves nothing behind.
StartRun ==
  /\ phase = "none"
  /\ project
  /\ runs < MaxRuns
  /\ runs' = runs + 1
  /\ phase' = "running"
  /\ initial' \in {n \in InitialInputs : n <= InputLimit}
  /\ inputBytes' = initial'
  /\ events' = IF initial' > 0 THEN <<Stdin>> ELSE <<>>
  /\ client' = "connect"
  /\ UNCHANGED <<project, queue, cancelEvent, commands, unsent, message, cancelSent, answer,
                 link, runner, program>>

\* A command for the registered session.
Submit(command) ==
  /\ phase # "none"
  /\ commands < MaxCommands
  /\ commands' = commands + 1
  /\ unsent' = Append(unsent, command)
  /\ UNCHANGED <<runs, project, phase, initial, queue, message, thread, link, runner, program>>

\* Mutant of SubmitInput: the input is counted and sent but not recorded.
SubmitUnrecorded ==
  /\ inputBytes < InputLimit
  /\ inputBytes' = inputBytes + 1
  /\ Submit("input")
  /\ UNCHANGED <<events, cancelEvent>>

\* Mutant of SubmitInput: one byte beyond the limit is let in.
SubmitOverLimit ==
  /\ inputBytes <= InputLimit
  /\ inputBytes' = inputBytes + 1
  /\ events' = Append(events, Stdin)
  /\ Submit("input")
  /\ UNCHANGED cancelEvent

\* record_input, under the session's lock; the sending comes after it.
SubmitInput ==
  /\ inputBytes < InputLimit
  /\ inputBytes' = inputBytes + 1
  /\ events' = Append(events, Stdin)
  /\ Submit("input")
  /\ UNCHANGED cancelEvent

SubmitEof ==
  /\ Submit("close_stdin")
  /\ UNCHANGED <<events, inputBytes, cancelEvent>>

CancelRun ==
  /\ cancelEvent' = TRUE
  /\ Submit("cancel")
  /\ UNCHANGED <<events, inputBytes>>

\* The threads that serve these endpoints queue their commands in any order.
SendCommand ==
  /\ \E i \in DOMAIN unsent :
       /\ queue' = Append(queue, unsent[i])
       /\ unsent' = RemoveAt(unsent, i)
  /\ UNCHANGED <<runs, project, phase, initial, events, inputBytes, cancelEvent, commands,
                 message, thread, link, runner, program>>

\* The coordinator, which polls the request's connection while the thread
\* works, finds that the browser has closed it.
NoticeHangUp ==
  /\ phase = "running"
  /\ client # "done"
  /\ cancelEvent' = TRUE
  /\ UNCHANGED <<runs, project, phase, initial, events, inputBytes, queue, commands, unsent,
                 message, thread, link, runner, program>>

DeleteProject ==
  /\ project
  /\ project' = FALSE
  /\ UNCHANGED <<runs, session, message, thread, link, runner, program>>

\* The message of the room has the transcript up to the room's own limit of
\* characters, and a flag that tells whether anything was cut; that may be the
\* role signals, which come last.  The characters are not counted.
Shown(transcript) ==
  {m \in [result : {transcript}, shown : {SubSeq(transcript, 1, n) : n \in 0..Len(transcript)},
          truncated : BOOLEAN] : m.shown # transcript => m.truncated}

\* Mutant of RecordResult: the flag is computed of the text already cut.
RecordUnflagged ==
  /\ phase = "running"
  /\ client = "done"
  /\ IF answer = "result" /\ project
     THEN phase' = "recorded" /\ \E m \in Shown(events) : message' = [m EXCEPT !.truncated = FALSE]
     ELSE phase' = "failed" /\ UNCHANGED message
  /\ UNCHANGED <<runs, project, initial, events, inputBytes, queue, cancelEvent, commands,
                 unsent, thread, link, runner, program>>

\* The coordinator answers the request with the transcript and leaves a
\* message in the room; an error of the runner, or a project that is gone,
\* makes it a failed request.
RecordResult ==
  /\ phase = "running"
  /\ client = "done"
  /\ IF answer = "result" /\ project
     THEN phase' = "recorded" /\ message' \in Shown(events)
     ELSE phase' = "failed" /\ UNCHANGED message
  /\ UNCHANGED <<runs, project, initial, events, inputBytes, queue, cancelEvent, commands,
                 unsent, thread, link, runner, program>>

\* The handler removes the session, with whatever it still holds.
CloseSession ==
  /\ phase \in {"recorded", "failed"}
  /\ phase' = "none"
  /\ initial' = 0
  /\ events' = <<>>
  /\ inputBytes' = 0
  /\ queue' = <<>>
  /\ cancelEvent' = FALSE
  /\ unsent' = <<>>
  /\ message' = None
  /\ client' = "off"
  /\ cancelSent' = FALSE
  /\ answer' = None
  /\ UNCHANGED <<runs, project, commands, link, runner, program>>

-----------------------------------------------------------------------------
(* The client thread, CodeRunnerClient.run_python.                         *)

\* The runner has closed the connection this client still holds.
PeerClosed == server \in {"closed", "listening"}

\* The thread ends, and its end of the connection with it.
EndClient(with) ==
  /\ client' = "done"
  /\ answer' = with
  /\ linked' = FALSE
  /\ toApp' = <<>>

\* Connecting and sending the request; the runner takes it at once.  A
\* request beyond the client's own limit is not sent.
Connect ==
  /\ client = "connect"
  /\ \/ /\ socketFile
        /\ client' = "cancel"
        /\ linked' = TRUE
        /\ toRunner' = <<>>
        /\ server' = "requested"
        /\ UNCHANGED <<answer, toApp>>
     \/ /\ EndClient(IF socketFile THEN "oversized" ELSE "unavailable")
        /\ UNCHANGED <<toRunner, server>>
  /\ UNCHANGED <<runs, project, session, message, cancelSent, socketFile, verdict, stdinOpen,
                 delivered, captured, program>>

\* sendall, on a connection that the runner may have closed.
Transmit(command, next) ==
  IF PeerClosed
  THEN EndClient("unreachable") /\ UNCHANGED toRunner
  ELSE client' = next /\ toRunner' = Append(toRunner, command) /\ UNCHANGED <<answer, linked, toApp>>

SendCancel ==
  /\ client = "cancel"
  /\ IF cancelEvent /\ ~cancelSent
     THEN Transmit("cancel", "send") /\ cancelSent' = TRUE
     ELSE client' = "send" /\ UNCHANGED <<cancelSent, answer, link>>
  /\ UNCHANGED <<runs, project, session, message, runner, program>>

SendQueued ==
  /\ client = "send"
  /\ IF queue = <<>>
     THEN client' = "receive" /\ UNCHANGED <<queue, answer, link>>
     ELSE Transmit(Head(queue), "send") /\ queue' = Tail(queue)
  /\ UNCHANGED <<runs, project, phase, initial, events, inputBytes, cancelEvent, commands,
                 unsent, message, cancelSent, runner, program>>

\* What has arrived is read, in part or in full: output goes to the session,
\* the final response, which comes last, ends the thread.  Nothing is a
\* timeout of the poll, or the end of the connection.
Receive ==
  /\ client = "receive"
  /\ \/ /\ toApp # <<>>
        /\ \E k \in 1..Len(toApp) :
             IF toApp[k].type = "stdout"
             THEN /\ events' = events \o SubSeq(toApp, 1, k)
                  /\ toApp' = SubSeq(toApp, k + 1, Len(toApp))
                  /\ client' = "cancel"
                  /\ UNCHANGED <<answer, linked>>
             ELSE /\ events' = events \o SubSeq(toApp, 1, k - 1)
                  /\ EndClient(toApp[k].type)
     \/ /\ toApp = <<>>
        /\ IF PeerClosed THEN EndClient("nothing")
                         ELSE client' = "cancel" /\ UNCHANGED <<answer, linked, toApp>>
        /\ UNCHANGED events
  /\ UNCHANGED <<runs, project, phase, initial, inputBytes, queue, cancelEvent, commands,
                 unsent, message, cancelSent, toRunner, runner, program>>

\* The response deadline passes, or the response exceeds its limit.
GiveUp ==
  /\ client = "receive"
  /\ server \in {"running", "draining", "replying"}
  /\ EndClient("deadline")
  /\ UNCHANGED <<runs, project, session, message, cancelSent, toRunner, runner, program>>

-----------------------------------------------------------------------------
(* The runner.                                                             *)

\* The request is read through a buffer, and what has arrived behind it goes
\* into that buffer too: the runner's loop, which reads the connection itself,
\* never sees it.
ReadRequest ==
  \E n \in 0..Len(toRunner) : toRunner' = SubSeq(toRunner, n + 1, Len(toRunner))

\* Mutant of Spawn: the name of the socket stays while the program runs.
SpawnVisible ==
  /\ server = "requested"
  /\ server' = "running"
  /\ process' = "alive"
  /\ verdict' = None
  /\ stdinOpen' = TRUE
  /\ delivered' = IF initial <= MessageLimit THEN initial ELSE 0
  /\ pipe' = IF initial \in 1..MessageLimit THEN 1 ELSE 0
  /\ captured' = 0
  /\ consumed' = 0
  /\ written' = <<>>
  /\ ReadRequest
  /\ UNCHANGED <<runs, project, session, message, thread, linked, toApp, socketFile>>

\* The handler hides the socket and starts the program with the standard
\* input of the request, or refuses the request.
Spawn ==
  /\ server = "requested"
  /\ socketFile' = FALSE
  /\ \/ /\ server' = "running"
        /\ process' = "alive"
        /\ verdict' = None
        /\ stdinOpen' = TRUE
        /\ delivered' = IF initial <= MessageLimit THEN initial ELSE 0
        /\ pipe' = IF initial \in 1..MessageLimit THEN 1 ELSE 0
        /\ captured' = 0
        /\ consumed' = 0
        /\ written' = <<>>
     \/ /\ server' = "replying"
        /\ verdict' = "refused"
        /\ UNCHANGED <<stdinOpen, delivered, captured, program>>
  /\ ReadRequest
  /\ UNCHANGED <<runs, project, session, message, thread, linked, toApp>>

\* Mutant of Kill: what the program has left in its pipes is not read.
KillAndReply(how) ==
  /\ verdict' = how
  /\ process' = "none"
  /\ server' = "replying"
  /\ stdinOpen' = FALSE

\* The loop has ended: the process group and all descendants are killed and
\* the program's input is closed, then its pipes are drained.
Kill(how) ==
  /\ verdict' = how
  /\ process' = "none"
  /\ server' = "draining"
  /\ stdinOpen' = FALSE

Kept(first, last) == SubSeq(written, first, IF last < OutputLimit THEN last ELSE OutputLimit)

\* capture_output from the pipes, up to the chunk last: what fits the limit
\* is kept and sent.  Writing fails when the client is gone or has left too
\* much unread.
CanSend(text) == text = <<>> \/ (linked /\ Len(toApp) < SocketCapacity)
Capture(last) ==
  LET text == Kept(captured + 1, last) IN
  /\ CanSend(text)
  /\ captured' = last
  /\ toApp' = IF text = <<>> THEN toApp ELSE Append(toApp, Event("stdout", text))

PumpOutput ==
  /\ server = "running"
  /\ captured < Len(written)
  /\ Capture(captured + 1)
  /\ UNCHANGED <<runs, project, session, message, thread, linked, toRunner, socketFile, server,
                 verdict, stdinOpen, delivered, program>>

\* The failed write is an exception that ends the loop.
PumpFails ==
  /\ server = "running"
  /\ captured < Len(written)
  /\ ~CanSend(Kept(captured + 1, captured + 1))
  /\ captured' = captured + 1
  /\ Kill("error")
  /\ UNCHANGED <<runs, project, session, message, thread, link, socketFile, delivered, pipe,
                 consumed, written>>

\* send_input: an input that exceeds the runner's limit, or comes after the
\* end of the program's input, is dropped.
ForwardInput ==
  /\ server = "running"
  /\ toRunner # <<>> /\ Head(toRunner) = "input"
  /\ toRunner' = Tail(toRunner)
  /\ IF stdinOpen /\ delivered < InputLimit
     THEN IF process = "alive"
          THEN delivered' = delivered + 1 /\ pipe' = pipe + 1 /\ UNCHANGED stdinOpen
          ELSE delivered' = delivered + 1 /\ stdinOpen' = FALSE /\ UNCHANGED pipe
     ELSE UNCHANGED <<delivered, pipe, stdinOpen>>
  /\ UNCHANGED <<runs, project, session, message, thread, linked, toApp, socketFile, server,
                 verdict, captured, process, consumed, written>>

CloseStdin ==
  /\ server = "running"
  /\ toRunner # <<>> /\ Head(toRunner) = "close_stdin"
  /\ toRunner' = Tail(toRunner)
  /\ stdinOpen' = FALSE
  /\ UNCHANGED <<runs, project, session, message, thread, linked, toApp, socketFile, server,
                 verdict, delivered, captured, program>>

\* A cancellation, or the end of the client's connection.
Canceled ==
  /\ server = "running"
  /\ \/ toRunner # <<>> /\ Head(toRunner) = "cancel" /\ toRunner' = Tail(toRunner)
     \/ toRunner = <<>> /\ ~linked /\ UNCHANGED toRunner
  /\ Kill("canceled")
  /\ UNCHANGED <<runs, project, session, message, thread, linked, toApp, socketFile, delivered,
                 captured, pipe, consumed, written>>

\* The program has ended, or its time is up.
LoopEnds ==
  /\ server = "running"
  /\ Kill(IF process = "exited" THEN "completed" ELSE "timed_out")
  /\ UNCHANGED <<runs, project, session, message, thread, link, socketFile, delivered, captured,
                 pipe, consumed, written>>

\* What the pipes still hold is one more chunk of output; if it cannot be
\* sent, the response becomes an error.
Drain ==
  /\ server = "draining"
  /\ server' = "replying"
  /\ IF CanSend(Kept(captured + 1, Len(written)))
     THEN Capture(Len(written)) /\ UNCHANGED verdict
     ELSE verdict' = "error" /\ captured' = Len(written) /\ UNCHANGED toApp
  /\ UNCHANGED <<runs, project, session, message, thread, linked, toRunner, socketFile, stdinOpen,
                 delivered, program>>

\* Mutant of Reply: the runner waits for a client that is gone.
ReplyToClient ==
  /\ server = "replying"
  /\ linked /\ Len(toApp) < SocketCapacity
  /\ server' = "closed"
  /\ toApp' = Append(toApp, Event(IF verdict \in {"refused", "error"} THEN "error" ELSE "result", <<>>))
  /\ toRunner' = <<>>
  /\ UNCHANGED <<runs, project, session, message, thread, linked, socketFile, verdict, stdinOpen,
                 delivered, captured, program>>

\* The final response, if it can be written; the connection is closed.
Reply ==
  /\ server = "replying"
  /\ server' = "closed"
  /\ toApp' = IF linked /\ Len(toApp) < SocketCapacity
              THEN Append(toApp,
                     Event(IF verdict \in {"refused", "error"} THEN "error" ELSE "result", <<>>))
              ELSE toApp
  /\ toRunner' = <<>>
  /\ UNCHANGED <<runs, project, session, message, thread, linked, socketFile, verdict, stdinOpen,
                 delivered, captured, program>>

\* The service's loop binds the socket again.
Listen ==
  /\ server = "closed"
  /\ server' = "listening"
  /\ socketFile' = TRUE
  /\ UNCHANGED <<runs, project, session, message, thread, link, verdict, stdinOpen, delivered,
                 captured, program>>

-----------------------------------------------------------------------------
(* The program: anything a script may do.                                  *)

Write ==
  /\ process = "alive"
  /\ Len(written) < MaxChunks
  /\ written' = Append(written, consumed)
  /\ UNCHANGED <<runs, project, session, message, thread, link, runner, process, pipe, consumed>>

Read ==
  /\ process = "alive"
  /\ pipe > 0
  /\ pipe' = pipe - 1
  /\ consumed' = consumed + 1
  /\ UNCHANGED <<runs, project, session, message, thread, link, runner, process, written>>

Exit ==
  /\ process = "alive"
  /\ process' = "exited"
  /\ UNCHANGED <<runs, project, session, message, thread, link, runner, pipe, consumed, written>>

-----------------------------------------------------------------------------

Browser == StartRun \/ SubmitInput \/ SubmitEof \/ CancelRun \/ DeleteProject
Coordinator == NoticeHangUp \/ RecordResult \/ CloseSession
Client == Connect \/ SendCancel \/ SendQueued \/ Receive
Pump == PumpOutput \/ PumpFails \/ ForwardInput \/ CloseStdin \/ Canceled
Finish == LoopEnds \/ Drain \/ Reply \/ Listen
Program == Write \/ Read \/ Exit

Next ==
  \/ Browser \/ SendCommand \/ Coordinator
  \/ Client \/ GiveUp
  \/ Spawn \/ Pump \/ Finish
  \/ Program

Spec == Init /\ [][Next]_vars

\* The thread, the coordinator and the runner go on; a program that does not
\* end is stopped by the runner's own deadline.
FairSpec ==
  /\ Spec
  /\ WF_vars(Client)
  /\ WF_vars(RecordResult \/ CloseSession)
  /\ WF_vars(Spawn)
  /\ WF_vars(Finish)

-----------------------------------------------------------------------------
(* Properties.                                                             *)

Commands == {"input", "close_stdin", "cancel"}
Events == [type : {"stdin", "stdout", "result", "error"}, text : Seq(Nat)]
Messages == [result : Seq(Events), shown : Seq(Events), truncated : BOOLEAN]

TypeOK ==
  /\ runs \in Nat /\ project \in BOOLEAN
  /\ phase \in {"none", "running", "recorded", "failed"}
  /\ initial \in Nat /\ events \in Seq(Events) /\ inputBytes \in 0..InputLimit
  /\ queue \in Seq(Commands) /\ unsent \in Seq(Commands) /\ commands \in Nat
  /\ cancelEvent \in BOOLEAN
  /\ message \in Messages \cup {None}
  /\ client \in {"off", "connect", "cancel", "send", "receive", "done"}
  /\ cancelSent \in BOOLEAN
  /\ answer \in Answers \cup {None}
  /\ linked \in BOOLEAN /\ toRunner \in Seq(Commands) /\ toApp \in Seq(Events)
  /\ socketFile \in BOOLEAN
  /\ server \in {"listening", "requested", "running", "draining", "replying", "closed"}
  /\ verdict \in {None, "completed", "canceled", "timed_out", "error", "refused"}
  /\ stdinOpen \in BOOLEAN /\ delivered \in 0..InputLimit /\ captured \in 0..Len(written)
  /\ process \in {"none", "alive", "exited"}
  /\ pipe \in Nat /\ consumed \in Nat /\ written \in Seq(Nat)

\* The name of the socket is out of reach of a program, and a run is recorded
\* and the runner open to the next one only when nothing of it is alive.
RunnerIsClean ==
  process # "none" =>
    ~socketFile /\ phase # "recorded" /\ server \notin {"listening", "requested"}

Output(transcript) ==
  FlattenSeq([i \in DOMAIN transcript |-> transcript[i].text])
Inputs(transcript) == {i \in DOMAIN transcript : transcript[i].type = "stdin"}

\* The thread that appends output races the endpoints that append input, and
\* yet what the program wrote after reading an input comes after it.
TranscriptIsCausal ==
  \A i \in DOMAIN events : \A k \in DOMAIN events[i].text :
    Cardinality({j \in Inputs(events) : j < i}) >= events[i].text[k]

\* The transcript with which a run is answered has all that the program wrote
\* and the runner's limit allows, however the run ended; the message in the
\* room has the beginning of it, and all of it unless it is marked as cut.
TranscriptIsComplete ==
  phase = "recorded" =>
    /\ Output(message.result) = Kept(1, Len(written))
    /\ IsPrefix(Output(message.shown), Kept(1, Len(written)))
    /\ ~message.truncated => Output(message.shown) = Kept(1, Len(written))

\* A run ends and gives up its session, and the runner takes requests again,
\* whatever the program, the browser and the client do.
RunsComeToAnEnd == (phase # "none" ~> phase = "none") /\ (~socketFile ~> socketFile)

-----------------------------------------------------------------------------
(* What the documentation says and the code does not do.                   *)

\* run_coordinator.py:35: "Prepare, execute, and record one user-approved
\* isolated Python run": a program that was run, for a project that is still
\* there and within the client's deadline, leaves a message in the room.
RunsAreRecorded ==
  phase = "failed" /\ project /\ answer \in {"unreachable", "nothing", "error"}
    => verdict = "refused"
===============================================================================
