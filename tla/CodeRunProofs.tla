----------------------------- MODULE CodeRunProofs -----------------------------
(***************************************************************************)
(* That the runner is clean whenever it can be reached and whenever a run  *)
(* is recorded, for any limits and any number of runs.  A run is recorded  *)
(* when the client holds the runner's final response; the argument is that *)
(* such a response is under way, or held, only after the runner has closed *)
(* the connection, which it does after it has killed the program.          *)
(***************************************************************************)
EXTENDS CodeRun, SequenceTheorems, TLAPS

\* A program is alive only while the runner's loop runs, and the socket has
\* a name only outside of the handler.
RunnerInv ==
  /\ process # "none" => server = "running"
  /\ socketFile => server \in {"listening", "requested"}

\* What the program has written, and how much of it was read.
PipeInv ==
  /\ written \in Seq(Nat)
  /\ consumed \in Nat
  /\ captured \in 0..Len(written)

\* The client's connection, and what may be under way on it.
LinkInv ==
  /\ toApp \in Seq(Events)
  /\ linked => client \in {"cancel", "send", "receive"}
  /\ client \in {"off", "connect", "done"} => toApp = <<>>
  /\ \A i \in DOMAIN toApp : toApp[i].type # "stdout" => PeerClosed

\* A final response is an answer only after the connection was closed.
AnswerInv ==
  /\ phase = "none" => client = "off"
  /\ client # "done" => answer = None
  /\ phase \in {"recorded", "failed"} => client = "done"
  /\ phase = "recorded" => answer = "result"
  /\ answer \in {"result", "error"} => PeerClosed

CleanInv == RunnerInv /\ PipeInv /\ LinkInv /\ AnswerInv

USE CodeRunAssumption

LEMMA NoneIsNoAnswer == None \notin {"unavailable", "result", "error"}
BY DEF Answers

\* A piece of what was written is again a sequence of chunks.
LEMMA KeptType ==
  ASSUME PipeInv, NEW last \in 0..Len(written)
  PROVE  Kept(captured + 1, last) \in Seq(Nat)
<1> DEFINE n == IF last < OutputLimit THEN last ELSE OutputLimit
<1>1. n \in Int /\ captured + 1 \in Int
  BY DEF PipeInv
<1>2. \A i \in captured + 1 .. n : written[i] \in Nat
  BY SMTT(30) DEF PipeInv
<1> HIDE DEF n
<1>3. SubSeq(written, captured + 1, n) \in Seq(Nat)
  BY <1>1, <1>2, SubSeqProperties
<1> QED BY <1>3 DEF Kept, n

\* The invariant gives the property.
LEMMA CleanInvImplies == CleanInv => RunnerIsClean
BY DEF CleanInv, RunnerInv, AnswerInv, PeerClosed, RunnerIsClean

LEMMA InitClean == Init => CleanInv
BY DEF Init, CleanInv, RunnerInv, PipeInv, LinkInv, AnswerInv, PeerClosed

\* The variables of the session do not matter, but for its phase.
LEMMA SessionClean ==
  CleanInv /\ UNCHANGED <<phase, client, answer, linked, toApp, socketFile, server, captured, process,
                         consumed, written>> => CleanInv'
BY DEF CleanInv, RunnerInv, PipeInv, LinkInv, AnswerInv, PeerClosed

LEMMA BrowserClean == CleanInv /\ (Browser \/ SendCommand) => CleanInv'
<1> SUFFICES ASSUME CleanInv, Browser \/ SendCommand PROVE CleanInv'
  OBVIOUS
<1> USE DEF session, thread, link, runner, program
<1>1. CASE StartRun
  BY <1>1 DEF StartRun, CleanInv, RunnerInv, PipeInv, LinkInv, AnswerInv, PeerClosed
<1>2. ASSUME NEW command, Submit(command) PROVE CleanInv'
  BY <1>2, SessionClean DEF Submit
<1>3. CASE DeleteProject
  BY <1>3, SessionClean DEF DeleteProject
<1>4. CASE SendCommand
  BY <1>4, SessionClean DEF SendCommand
<1> QED BY <1>1, <1>2, <1>3, <1>4 DEF Browser, SubmitInput, SubmitEof, CancelRun

LEMMA CoordinatorClean == CleanInv /\ Coordinator => CleanInv'
<1> SUFFICES ASSUME CleanInv, Coordinator PROVE CleanInv'
  OBVIOUS
<1> USE DEF CleanInv, RunnerInv, PipeInv, LinkInv, AnswerInv, PeerClosed, session, thread, link,
            runner, program
<1>1. CASE NoticeHangUp
  BY <1>1 DEF NoticeHangUp
<1>2. CASE RecordResult
  BY <1>2 DEF RecordResult
<1>3. CASE CloseSession
  BY <1>3, NoneIsNoAnswer DEF CloseSession
<1> QED BY <1>1, <1>2, <1>3 DEF Coordinator

\* When the client ends with something else than a final response, or finds
\* the connection closed, the invariant holds.
LEMMA EndClean ==
  ASSUME CleanInv, NEW with, with \in {"result", "error"} => PeerClosed, EndClient(with),
         client \notin {"off", "done"},
         UNCHANGED <<phase, socketFile, server, captured, process, consumed, written>>
  PROVE  CleanInv'
BY DEF EndClient, CleanInv, RunnerInv, PipeInv, LinkInv, AnswerInv, PeerClosed

\* So it does when the client goes from one stage of its loop to the next.
LEMMA StageClean ==
  ASSUME CleanInv, client \in {"cancel", "send", "receive"}, client' \in {"cancel", "send", "receive"},
         UNCHANGED <<phase, answer, linked, toApp, socketFile, server, captured, process, consumed,
                     written>>
  PROVE  CleanInv'
BY DEF CleanInv, RunnerInv, PipeInv, LinkInv, AnswerInv, PeerClosed

LEMMA TransmitClean ==
  ASSUME CleanInv, NEW command, NEW next \in {"cancel", "send", "receive"}, Transmit(command, next),
         client \in {"cancel", "send", "receive"}, UNCHANGED <<phase, runner, program>>
  PROVE  CleanInv'
<1>1. CASE PeerClosed
  BY <1>1, EndClean DEF Transmit, CleanInv, AnswerInv, runner, program
<1>2. CASE ~PeerClosed
  BY <1>2, StageClean DEF Transmit, runner, program
<1> QED BY <1>1, <1>2

\* A request that is not sent ends the client.
LEMMA ConnectEnds ==
  ASSUME Connect, client' # "cancel"
  PROVE  \E with \in {"oversized", "unavailable"} : EndClient(with) /\ UNCHANGED server
BY DEF Connect

LEMMA ConnectClean == CleanInv /\ Connect => CleanInv'
<1> SUFFICES ASSUME CleanInv, Connect PROVE CleanInv'
  OBVIOUS
<1>1. CASE client' = "cancel"
  BY <1>1, NoneIsNoAnswer DEF Connect, EndClient, CleanInv, RunnerInv, PipeInv, LinkInv, AnswerInv, PeerClosed,
              session, program
<1>2. CASE client' # "cancel"
  <2>1. PICK with \in {"oversized", "unavailable"} : EndClient(with) /\ UNCHANGED server
    BY <1>2, ConnectEnds
  <2> QED BY <2>1, EndClean DEF Connect, CleanInv, AnswerInv, session, program
<1> QED BY <1>1, <1>2

LEMMA ClientClean == CleanInv /\ (Client \/ GiveUp) => CleanInv'
<1> SUFFICES ASSUME CleanInv, Client \/ GiveUp PROVE CleanInv'
  OBVIOUS
<1> USE DEF session, thread, link, runner, program
<1>1. CASE Connect
  BY <1>1, ConnectClean
<1>2. CASE SendCancel
  BY <1>2, TransmitClean, StageClean DEF SendCancel
<1>3. CASE SendQueued
  BY <1>3, TransmitClean, StageClean DEF SendQueued
<1>4. CASE GiveUp
  BY <1>4, EndClean DEF GiveUp, CleanInv, AnswerInv
<1>5. CASE Receive
  <2>1. CASE toApp = <<>>
    BY <1>5, <2>1, EndClean, StageClean DEF Receive, CleanInv, AnswerInv
  <2>2. CASE toApp # <<>>
    <3>1. PICK k \in 1..Len(toApp) :
            IF toApp[k].type = "stdout"
            THEN /\ toApp' = SubSeq(toApp, k + 1, Len(toApp))
                 /\ client' = "cancel"
                 /\ UNCHANGED <<answer, linked>>
            ELSE EndClient(toApp[k].type)
      BY <1>5, <2>2 DEF Receive
    <3>2. toApp \in Seq(Events) /\ k \in 1..Len(toApp)
      BY DEF CleanInv, LinkInv
    <3>3. UNCHANGED <<phase, runner, program>> /\ client = "receive"
      BY <1>5 DEF Receive
    <3>4. CASE toApp[k].type = "stdout"
      <4>1. toApp' = SubSeq(toApp, k + 1, Len(toApp)) /\ client' = "cancel" /\ UNCHANGED <<answer, linked>>
        BY <3>1, <3>4
      <4>2. toApp' \in Seq(Events)
        BY <3>2, <4>1
      <4>3. \A i \in DOMAIN toApp' : i + k \in DOMAIN toApp /\ toApp'[i] = toApp[i + k]
        BY <3>2, <4>1, SMTT(30)
      <4> QED BY <3>3, <4>1, <4>2, <4>3, ZenonT(30) DEF CleanInv, RunnerInv, PipeInv, LinkInv, AnswerInv, PeerClosed
    <3>5. CASE toApp[k].type # "stdout"
      <4>1. EndClient(toApp[k].type)
        BY <3>1, <3>5
      <4>2. PeerClosed
        BY <3>2, <3>5 DEF CleanInv, LinkInv
      <4> QED BY <1>5, <3>3, <4>1, <4>2, EndClean DEF CleanInv, AnswerInv
    <3> QED BY <3>4, <3>5
  <2> QED BY <2>1, <2>2
<1> QED BY <1>1, <1>2, <1>3, <1>4, <1>5 DEF Client

LEMMA SpawnClean == CleanInv /\ Spawn => CleanInv'
<1> SUFFICES ASSUME CleanInv, Spawn PROVE CleanInv'
  OBVIOUS
<1>1. server = "requested" /\ server' \in {"running", "replying"} /\ ~socketFile'
      /\ UNCHANGED <<phase, client, answer, linked, toApp>>
  BY DEF Spawn, session, thread, link
<1>2. process' # "none" => server' = "running"
  BY DEF Spawn, CleanInv, RunnerInv, program
<1>3. \/ written' = <<>> /\ consumed' = 0 /\ captured' = 0
      \/ UNCHANGED <<written, consumed, captured>>
  BY DEF Spawn, program
<1>4. PipeInv'
  <2>1. CASE written' = <<>> /\ consumed' = 0 /\ captured' = 0
    BY <2>1 DEF PipeInv
  <2>2. CASE UNCHANGED <<written, consumed, captured>>
    BY <2>2 DEF CleanInv, PipeInv
  <2> QED BY <1>3, <2>1, <2>2
<1>5. ~PeerClosed /\ ~PeerClosed'
  BY <1>1 DEF PeerClosed
<1> QED BY <1>1, <1>2, <1>4, <1>5 DEF CleanInv, RunnerInv, LinkInv, AnswerInv

\* Output is sent only to a client that is there, and is no final response.
LEMMA CaptureClean ==
  ASSUME CleanInv, NEW last \in captured..Len(written), Capture(last)
  PROVE  /\ captured' \in 0..Len(written)
         /\ toApp' \in Seq(Events)
         /\ client \in {"off", "connect", "done"} => toApp' = <<>>
         /\ \A i \in DOMAIN toApp' : toApp'[i].type # "stdout" => PeerClosed
<1> DEFINE text == Kept(captured + 1, last)
           event == Event("stdout", text)
<1>1. event \in Events /\ event.type = "stdout"
  BY KeptType DEF CleanInv, PipeInv, Event, Events
<1>2. /\ captured' = last
      /\ text = <<>> \/ linked
      /\ toApp' = IF text = <<>> THEN toApp ELSE Append(toApp, event)
  BY DEF Capture, CanSend
<1>3. captured' \in 0..Len(written)
  BY <1>2 DEF CleanInv, PipeInv
<1> HIDE DEF text, event
<1>4. CASE text = <<>>
  BY <1>2, <1>3, <1>4 DEF CleanInv, LinkInv
<1>5. CASE text # <<>>
  <2>1. toApp \in Seq(Events) /\ client \notin {"off", "connect", "done"}
    BY <1>2, <1>5 DEF CleanInv, LinkInv
  <2>2. toApp' = Append(toApp, event)
    BY <1>2, <1>5
  <2>3. toApp' \in Seq(Events)
    BY <1>1, <2>1, <2>2
  <2>4. \A i \in DOMAIN toApp' : toApp'[i] = event \/ (i \in DOMAIN toApp /\ toApp'[i] = toApp[i])
    BY <2>1, <2>2, SMTT(30)
  <2> QED BY <1>1, <1>3, <2>1, <2>3, <2>4 DEF CleanInv, LinkInv
<1> QED BY <1>4, <1>5

LEMMA PumpClean == CleanInv /\ Pump => CleanInv'
<1> SUFFICES ASSUME CleanInv, Pump PROVE CleanInv'
  OBVIOUS
<1> USE DEF session, thread, link, runner, program
<1>1. CASE PumpOutput
  <2>1. captured + 1 \in captured..Len(written) /\ Capture(captured + 1)
    BY <1>1 DEF PumpOutput, CleanInv, PipeInv
  <2> QED BY <1>1, <2>1, CaptureClean
          DEF PumpOutput, CleanInv, RunnerInv, PipeInv, LinkInv, AnswerInv, PeerClosed
<1>2. CASE PumpFails
  BY <1>2 DEF PumpFails, Kill, CleanInv, RunnerInv, PipeInv, LinkInv, AnswerInv, PeerClosed
<1>3. CASE ForwardInput \/ CloseStdin
  BY <1>3 DEF ForwardInput, CloseStdin, CleanInv, RunnerInv, PipeInv, LinkInv, AnswerInv, PeerClosed
<1>4. CASE Canceled
  BY <1>4 DEF Canceled, Kill, CleanInv, RunnerInv, PipeInv, LinkInv, AnswerInv, PeerClosed
<1> QED BY <1>1, <1>2, <1>3, <1>4 DEF Pump

LEMMA FinishClean == CleanInv /\ Finish => CleanInv'
<1> SUFFICES ASSUME CleanInv, Finish PROVE CleanInv'
  OBVIOUS
<1> USE DEF session, thread, link, runner, program
<1>1. CASE LoopEnds
  BY <1>1 DEF LoopEnds, Kill, CleanInv, RunnerInv, PipeInv, LinkInv, AnswerInv, PeerClosed
<1>2. CASE Drain
  <2>1. CASE CanSend(Kept(captured + 1, Len(written)))
    <3>1. Len(written) \in captured..Len(written) /\ Capture(Len(written))
      BY <1>2, <2>1 DEF Drain, CleanInv, PipeInv
    <3> QED BY <1>2, <3>1, CaptureClean
            DEF Drain, CleanInv, RunnerInv, PipeInv, LinkInv, AnswerInv, PeerClosed
  <2>2. CASE ~CanSend(Kept(captured + 1, Len(written)))
    BY <1>2, <2>2 DEF Drain, CleanInv, RunnerInv, PipeInv, LinkInv, AnswerInv, PeerClosed
  <2> QED BY <2>1, <2>2
<1>3. CASE Reply
  <2> DEFINE response ==
        Event(IF verdict \in {"refused", "error"} THEN "error" ELSE "result", <<>>)
  <2>1. response \in Events
    BY DEF Event, Events
  <2>2. toApp' = toApp \/ (linked /\ toApp' = Append(toApp, response))
    BY <1>3 DEF Reply
  <2> HIDE DEF response
  <2> QED BY <1>3, <2>1, <2>2 DEF Reply, CleanInv, RunnerInv, PipeInv, LinkInv, AnswerInv, PeerClosed
<1>4. CASE Listen
  BY <1>4 DEF Listen, CleanInv, RunnerInv, PipeInv, LinkInv, AnswerInv, PeerClosed
<1> QED BY <1>1, <1>2, <1>3, <1>4 DEF Finish

LEMMA ProgramClean == CleanInv /\ Program => CleanInv'
<1> SUFFICES ASSUME CleanInv, Program PROVE CleanInv'
  OBVIOUS
<1> USE DEF session, thread, link, runner, CleanInv, RunnerInv, PipeInv, LinkInv, AnswerInv, PeerClosed
<1>1. CASE Write
  BY <1>1 DEF Write
<1>2. CASE Read
  BY <1>2 DEF Read
<1>3. CASE Exit
  BY <1>3 DEF Exit
<1> QED BY <1>1, <1>2, <1>3 DEF Program

\* RunnerIsClean holds in every behaviour: no program is alive when the
\* runner can be reached or when its run is recorded.
THEOREM RunnerStaysClean == Spec => []RunnerIsClean
<1>1. CleanInv /\ [Next]_vars => CleanInv'
  <2>1. CleanInv /\ UNCHANGED vars => CleanInv'
    BY DEF vars, session, thread, link, runner, program, CleanInv, RunnerInv, PipeInv, LinkInv,
           AnswerInv, PeerClosed
  <2> QED BY <2>1, BrowserClean, CoordinatorClean, ClientClean, SpawnClean, PumpClean, FinishClean,
             ProgramClean DEF Next
<1> QED BY <1>1, InitClean, CleanInvImplies, PTL DEF Spec
================================================================================
