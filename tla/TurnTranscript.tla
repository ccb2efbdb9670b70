---------------------------- MODULE TurnTranscript ----------------------------
(***************************************************************************)
(* What a reader of the room sees of one turn, whatever crashes, retries   *)
(* and resumes it takes: a transcript that only grows, in which each agent *)
(* speaks its beats once and in order, is silent after it has finished,    *)
(* and which is the turn's result when the turn completes.                 *)
(***************************************************************************)
EXTENDS Naturals, Sequences

CONSTANTS
  Agents,
  MaxBeats,
  NoResult

VARIABLES
  published,   \* the agents' messages in order, each as <<agent, beat>>
  finished,    \* the agents that are done with this turn
  result       \* the transcript the turn completed with

vars == <<published, finished, result>>

\* The number of beats an agent has spoken.
Spoken(a) ==
  LET beats == {b \in 1..MaxBeats : \E i \in DOMAIN published : published[i] = <<a, b>>}
  IN  CHOOSE n \in 0..MaxBeats : beats = 1..n

Init ==
  /\ published = <<>>
  /\ finished = {}
  /\ result = NoResult

Publish(a) ==
  /\ result = NoResult
  /\ a \notin finished
  /\ Spoken(a) < MaxBeats
  /\ published' = Append(published, <<a, Spoken(a) + 1>>)
  /\ UNCHANGED <<finished, result>>

FinishAgent(a) ==
  /\ result = NoResult
  /\ a \notin finished
  /\ finished' = finished \cup {a}
  /\ UNCHANGED <<published, result>>

Complete ==
  /\ result = NoResult
  /\ result' = published
  /\ UNCHANGED <<published, finished>>

Next ==
  \/ \E a \in Agents : Publish(a) \/ FinishAgent(a)
  \/ Complete

Spec == Init /\ [][Next]_vars
===============================================================================
