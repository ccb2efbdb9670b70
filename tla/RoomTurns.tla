------------------------------ MODULE RoomTurns ------------------------------
(***************************************************************************)
(* What the turn service promises to a reader of the room, without lock,   *)
(* connections, crashes or restarts: at most one turn is in progress, a    *)
(* turn that stops early stays open until it is resumed or accepted, and a *)
(* finished or accepted turn keeps its outcome until it is forgotten.      *)
(***************************************************************************)
CONSTANTS
  Turns,
  Outcomes,   \* results a finished turn may have
  NoOutcome   \* none yet

VARIABLES
  stage,    \* where each turn stands
  outcome   \* the result a finished turn replays

vars == <<stage, outcome>>

Stages == {"absent", "active", "open", "done", "accepted"}

TypeOK ==
  /\ stage \in [Turns -> Stages]
  /\ outcome \in [Turns -> Outcomes \cup {NoOutcome}]

Quiet == \A t \in Turns : stage[t] # "active"

Init ==
  /\ stage = [t \in Turns |-> "absent"]
  /\ outcome = [t \in Turns |-> NoOutcome]

\* A new turn begins or a stopped one resumes, in a quiet room.
Activate(t) ==
  /\ Quiet
  /\ stage[t] \in {"absent", "open"}
  /\ stage' = [stage EXCEPT ![t] = "active"]
  /\ UNCHANGED outcome

Stop(t) ==
  /\ stage[t] = "active"
  /\ stage' = [stage EXCEPT ![t] = "open"]
  /\ UNCHANGED outcome

Complete(t) ==
  /\ stage[t] = "active"
  /\ stage' = [stage EXCEPT ![t] = "done"]
  /\ \E res \in Outcomes : outcome' = [outcome EXCEPT ![t] = res]

Accept(t) ==
  /\ stage[t] = "open"
  /\ stage' = [stage EXCEPT ![t] = "accepted"]
  /\ UNCHANGED outcome

\* A project is deleted with all of its turns, in a quiet room.
Forget(gone) ==
  /\ Quiet
  /\ stage' = [t \in Turns |-> IF t \in gone THEN "absent" ELSE stage[t]]
  /\ outcome' = [t \in Turns |-> IF t \in gone THEN NoOutcome ELSE outcome[t]]

Next ==
  \/ \E t \in Turns : Activate(t) \/ Stop(t) \/ Complete(t) \/ Accept(t)
  \/ \E gone \in SUBSET Turns : Forget(gone)

Spec == Init /\ [][Next]_vars
==============================================================================
