----------------------------- MODULE ToolEffects ------------------------------
(***************************************************************************)
(* What the identifiers of tool operations promise (README.md, SECURITY.md *)
(* "Completed results are replayed rather than executed twice"): the work  *)
(* of one operation takes effect while it is begun and not yet settled; a  *)
(* file may be written once more when an interruption has left the outcome *)
(* uncertain, an interrupted persona update has no effect later.           *)
(***************************************************************************)
EXTENDS Naturals

CONSTANTS Operations, Repeatable, Reviewed

VARIABLES phase, effects

Init ==
  /\ phase = [o \in Operations |-> "new"]
  /\ effects = [o \in Operations |-> 0]

Begin(o) ==
  /\ phase[o] = "new"
  /\ phase' = [phase EXCEPT ![o] = "begun"]
  /\ UNCHANGED effects

TakeEffect(o) ==
  /\ phase[o] = "begun" \/ (phase[o] = "uncertain" /\ o \notin Reviewed)
  /\ effects[o] = 0 \/ (phase[o] = "uncertain" /\ o \in Repeatable)
  /\ effects' = [effects EXCEPT ![o] = @ + 1]
  /\ UNCHANGED phase

Settle(o) ==
  /\ phase[o] \in {"begun", "uncertain"}
  /\ phase' = [phase EXCEPT ![o] = "settled"]
  /\ UNCHANGED effects

\* Whatever was begun is interrupted.
Interrupt ==
  /\ phase' = [o \in Operations |-> IF phase[o] = "begun" THEN "uncertain" ELSE phase[o]]
  /\ UNCHANGED effects

Next == Interrupt \/ \E o \in Operations : Begin(o) \/ TakeEffect(o) \/ Settle(o)

Spec == Init /\ [][Next]_<<phase, effects>>
===============================================================================
