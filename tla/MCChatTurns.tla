----------------------------- MODULE MCChatTurns -----------------------------
(* Small instances of ChatTurns for TLC. *)
EXTENDS ChatTurns, TLC

CONSTANTS r1, r2, general, other

\* Two different requests, to two projects.
MCProjectOf == r1 :> general @@ r2 :> other
==============================================================================
