----------------------------- MODULE MCAgentRound -----------------------------
(* Small instances of AgentRound for TLC. *)
EXTENDS AgentRound

\* All lenses fit the prompt equally well.
MCScore == [a \in Agents |-> 0]

\* Ordinary answers without citations, which may ask for another beat.
MCPlainAnswers == [search : {FALSE}, cited : {FALSE}, continue : BOOLEAN]

\* Ordinary answers that end the agent's part, and searches.
MCSearchAnswers == [search : {FALSE}, cited : {FALSE}, continue : {FALSE}]
                     \cup [search : {TRUE}, cited : BOOLEAN, continue : {FALSE}]
===============================================================================
