------------------------------ MODULE MCToolLoop ------------------------------
(* Small instances of ToolLoop for TLC. *)
EXTENDS ToolLoop

CONSTANTS f, x, y, t1

MCPaths == {f}
MCContents == {x, y}
MCThreads == {t1}
MCWrites == [tool : {"write_project_file"}, path : {f}, content : {x}]

\* A write, a persona update, motifs in two wordings and a tool that reads.
MCCalls == MCWrites
             \cup [tool : {"propose_persona_update", "read"}, content : {x}]
             \cup [tool : {"record_motif_observations"}, content : {x, y}]
===============================================================================
