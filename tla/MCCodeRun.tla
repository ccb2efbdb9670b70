------------------------------- MODULE MCCodeRun -------------------------------
(* Small instances of CodeRun for TLC. *)
EXTENDS CodeRun
================================================================================
