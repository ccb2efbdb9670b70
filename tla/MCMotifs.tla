------------------------------ MODULE MCMotifs ------------------------------
(* Small instances of Motifs for TLC. *)
EXTENDS Motifs, TLC

CONSTANTS t1, t2

\* The second agent takes part in one of the turns only.
MCAgentsOf == t1 :> {1} @@ t2 :> {1, 2}

\* Nothing tells the labels apart.
MCSymmetry == Permutations(Labels)
=============================================================================
