----------------------------- MODULE MCPersonas -----------------------------
(* Small instances of Personas for TLC. *)
EXTENDS Personas, TLC

\* A path of each kind, with one leaf each.
MCCovers == [p \in Paths |-> {p}]

MCKind == "position" :> "automatic" @@ "relationship" :> "automatic"
       @@ "disposition" :> "structural" @@ "policy" :> "locked"

\* Relationship memory changes only with two events, unless the user has
\* changed the policy to 1.
MCRequired ==
  [p \in Paths |-> [v \in Values |-> IF p = "relationship" /\ v = 0 THEN 2 ELSE 1]]

\* Nothing tells the memory events apart.
MCSymmetry == Permutations(Events)
=============================================================================
