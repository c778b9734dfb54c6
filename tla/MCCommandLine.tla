--------------------------- MODULE MCCommandLine ---------------------------
(***************************************************************************)
(* Constant values for model checking CommandLine: what `setup' draws.     *)
(***************************************************************************)
EXTENDS CommandLine

CONSTANTS w1, w2, b1, b2

SetupHosts == [r \in ReplicaId |-> IF r = 1 THEN w1 ELSE w2]
SetupBoots == [w \in WorkerId |-> IF w = w1 THEN b1 ELSE b2]

(* No replica, both, and an argument below zero. *)
SetupSizes == {-1, 0, 2}

(* The sets the commands create. *)
CreatedSets == {MkSet(n) : n \in Sizes}
=============================================================================
