---------------------------- MODULE MCCoordinator ----------------------------
(***************************************************************************)
(* Constant values for model checking Coordinator.                         *)
(***************************************************************************)
EXTENDS Coordinator, TLC

CONSTANTS w1, c1, c2, b1, b2

(* Two processes of one worker: it restarts, or is started twice. *)
SameWorker == [c \in Conn |-> w1]

FreshBoots == [c \in Conn |-> IF c = c1 THEN b1 ELSE b2]

(* desired, min, max *)
SetCounts == {<<1, 1, 2>>}
BuiltConfigs == {BuildSet(n) : n \in SetCounts}

(* Room for one replica, and for two. *)
SmallCounts == {<<1, 1, 1>>, <<1, 1, 2>>}
SmallConfigs == {BuildSet(n) : n \in SmallCounts}

(* Clients are interchangeable: a set, a replica or a route never names one. *)
ClientSymmetry == Permutations(Client)
=============================================================================
