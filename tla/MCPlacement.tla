----------------------------- MODULE MCPlacement -----------------------------
(***************************************************************************)
(* Inputs for model checking Placement.                                    *)
(***************************************************************************)
EXTENDS Placement, TLC

Compat ==
    [f \in DOMAIN IssueOf |-> IF f = "backend" THEN "TRITON" ELSE "v"]
    @@ [required_adapters |-> {"a"}, min_compute |-> <<8, 0>>]

Requirement ==
    [ compat |-> Compat, memory |-> 1, accelerators |-> 1, anti_affinity |-> {"host", "rack"},
      preferred |-> [host |-> "", device |-> "", label |-> ""] ]

(* No preference, every preference at once, and more accelerators than an   *)
(* int can say.                                                             *)
Sets ==
    {Requirement, [Requirement EXCEPT !.accelerators = MaxInt + 2],
     [Requirement EXCEPT !.preferred = [host |-> "h1", device |-> "cuda:1", label |-> "rack-A"],
                            !.anti_affinity = {"rack-A", "device"}]}

(* A set that asks for a minor compute version. *)
MinorSets == {[Requirement EXCEPT !.compat.min_compute = <<8, 6>>]}

Machine ==
    [NoHost EXCEPT !.host = "h1", !.labels = {"rack-A"}, !.device = "cuda:1", !.backends = {"TRITON"},
                   !.compute = <<12, 0>>, !.free = 2, !.total = 2, !.accelerators = 1]

(* One host of each kind the constraints and the factors tell apart. *)
Machines ==
    { Machine,
      [Machine EXCEPT !.backends = {}],
      [Machine EXCEPT !.compute = <<7, 9>>],
      [Machine EXCEPT !.free = 0, !.accelerators = 0],
      [Machine EXCEPT !.accelerators = 0],
      [Machine EXCEPT !.free = 1, !.compute = <<8, 9>>],
      [Machine EXCEPT !.free = 1, !.warm = TRUE],
      [Machine EXCEPT !.host = "h2", !.device = "cuda:0", !.distance = 1],
      [Machine EXCEPT !.host = "h2", !.labels = {"rack-B"}, !.device = ""],
      [Machine EXCEPT !.host = "h3", !.labels = {"rack-B"}, !.free = 1, !.device = "cuda:2"],
      [Machine EXCEPT !.host = "h3", !.labels = {"rack-B"}, !.warm = TRUE, !.distance = 2] }

(* Three hosts in every order of their keys. *)
Vectors ==
    {[i \in 1..3 |-> [m[i] EXCEPT !.key = k[i]]] :
        m \in [1..3 -> Machines], k \in Permutations(1..3)}

MinorVectors == {<<[Machine EXCEPT !.key = 1, !.compute = <<8, 9>>]>>}

(* Nothing is placed, or a replica on the first host. *)
Before == {{}, {PlacedReplica(Machine)}}
=============================================================================
