---------------------------- MODULE ServingLease ----------------------------
(***************************************************************************)
(* What the controller promises about serving authority, without saying    *)
(* how: a replica id goes through incarnations; an incarnation may be      *)
(* granted the lease to serve, may lose it, and may end.  An ended         *)
(* incarnation - one that started draining, failed or was retired - never  *)
(* holds the lease again; only a new incarnation can. Several leases may   *)
(* be ended by one step (the loss of a worker), and a grant may come with  *)
(* the end of another incarnation (a failover).                            *)
(***************************************************************************)
EXTENDS Naturals

CONSTANT ReplicaId

VARIABLES
    phase,         \* the phase of the current incarnation of each replica id
    incarnation    \* how many incarnations each replica id has had

vars == <<phase, incarnation>>

Phase == {"ABSENT", "IDLE", "LEASED", "ENDED"}

Init ==
    /\ phase = [r \in ReplicaId |-> "ABSENT"]
    /\ incarnation = [r \in ReplicaId |-> 0]

Incarnate(r) ==
    /\ phase' = [phase EXCEPT ![r] = "IDLE"]
    /\ incarnation' = [incarnation EXCEPT ![r] = @ + 1]

Grant(r, ended) ==
    /\ phase[r] \in {"IDLE", "LEASED"}
    /\ r \notin ended
    /\ \A f \in ended : phase[f] # "ABSENT"
    /\ phase' = [q \in ReplicaId |-> IF q = r THEN "LEASED"
                                     ELSE IF q \in ended THEN "ENDED" ELSE phase[q]]
    /\ UNCHANGED incarnation

Revoke(r) ==
    /\ phase[r] = "LEASED"
    /\ phase' = [phase EXCEPT ![r] = "IDLE"]
    /\ UNCHANGED incarnation

End(ended) ==
    /\ \A f \in ended : phase[f] # "ABSENT"
    /\ phase' = [q \in ReplicaId |-> IF q \in ended THEN "ENDED" ELSE phase[q]]
    /\ UNCHANGED incarnation

Next ==
    \/ \E r \in ReplicaId : Incarnate(r) \/ Revoke(r)
    \/ \E r \in ReplicaId : \E ended \in SUBSET ReplicaId : Grant(r, ended)
    \/ \E ended \in SUBSET ReplicaId : End(ended)

Spec == Init /\ [][Next]_vars
=============================================================================
