------------------------------ MODULE Lifecycle ------------------------------
(***************************************************************************)
(* The enumerations of core/enums.hpp that carry authority, and the two    *)
(* guarded lifecycle tables of authority/transition.hpp.                   *)
(***************************************************************************)

SetLifecycle ==
    {"CREATED", "PROVISIONING", "AVAILABLE", "DEGRADED", "DRAINING", "RETIRED", "FAILED"}

ReplicaLifecycle ==
    {"DECLARED", "ALLOCATING", "STARTING", "WARMING", "READY",
     "SERVING", "DRAINING", "QUIESCED", "FAILED", "RETIRED"}

HealthState ==
    {"UNKNOWN", "STARTING", "HEALTHY", "DEGRADED", "UNHEALTHY", "FAILED", "QUARANTINED"}

WarmthState == {"COLD", "WARMING", "WARM", "STALE_WARMTH", "INVALIDATED"}

ReadinessState == {"UNKNOWN", "NOT_READY", "READY"}

PlacementState == {"PENDING", "ASSIGNED", "FAILED", "INVALIDATED"}

PromotionState ==
    {"NOT_PROMOTED", "STANDBY", "CANARY", "REPLACEMENT", "RECOVERED", "PRIMARY"}

ReplicaRole == {"NONE", "PRIMARY", "SECONDARY", "STANDBY", "CANARY"}

-----------------------------------------------------------------------------
(* can_transition(ReplicaSetLifecycle, ReplicaSetLifecycle) *)
SetEdges ==
    [ CREATED      |-> {"PROVISIONING"},
      PROVISIONING |-> {"AVAILABLE", "DEGRADED", "FAILED", "RETIRED"},
      AVAILABLE    |-> {"DEGRADED", "DRAINING", "RETIRED"},
      DEGRADED     |-> {"AVAILABLE", "DRAINING", "RETIRED", "FAILED"},
      DRAINING     |-> {"RETIRED", "AVAILABLE"},
      RETIRED      |-> {},
      FAILED       |-> {"RETIRED"} ]

CanTransitionSet(from, to) == to \in SetEdges[from]

(* can_transition(ReplicaLifecycle, ReplicaLifecycle) *)
ReplicaEdges ==
    [ DECLARED   |-> {"ALLOCATING", "STARTING", "FAILED", "RETIRED"},
      ALLOCATING |-> {"STARTING", "FAILED", "RETIRED"},
      STARTING   |-> {"WARMING", "READY", "FAILED", "RETIRED"},
      WARMING    |-> {"READY", "STARTING", "FAILED", "RETIRED"},
      READY      |-> {"SERVING", "WARMING", "DRAINING", "FAILED", "RETIRED"},
      SERVING    |-> {"READY", "DRAINING", "FAILED", "RETIRED"},
      DRAINING   |-> {"QUIESCED", "READY", "FAILED", "RETIRED"},
      QUIESCED   |-> {"RETIRED", "READY"},
      FAILED     |-> {"RETIRED"},
      RETIRED    |-> {} ]

CanTransition(from, to) == to \in ReplicaEdges[from]

(* The lifecycles in which report_health and report_readiness refuse        *)
(* evidence "that could restore" the replica.                               *)
Terminated == {"FAILED", "RETIRED", "QUIESCED"}

(* ready_to_promote, also the lifecycle condition of a failover candidate   *)
(* and of drain_replica.                                                    *)
ReadyOrServing == {"READY", "SERVING"}
=============================================================================
