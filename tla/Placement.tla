------------------------------ MODULE Placement ------------------------------
(***************************************************************************)
(* PlacementEngine::place of src/placement.cpp, a function of the set, the *)
(* hosts and the replicas that are placed already, called once for each    *)
(* replica of a set; each replica is then provisioned on the chosen host   *)
(* the way the coordinator does it.                                        *)
(*                                                                         *)
(* Scores are doubles in the code.  Here they are whole numbers of parts   *)
(* of a half, rounded down; with 50 parts they are hundredths, which is    *)
(* exact for the weights and for the inputs the runs use.  `key' is the    *)
(* place of "worker|device" in the order of strings.  The names and texts  *)
(* of factors and rejections are shortened; "" is a name that is not set.  *)
(* The backend and the minimal compute version of a set are the ones of    *)
(* its compatibility, as whoever builds a set makes them.                  *)
(***************************************************************************)
EXTENDS Compatibility, Integers, Sequences, FiniteSetsExt

CONSTANTS
    Requirements,   \* what replica sets ask of placement
    HostVectors,    \* the vectors of hosts place is called with
    Existing,       \* sets of replicas placed before
    MaxPlaced,      \* bound: replicas placed in a row
    Half,           \* the parts of a half of a score of 1
    MaxInt          \* the largest int

ASSUME PrecisionAssumption == Half \in Nat \ {0}

(* Compute versions and amounts are numbers; accelerators are a uint32_t. *)
ASSUME RequirementAssumption ==
    /\ MaxInt \in Nat
    /\ \A s \in Requirements :
          /\ s.compat.min_compute \in Nat \X Nat /\ s.memory \in Nat
          /\ s.accelerators \in 0..(2 * MaxInt + 1)

(* PlacementHost, as far as it is counted or compared *)
HostOK(h) ==
    /\ {h.key, h.free, h.total, h.accelerators, h.distance} \subseteq Nat
    /\ h.compute \in Nat \X Nat
    /\ h.warm \in BOOLEAN
    /\ h.free <= h.total

(* A vector names a device of a worker once.  With the same name twice      *)
(* std::sort may leave the two in either order.                             *)
ASSUME HostAssumption ==
    \A hs \in HostVectors :
        /\ DOMAIN hs = 1..Len(hs) /\ Len(hs) \in Nat
        /\ \A i \in DOMAIN hs : HostOK(hs[i])
        /\ \A i, j \in DOMAIN hs : hs[i].key = hs[j].key => i = j

VARIABLES
    set,        \* the replica set
    hosts,      \* the hosts offered
    existing,   \* where replicas of the set are
    decision,   \* the decision not yet acted on
    replica     \* the compatibility of the replica provisioned last

pvars == <<set, hosts, existing, decision, replica>>

HasBackend(h, kind) == kind = "NONE" \/ kind \in h.backends

(* static_cast<int>: the upper half of uint32_t becomes negative *)
ToInt(n) == IF n <= MaxInt THEN n ELSE n - 2 * (MaxInt + 1)

(* The hard constraints, in the order they are tested; "" if all are met. *)
HardReject(s, h) ==
    IF ~HasBackend(h, s.compat.backend) THEN "backend"
    ELSE IF LowerCompute(h.compute, s.compat.min_compute) THEN "compute"
    ELSE IF h.free < s.memory THEN "memory"
    ELSE IF h.accelerators < ToInt(s.accelerators) THEN "accelerators"
    ELSE ""

(* Whether host h shares an anti-affinity domain with a placed replica.  A  *)
(* domain that is no kind of location is a label both must carry.           *)
Occupied(h, domain, placed) ==
    \E e \in placed :
        \/ domain \in {"host", "numa", "device"} /\ e[domain] = h[domain] /\ e[domain] # ""
        \/ domain = "rack" /\ e.labels \cap h.labels # {}
        \/ domain \in e.labels \cap h.labels

(* Mutant: diversity weighs less than free memory. *)
Weight_LightDiversity ==
    [ free_memory |-> 6 * Half, capability |-> 4 * Half, warm |-> 5 * Half, locality |-> 3 * Half,
      diversity |-> 4 * Half, preference |-> 2 * Half ]

Weight ==
    [ free_memory |-> 6 * Half, capability |-> 4 * Half, warm |-> 5 * Half, locality |-> 3 * Half,
      diversity |-> 8 * Half, preference |-> 2 * Half ]

Preferences(s, h) ==
    Cardinality({p \in {"host", "device"} : s.preferred[p] # "" /\ h[p] = s.preferred[p]})
    + Cardinality(h.labels \cap ({s.preferred.label} \ {""}))

(* The contribution of each factor.  The preferred NUMA domain is not read. *)
Factors(s, h, placed) ==
    [ free_memory |-> IF h.total = 0 THEN 0 ELSE (Weight.free_memory * h.free) \div h.total,
      capability  |-> (Weight.capability * Min({200, 10 * h.compute[1] + h.compute[2]})) \div 200,
      warm        |-> IF h.warm THEN Weight.warm ELSE 0,
      locality    |-> Weight.locality \div (1 + h.distance),
      diversity   |-> IF \E d \in s.anti_affinity : Occupied(h, d, placed) THEN 0 ELSE Weight.diversity,
      preference  |-> (Weight.preference * Min({2, Preferences(s, h)})) \div 2 ]

Total(f) ==
    f.free_memory + f.capability + f.warm + f.locality + f.diversity + f.preference

Candidate(s, h, placed) ==
    LET rejection == HardReject(s, h)
    IN [ host |-> h, eligible |-> rejection = "", rejection |-> rejection,
         total |-> IF rejection = "" THEN Total(Factors(s, h, placed)) ELSE 0 ]

(* Mutant: the hosts are taken in the order they come in. *)
Sorted_AsGiven(hs) == hs

(* std::sort by key *)
Sorted(hs) ==
    LET order == CHOOSE p \in Bijection(DOMAIN hs, DOMAIN hs) :
                    \A i, j \in DOMAIN hs : i < j => hs[p[i]].key < hs[p[j]].key
    IN [i \in DOMAIN hs |-> hs[order[i]]]

(* Mutant: of two equal candidates the later one is kept. *)
Better_LastTie(best, c) ==
    IF c.eligible /\ (~best.eligible \/ c.total >= best.total) THEN c ELSE best

(* One round of the loop that selects the best candidate; `best' that is    *)
(* not eligible is the null pointer it starts with.                         *)
Better(best, c) ==
    IF /\ c.eligible
       /\ \/ ~best.eligible
          \/ c.total > best.total
          \/ c.total = best.total /\ c.host.key < best.host.key
    THEN c ELSE best

NoHost ==
    [ key |-> 0, host |-> "", numa |-> "", device |-> "", labels |-> {}, backends |-> {},
      compute |-> <<0, 0>>, free |-> 0, total |-> 0, accelerators |-> 0, distance |-> 0,
      warm |-> FALSE ]

NoCandidate == [host |-> NoHost, eligible |-> FALSE, rejection |-> "", total |-> 0]

(* What the loop holds after i candidates, for each i. *)
BestOf(candidates) ==
    LET best[i \in 0..Len(candidates)] ==
            IF i = 0 THEN NoCandidate ELSE Better(best[i - 1], candidates[i])
    IN best

Place(s, hs, placed) ==
    LET sorted == Sorted(hs)
        candidates == [i \in DOMAIN sorted |-> Candidate(s, sorted[i], placed)]
        best == BestOf(candidates)[Len(candidates)]
    IN [placed |-> best.eligible, chosen |-> best.host, candidates |-> candidates]

-----------------------------------------------------------------------------
(* Callers: place a replica, then provision it *)

NoDecision == [placed |-> FALSE, chosen |-> NoHost, candidates |-> <<>>]

(* The location of a placed replica, as callers hand it to the next call. *)
PlacedReplica(h) == [host |-> h.host, numa |-> h.numa, device |-> h.device, labels |-> h.labels]

(* Mutant: the adapters are not copied. *)
DerivedCompatibility_NoAdapters(s, h) ==
    [f \in DOMAIN IssueOf \cup {"adapters", "compute"} |->
        CASE f = "adapters" -> {}
          [] f = "compute" -> <<h.compute[1], 0>>
          [] OTHER -> s.compat[f]]

(* The compatibility PROVISION derives from the set and the major compute   *)
(* version of the device.                                                   *)
DerivedCompatibility(s, h) ==
    [f \in DOMAIN IssueOf \cup {"adapters", "compute"} |->
        CASE f = "adapters" -> s.compat.required_adapters
          [] f = "compute" -> <<h.compute[1], 0>>
          [] OTHER -> s.compat[f]]

NoCompatibility == [adapters |-> {}]

Init ==
    /\ set \in Requirements
    /\ hosts \in HostVectors
    /\ existing \in Existing
    /\ decision = NoDecision
    /\ replica = NoCompatibility

PlaceReplica ==
    /\ ~decision.placed
    /\ Cardinality(existing) < MaxPlaced
    /\ decision' = Place(set, hosts, existing)
    /\ UNCHANGED <<set, hosts, existing, replica>>

Provision ==
    /\ decision.placed
    /\ replica' = DerivedCompatibility(set, decision.chosen)
    /\ existing' = existing \cup {PlacedReplica(decision.chosen)}
    /\ decision' = NoDecision
    /\ UNCHANGED <<set, hosts>>

Next == PlaceReplica \/ Provision

Spec == Init /\ [][Next]_pvars

-----------------------------------------------------------------------------
(* Properties *)

Meets(h) ==
    /\ set.compat.backend \in h.backends \cup {"NONE"}
    /\ ~LowerCompute(h.compute, set.compat.min_compute)
    /\ h.free >= set.memory
    /\ h.accelerators >= set.accelerators

Score(h) == Total(Factors(set, h, existing))

(* What sorting, filtering, scoring and the selection loop compute: a host  *)
(* that meets every hard constraint and that no other such host outscores,  *)
(* the first by worker and device if several are equal; and no host only if *)
(* there is none.  It is said of requirements that are an int as well: more *)
(* accelerators than that are a negative number to the filter, and every    *)
(* host has them.                                                           *)
ChosenIsBest ==
    decision # NoDecision /\ set.accelerators <= MaxInt =>
        LET able == {h \in Range(hosts) : Meets(h)}
            best == {h \in able : \A g \in able : Score(g) <= Score(h)}
        IN IF able = {} THEN ~decision.placed
           ELSE /\ decision.chosen \in best
                /\ \A g \in best : decision.chosen.key <= g.key

(* The same hosts in any other order give the same decision and the same    *)
(* list of candidates (placement.hpp: "Ties are broken deterministically"). *)
OrderIrrelevant ==
    decision # NoDecision =>
        \A p \in Bijection(DOMAIN hosts, DOMAIN hosts) :
            Place(set, [i \in DOMAIN hosts |-> hosts[p[i]]], existing) = decision

SharesDomain(h) == \E d \in set.anti_affinity : Occupied(h, d, existing)

(* Anti-affinity outweighs every other factor: a host that shares a domain  *)
(* with a placed replica is chosen over one that does not only if it is     *)
(* ahead in two other factors, so neither a preference nor free memory nor  *)
(* warmth alone defeats the spread, however many replicas are placed.       *)
DiversityDominates ==
    decision.placed /\ SharesDomain(decision.chosen) =>
        \A h \in Range(hosts) : Meets(h) /\ ~SharesDomain(h) =>
            LET mine == Factors(set, decision.chosen, existing)
                its == Factors(set, h, existing)
            IN Cardinality({f \in DOMAIN Weight : mine[f] > its[f]}) >= 2

(* A replica provisioned where the engine put it can be promoted: where the *)
(* set asks for a major compute version only, what the engine lets through  *)
(* is what check_compatibility accepts of the data PROVISION derives.       *)
PlacedIsCompatible ==
    replica # NoCompatibility /\ set.compat.min_compute[2] = 0
        => CheckCompatibility(set.compat, replica)

(* apps/distributed/rf_coordinator.cpp:121: "a provisioned replica is       *)
(* always compatible by construction (the device provides compute >= the    *)
(* set minimum)".  The minor version is dropped on the way.                 *)
ProvisionedIsCompatible ==
    replica # NoCompatibility => CheckCompatibility(set.compat, replica)
=============================================================================
