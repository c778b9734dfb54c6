---------------------------- MODULE FailoverProofs ----------------------------
(***************************************************************************)
(* The choice a failover makes is deterministic: the comparator of         *)
(* trigger_failover has exactly one first element on every non-empty set   *)
(* of candidates, for any number of replicas, workers and standings.       *)
(***************************************************************************)
EXTENDS ReplicaSetControllerProofs, NaturalSets, FiniteSetTheorems

(* The three criteria of the comparator as numbers, lower is better; a      *)
(* criterion that policy switches off is the same for all.                  *)
Standing(r, c) == IF c.prefer_standby_first THEN RoleRank(replicas[r].promotion) ELSE 0
Locality(r, f, c) == IF c.require_diversity /\ ~Elsewhere(r, f) THEN 1 ELSE 0

(* Both criteria are numbers, and replicas are compared by them in turn. *)
LEMMA Criteria ==
    ASSUME NEW r, NEW f, NEW c
    PROVE  Standing(r, c) \in Nat /\ Locality(r, f, c) \in Nat
<1>1. RoleRank(replicas[r].promotion) \in Nat
  BY DEF RoleRank
<1>2. QED
  BY <1>1 DEF Standing, Locality

(* SortsBefore is the lexicographic order of standing, locality and id. *)
LEMMA ComparatorIsLexicographic ==
    ASSUME NEW a \in ReplicaId, NEW b \in ReplicaId, NEW f, NEW c
    PROVE  SortsBefore(a, b, f, c) <=>
              \/ Standing(a, c) < Standing(b, c)
              \/ /\ Standing(a, c) = Standing(b, c)
                 /\ Locality(a, f, c) < Locality(b, f, c)
              \/ /\ Standing(a, c) = Standing(b, c)
                 /\ Locality(a, f, c) = Locality(b, f, c)
                 /\ a < b
<1>1. a \in Nat /\ b \in Nat
  BY IdAssumption
<1>2. RoleRank(replicas[a].promotion) \in Nat /\ RoleRank(replicas[b].promotion) \in Nat
  BY DEF RoleRank
<1>3. CASE Elsewhere(a, f) /\ Elsewhere(b, f)
  BY <1>1, <1>2, <1>3 DEF SortsBefore, Standing, Locality, Elsewhere
<1>4. CASE Elsewhere(a, f) /\ ~Elsewhere(b, f)
  BY <1>1, <1>2, <1>4 DEF SortsBefore, Standing, Locality, Elsewhere
<1>5. CASE ~Elsewhere(a, f) /\ Elsewhere(b, f)
  BY <1>1, <1>2, <1>5 DEF SortsBefore, Standing, Locality, Elsewhere
<1>6. CASE ~Elsewhere(a, f) /\ ~Elsewhere(b, f)
  BY <1>1, <1>2, <1>6 DEF SortsBefore, Standing, Locality, Elsewhere
<1>7. QED
  BY <1>3, <1>4, <1>5, <1>6

(* A non-empty set of replicas has a member that sorts before all others:   *)
(* among those of the best standing, of these the best by locality, the one *)
(* with the least id.                                                       *)
LEMMA FirstExists ==
    ASSUME NEW S \in SUBSET ReplicaId, S # {}, NEW f, NEW c
    PROVE  \E r \in S : \A q \in S \ {r} : SortsBefore(r, q, f, c)
<1> DEFINE Standings == {Standing(r, c) : r \in S}
<1>1. PICK p \in S : \A q \in S : Standing(p, c) <= Standing(q, c)
  <2>1. Standings \in SUBSET Nat /\ Standings # {}
    BY Criteria
  <2>2. PICK n \in Standings : \A m \in Standings : n <= m
    BY <2>1, LeastNatural
  <2>3. QED
    BY <2>2
<1> DEFINE Best == {q \in S : Standing(q, c) = Standing(p, c)}
           Localities == {Locality(r, f, c) : r \in Best}
<1>2. PICK l \in Best : \A q \in Best : Locality(l, f, c) <= Locality(q, f, c)
  <2>1. Localities \in SUBSET Nat /\ Localities # {}
    BY Criteria
  <2>2. PICK n \in Localities : \A m \in Localities : n <= m
    BY <2>1, LeastNatural
  <2>3. QED
    BY <2>2
<1> DEFINE Closest == {q \in Best : Locality(q, f, c) = Locality(l, f, c)}
<1>3. PICK r \in Closest : \A q \in Closest : r <= q
  <2>1. Closest \in SUBSET Nat /\ Closest # {}
    BY IdAssumption
  <2>2. QED
    BY <2>1, LeastNatural
<1>4. ASSUME NEW q \in S \ {r}
      PROVE  SortsBefore(r, q, f, c)
  <2>1. r \in Nat /\ q \in Nat /\ r # q /\ r \in S /\ q \in S
    BY IdAssumption
  <2>2. /\ Standing(r, c) \in Nat /\ Standing(q, c) \in Nat
        /\ Locality(r, f, c) \in Nat /\ Locality(q, f, c) \in Nat
    BY Criteria
  <2>3. Standing(r, c) = Standing(p, c) /\ Locality(r, f, c) = Locality(l, f, c)
    OBVIOUS
  <2>4. Standing(r, c) <= Standing(q, c)
    BY <1>1, <2>3
  <2>5. Standing(q, c) = Standing(r, c) => Locality(r, f, c) <= Locality(q, f, c)
    BY <1>2, <2>3
  <2>6. Standing(q, c) = Standing(r, c) /\ Locality(q, f, c) = Locality(r, f, c) => r <= q
    BY <1>3, <2>3
  <2>7. QED
    BY <2>1, <2>2, <2>4, <2>5, <2>6, ComparatorIsLexicographic
<1>5. QED
  BY <1>4

(* Two replicas never sort before each other. *)
LEMMA FirstIsUnique ==
    ASSUME NEW a \in ReplicaId, NEW b \in ReplicaId, NEW f, NEW c,
           SortsBefore(a, b, f, c), SortsBefore(b, a, f, c)
    PROVE  FALSE
<1>1. /\ Standing(a, c) \in Nat /\ Standing(b, c) \in Nat
      /\ Locality(a, f, c) \in Nat /\ Locality(b, f, c) \in Nat
  BY Criteria
<1>2. a \in Nat /\ b \in Nat
  BY IdAssumption
<1>3. QED
  BY <1>1, <1>2, ComparatorIsLexicographic

(* FailoverDeterministic: whatever state the controller is in, a failover   *)
(* that has candidates has exactly one to choose.                           *)
THEOREM FailoverIsDeterministic == Spec => []FailoverDeterministic
<1>1. FailoverDeterministic
  <2> SUFFICES ASSUME NEW s \in SetId, NEW f \in ReplicaId, Candidates(s, f) # {}
               PROVE  Cardinality({c \in Candidates(s, f) : IsFront(c, s, f)}) = 1
    BY DEF FailoverDeterministic
  <2> DEFINE First == {c \in Candidates(s, f) : IsFront(c, s, f)}
  <2>1. Candidates(s, f) \in SUBSET ReplicaId
    BY DEF Candidates, MembersOf
  <2>2. PICK r \in Candidates(s, f) :
            \A q \in Candidates(s, f) \ {r} : SortsBefore(r, q, f, sets[s].cfg)
    BY <2>1, FirstExists
  <2>3. r \in First
    BY <2>2 DEF IsFront
  <2>4. ASSUME NEW q \in First
        PROVE  q = r
    BY <2>1, <2>2, <2>4, FirstIsUnique DEF IsFront
  <2>5. First = {r}
    BY <2>3, <2>4
  <2>6. QED
    BY <2>5, FS_Singleton
<1>2. QED
  BY <1>1, PTL
=============================================================================
