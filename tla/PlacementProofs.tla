--------------------------- MODULE PlacementProofs ---------------------------
(***************************************************************************)
(* Proofs about Placement, for any number of hosts, any requirements and   *)
(* any precision of the scores: what place chooses, that the order of the  *)
(* hosts does not matter, how far anti-affinity goes, and that what it     *)
(* lets through is compatible.                                             *)
(***************************************************************************)
EXTENDS Placement, NaturalSets, FiniteSetTheorems

-----------------------------------------------------------------------------
(* Sorting *)

Sorts(p, n, key) == \A i, j \in 1..n : i < j => key[p[i]] < key[p[j]]

(* Of finitely many numbers one is the greatest. *)
LEMMA GreatestIndex ==
    ASSUME NEW n \in Nat, NEW key \in [1..(n + 1) -> Nat]
    PROVE  \E m \in 1..(n + 1) : \A i \in 1..(n + 1) : key[i] <= key[m]
<1> DEFINE S == {k \in Nat : k \in 0..n => \E m \in 1..(k + 1) : \A i \in 1..(k + 1) : key[i] <= key[m]}
<1>1. 0 \in S
  <2>1. 1 \in 1..(0 + 1) /\ \A i \in 1..(0 + 1) : key[i] <= key[1]
    OBVIOUS
  <2>2. QED
    BY <2>1
<1>2. ASSUME NEW k \in Nat, k \in S PROVE k + 1 \in S
  <2> SUFFICES ASSUME k + 1 \in 0..n
               PROVE  \E m \in 1..(k + 1 + 1) : \A i \in 1..(k + 1 + 1) : key[i] <= key[m]
    OBVIOUS
  <2>1. PICK m \in 1..(k + 1) : \A i \in 1..(k + 1) : key[i] <= key[m]
    BY <1>2
  <2>2. key[m] \in Nat /\ key[k + 2] \in Nat
    OBVIOUS
  <2>3. CASE key[k + 2] <= key[m]
    <3>1. \A i \in 1..(k + 2) : key[i] <= key[m]
      BY <2>1, <2>3
    <3>2. QED
      BY <3>1
  <2>4. CASE key[m] <= key[k + 2]
    <3>1. ASSUME NEW i \in 1..(k + 2) PROVE key[i] <= key[k + 2]
      <4>1. key[i] \in Nat
        OBVIOUS
      <4>2. i \in 1..(k + 1) \/ i = k + 2
        OBVIOUS
      <4>3. QED
        BY <2>1, <2>2, <2>4, <4>1, <4>2
    <3>2. QED
      BY <3>1
  <2>5. QED
    BY <2>2, <2>3, <2>4
<1>3. Nat \subseteq S
  <2> HIDE DEF S
  <2>1. QED
    BY <1>1, <1>2, NaturalInduction
<1>4. n \in S
  BY <1>3
<1>5. QED
  BY <1>4

(* The functions that list n different numbers. *)
Distinct(n) == {f \in [1..n -> Nat] : \A i, j \in 1..n : f[i] = f[j] => i = j}

(* The greatest of n + 1 numbers is put behind the others. *)
LEMMA OrderExtends ==
    ASSUME NEW k \in Nat, NEW f \in Distinct(k + 1),
           \A g \in Distinct(k) : \E q \in Surjection(1..k, 1..k) : Sorts(q, k, g)
    PROVE  \E p \in Surjection(1..(k + 1), 1..(k + 1)) : Sorts(p, k + 1, f)
<1>1. f \in [1..(k + 1) -> Nat] /\ \A i, j \in 1..(k + 1) : f[i] = f[j] => i = j
  BY DEF Distinct
<1>2. /\ 1..k \subseteq 1..(k + 1) /\ k + 1 \in 1..(k + 1) /\ k + 1 \notin 1..k
      /\ \A i \in 1..(k + 1) : i \in 1..k \/ i = k + 1
  OBVIOUS
<1>3. PICK m \in 1..(k + 1) : \A i \in 1..(k + 1) : f[i] <= f[m]
  BY <1>1, GreatestIndex
<1> DEFINE g == [i \in 1..k |-> IF i = m THEN f[k + 1] ELSE f[i]]
<1>4. \A i \in 1..k : g[i] = IF i = m THEN f[k + 1] ELSE f[i]
  OBVIOUS
<1>5. g \in [1..k -> Nat]
  BY <1>1, <1>2
<1> HIDE DEF g
<1>6. g \in Distinct(k)
  <2> SUFFICES ASSUME NEW i \in 1..k, NEW j \in 1..k, g[i] = g[j] PROVE i = j
    BY <1>5 DEF Distinct
  <2>1. QED
    BY <1>1, <1>2, <1>4
<1>7. PICK q \in Surjection(1..k, 1..k) : Sorts(q, k, g)
  BY <1>6
<1>8. /\ \A i \in 1..k : q[i] \in 1..k
      /\ \A j \in 1..k : \E i \in 1..k : q[i] = j
      /\ \A i, j \in 1..k : i < j => g[q[i]] < g[q[j]]
  BY <1>7 DEF Surjection, Sorts
<1> DEFINE p == [i \in 1..(k + 1) |-> IF i = k + 1 THEN m ELSE IF q[i] = m THEN k + 1 ELSE q[i]]
<1>9. /\ p[k + 1] = m
      /\ \A i \in 1..k : p[i] = IF q[i] = m THEN k + 1 ELSE q[i]
  BY <1>2
<1>10. p \in [1..(k + 1) -> 1..(k + 1)]
  BY <1>2, <1>8
<1> HIDE DEF p
<1>11. \A i \in 1..k : f[p[i]] = g[q[i]] /\ p[i] # m
  <2> TAKE i \in 1..k
  <2>1. q[i] \in 1..k /\ q[i] # k + 1
    BY <1>2, <1>8
  <2>2. CASE q[i] = m
    <3>1. p[i] = k + 1 /\ g[q[i]] = f[k + 1]
      BY <1>4, <1>9, <2>1, <2>2
    <3>2. QED
      BY <2>1, <2>2, <3>1
  <2>3. CASE q[i] # m
    <3>1. p[i] = q[i] /\ g[q[i]] = f[q[i]]
      BY <1>4, <1>9, <2>1, <2>3
    <3>2. QED
      BY <2>3, <3>1
  <2>4. QED
    BY <2>2, <2>3
<1>12. ASSUME NEW j \in 1..(k + 1) PROVE \E i \in 1..(k + 1) : p[i] = j
  <2>1. CASE j = m
    BY <1>2, <1>9, <2>1
  <2>2. CASE j # m /\ j = k + 1
    <3>1. PICK i \in 1..k : q[i] = m
      BY <1>2, <1>8, <2>2
    <3>2. QED
      BY <1>2, <1>9, <2>2, <3>1
  <2>3. CASE j # m /\ j # k + 1
    <3>1. PICK i \in 1..k : q[i] = j
      BY <1>2, <1>8, <2>3
    <3>2. QED
      BY <1>2, <1>9, <2>3, <3>1
  <2>4. QED
    BY <2>1, <2>2, <2>3
<1>13. Sorts(p, k + 1, f)
  <2> SUFFICES ASSUME NEW i \in 1..(k + 1), NEW j \in 1..(k + 1), i < j PROVE f[p[i]] < f[p[j]]
    BY DEF Sorts
  <2>1. i \in 1..k
    OBVIOUS
  <2>2. CASE j = k + 1
    <3>1. p[i] \in 1..(k + 1) /\ p[i] # m /\ p[j] = m
      BY <1>9, <1>10, <1>11, <2>1, <2>2
    <3>2. f[p[i]] <= f[m] /\ f[p[i]] # f[m]
      BY <1>1, <1>3, <3>1
    <3>3. f[p[i]] \in Nat /\ f[m] \in Nat
      BY <1>1, <3>1
    <3>4. QED
      BY <3>1, <3>2, <3>3
  <2>3. CASE j \in 1..k
    BY <1>8, <1>11, <2>1, <2>3
  <2>4. QED
    BY <1>2, <2>2, <2>3
<1>14. QED
  BY <1>10, <1>12, <1>13 DEF Surjection

(* Different numbers can be put in order. *)
LEMMA OrderExists ==
    ASSUME NEW n \in Nat, NEW key \in Distinct(n)
    PROVE  \E p \in Bijection(1..n, 1..n) : Sorts(p, n, key)
<1> DEFINE Ordered(k) == \A f \in Distinct(k) : \E p \in Surjection(1..k, 1..k) : Sorts(p, k, f)
           S == {k \in Nat : Ordered(k)}
<1>1. Ordered(0)
  <2> DEFINE e == [i \in 1..0 |-> i]
  <2>1. e \in Surjection(1..0, 1..0) /\ \A f : Sorts(e, 0, f)
    BY DEF Sorts, Surjection
  <2>2. QED
    BY <2>1
<1>2. ASSUME NEW k \in Nat, Ordered(k) PROVE Ordered(k + 1)
  BY <1>2, OrderExtends
<1> HIDE DEF Ordered
<1>3. 0 \in S /\ \A k \in Nat : k \in S => k + 1 \in S
  BY <1>1, <1>2
<1>4. Nat \subseteq S
  <2> HIDE DEF S
  <2>1. QED
    BY <1>3, NaturalInduction
<1>5. Ordered(n)
  BY <1>4
<1>6. PICK p \in Surjection(1..n, 1..n) : Sorts(p, n, key)
  BY <1>5 DEF Ordered
<1>7. \A i \in 1..n : p[i] \in 1..n /\ key[p[i]] \in Nat
  BY DEF Surjection, Distinct
<1>8. p \in Injection(1..n, 1..n)
  <2>1. ASSUME NEW i \in 1..n, NEW j \in 1..n, p[i] = p[j] PROVE i = j
    <3>1. ~(i < j) /\ ~(j < i)
      BY <1>6, <1>7, <2>1 DEF Sorts
    <3>2. QED
      BY <3>1
  <2>2. QED
    BY <2>1 DEF Injection, IsInjective, Surjection
<1>9. QED
  BY <1>6, <1>8 DEF Bijection

(* Sorted returns the same hosts in the order of their keys. *)
LEMMA SortedFacts ==
    ASSUME NEW hs, NEW n \in Nat, DOMAIN hs = 1..n,
           \A i \in 1..n : hs[i].key \in Nat,
           \A i, j \in 1..n : hs[i].key = hs[j].key => i = j
    PROVE  /\ Sorted(hs) = [i \in 1..n |-> Sorted(hs)[i]]
           /\ \A i, j \in 1..n : i < j => Sorted(hs)[i].key < Sorted(hs)[j].key
           /\ \A i \in 1..n : \E j \in 1..n : Sorted(hs)[i] = hs[j]
           /\ \A j \in 1..n : \E i \in 1..n : Sorted(hs)[i] = hs[j]
<1> DEFINE key == [i \in 1..n |-> hs[i].key]
           Good(p) == \A i, j \in 1..n : i < j => hs[p[i]].key < hs[p[j]].key
           B == Bijection(1..n, 1..n)
           order == CHOOSE p \in B : Good(p)
<1>1. key \in Distinct(n)
  BY DEF Distinct
<1>2. PICK p \in B : Sorts(p, n, key)
  <2> HIDE DEF key
  <2>1. QED
    BY <1>1, OrderExists
<1>3. Good(p)
  <2>1. \A i \in 1..n : p[i] \in 1..n
    BY DEF Bijection, Injection
  <2>2. QED
    BY <1>2, <2>1 DEF Sorts
<1>4. order \in B /\ Good(order)
  <2> HIDE DEF Good, B
  <2>1. QED
    BY <1>2, <1>3
<1>5. Sorted(hs) = [i \in 1..n |-> hs[order[i]]]
  BY DEF Sorted
<1> HIDE DEF order
<1>6. \A i \in 1..n : order[i] \in 1..n /\ Sorted(hs)[i] = hs[order[i]]
  BY <1>4, <1>5 DEF Bijection, Injection
<1>7. \A j \in 1..n : \E i \in 1..n : order[i] = j
  BY <1>4 DEF Bijection, Surjection
<1>8. Sorted(hs) = [i \in 1..n |-> Sorted(hs)[i]]
  BY <1>5
<1>9. \A i, j \in 1..n : i < j => Sorted(hs)[i].key < Sorted(hs)[j].key
  BY <1>4, <1>6
<1>10. \A j \in 1..n : \E i \in 1..n : Sorted(hs)[i] = hs[j]
  <2> TAKE j \in 1..n
  <2>1. PICK i \in 1..n : order[i] = j
    BY <1>7
  <2>2. Sorted(hs)[i] = hs[j]
    BY <1>6, <2>1
  <2>3. QED
    BY <2>2
<1>11. QED
  BY <1>6, <1>8, <1>9, <1>10

Increasing(k, n) == \A i, j \in 1..n : i < j => k[i] < k[j]
Covers(s, t, n) == \A i \in 1..n : \E j \in 1..n : s[i] = t[j]

(* ks and kt are the keys of the lists s and t. *)
Keys(s, t, ks, kt, n) ==
    /\ ks \in [1..n -> Nat] /\ kt \in [1..n -> Nat]
    /\ \A i, j \in 1..n : s[i] = t[j] => ks[i] = kt[j]

(* There is only one list of the same hosts in the order of their keys.     *)
LEMMA OrderUnique ==
    ASSUME NEW n \in Nat, NEW s, NEW t, NEW ks, NEW kt, Keys(s, t, ks, kt, n),
           Increasing(ks, n), Increasing(kt, n), Covers(s, t, n), Covers(t, s, n)
    PROVE  \A i \in 1..n : s[i] = t[i]
<1> USE DEF Keys, Increasing, Covers
<1> DEFINE D == {i \in 1..n : s[i] # t[i]}
<1> SUFFICES ASSUME D # {} PROVE FALSE
  OBVIOUS
<1>1. D \in SUBSET Nat
  OBVIOUS
<1>2. PICK i \in D : \A j \in D : i <= j
  <2> HIDE DEF D
  <2>1. QED
    BY <1>1, LeastNatural
<1>3. i \in 1..n /\ s[i] # t[i] /\ \A j \in 1..n : j < i => s[j] = t[j]
  BY <1>2
<1>4. PICK j \in 1..n : s[i] = t[j]
  BY <1>3
<1>5. PICK k \in 1..n : t[i] = s[k]
  BY <1>3
<1>6. ks[i] = kt[j] /\ ks[k] = kt[i]
  BY <1>3, <1>4, <1>5
<1>7. i < j
  <2>1. j < i => ks[j] = kt[j] /\ ks[j] < ks[i]
    BY <1>3
  <2>2. j # i
    BY <1>3, <1>4
  <2>3. QED
    BY <1>3, <1>6, <2>1, <2>2
<1>8. i < k
  <2>1. k < i => ks[k] = kt[k] /\ kt[k] < kt[i]
    BY <1>3
  <2>2. k # i
    BY <1>3, <1>5
  <2>3. QED
    BY <1>3, <1>6, <2>1, <2>2
<1>9. kt[i] < kt[j] /\ ks[i] < ks[k]
  BY <1>3, <1>7, <1>8
<1>10. ks[i] \in Nat /\ ks[k] \in Nat /\ kt[i] \in Nat /\ kt[j] \in Nat
  BY <1>3
<1>11. kt[i] < ks[i] /\ ks[i] < kt[i]
  BY <1>6, <1>9, Zenon
<1>12. \A a, b \in Nat : ~(a < b /\ b < a)
  OBVIOUS
<1>13. QED
  BY <1>10, <1>11, <1>12, Zenon

(* The order of the input does not matter. *)
LEMMA SortedSame ==
    ASSUME NEW hs, NEW n \in Nat, DOMAIN hs = 1..n,
           \A i \in 1..n : hs[i].key \in Nat,
           \A i, j \in 1..n : hs[i].key = hs[j].key => i = j,
           NEW p \in Bijection(1..n, 1..n)
    PROVE  Sorted([i \in 1..n |-> hs[p[i]]]) = Sorted(hs)
<1> DEFINE gs == [i \in 1..n |-> hs[p[i]]]
           s == Sorted(hs)
           t == Sorted(gs)
           ks == [i \in 1..n |-> s[i].key]
           kt == [i \in 1..n |-> t[i].key]
<1>1. /\ \A i \in 1..n : p[i] \in 1..n
      /\ \A i, j \in 1..n : p[i] = p[j] => i = j
      /\ \A j \in 1..n : \E i \in 1..n : p[i] = j
  BY DEF Bijection, Injection, Surjection, IsInjective
<1>2. DOMAIN gs = 1..n /\ \A i \in 1..n : gs[i] = hs[p[i]]
  OBVIOUS
<1> HIDE DEF gs
<1>3. \A i \in 1..n : gs[i].key \in Nat
  BY <1>1, <1>2
<1>4. \A i, j \in 1..n : gs[i].key = gs[j].key => i = j
  <2> TAKE i, j \in 1..n
  <2> HAVE gs[i].key = gs[j].key
  <2>1. gs[i] = hs[p[i]] /\ gs[j] = hs[p[j]] /\ p[i] \in 1..n /\ p[j] \in 1..n
    BY <1>1, <1>2
  <2>2. p[i] = p[j]
    BY <2>1, Zenon
  <2>3. QED
    BY <1>1, <2>2
<1>5. /\ s = [i \in 1..n |-> s[i]]
      /\ \A i, j \in 1..n : i < j => s[i].key < s[j].key
      /\ \A i \in 1..n : \E j \in 1..n : s[i] = hs[j]
      /\ \A j \in 1..n : \E i \in 1..n : s[i] = hs[j]
  BY SortedFacts
<1>6. /\ t = [i \in 1..n |-> t[i]]
      /\ \A i, j \in 1..n : i < j => t[i].key < t[j].key
      /\ \A i \in 1..n : \E j \in 1..n : t[i] = gs[j]
      /\ \A j \in 1..n : \E i \in 1..n : t[i] = gs[j]
  BY <1>2, <1>3, <1>4, SortedFacts
<1> HIDE DEF s, t
<1>7. \A i \in 1..n : \E j \in 1..n : s[i] = t[j]
  <2> TAKE i \in 1..n
  <2>1. PICK j \in 1..n : s[i] = hs[j]
    BY <1>5
  <2>2. PICK k \in 1..n : p[k] = j
    BY <1>1
  <2>3. PICK l \in 1..n : t[l] = gs[k]
    BY <1>6
  <2>4. s[i] = t[l]
    BY <1>2, <2>1, <2>2, <2>3
  <2>5. QED
    BY <2>4
<1>8. \A i \in 1..n : \E j \in 1..n : t[i] = s[j]
  <2> TAKE i \in 1..n
  <2>1. PICK j \in 1..n : t[i] = gs[j]
    BY <1>6
  <2>2. p[j] \in 1..n
    BY <1>1
  <2>3. PICK l \in 1..n : s[l] = hs[p[j]]
    BY <1>5, <2>2
  <2>4. t[i] = s[l]
    BY <1>2, <2>1, <2>3
  <2>5. QED
    BY <2>4
<1>9. \A i \in 1..n : s[i].key \in Nat /\ t[i].key \in Nat
  <2> TAKE i \in 1..n
  <2>1. PICK j \in 1..n : s[i] = hs[j]
    BY <1>5
  <2>2. PICK k \in 1..n : t[i] = gs[k]
    BY <1>6
  <2>3. hs[j].key \in Nat /\ gs[k].key \in Nat
    BY <1>3
  <2>4. QED
    BY <2>1, <2>2, <2>3
<1>10. /\ ks \in [1..n -> Nat] /\ kt \in [1..n -> Nat]
       /\ \A i \in 1..n : ks[i] = s[i].key /\ kt[i] = t[i].key
  BY <1>9
<1> HIDE DEF ks, kt
<1>11. \A i, j \in 1..n : s[i] = t[j] => ks[i] = kt[j]
  <2> TAKE i, j \in 1..n
  <2> HAVE s[i] = t[j]
  <2>1. s[i].key = t[j].key
    BY Zenon
  <2>2. QED
    BY <1>10, <2>1
<1>12. /\ \A i, j \in 1..n : i < j => ks[i] < ks[j]
       /\ \A i, j \in 1..n : i < j => kt[i] < kt[j]
  <2>1. ASSUME NEW i \in 1..n, NEW j \in 1..n, i < j PROVE ks[i] < ks[j] /\ kt[i] < kt[j]
    <3>1. s[i].key < s[j].key /\ t[i].key < t[j].key
      BY <1>5, <1>6, <2>1
    <3>2. ks[i] = s[i].key /\ ks[j] = s[j].key /\ kt[i] = t[i].key /\ kt[j] = t[j].key
      BY <1>10
    <3>3. QED
      BY <3>1, <3>2, Zenon
  <2>2. QED
    BY <2>1
<1>13. \A i \in 1..n : s[i] = t[i]
  <2>1. Keys(s, t, ks, kt, n)
    BY <1>10, <1>11 DEF Keys
  <2>2. Increasing(ks, n) /\ Increasing(kt, n) /\ Covers(s, t, n) /\ Covers(t, s, n)
    BY <1>7, <1>8, <1>12 DEF Increasing, Covers
  <2>3. QED
    BY <2>1, <2>2, OrderUnique
<1>14. s = t
  BY <1>5, <1>6, <1>13
<1>15. QED
  BY <1>14 DEF s, t, gs

-----------------------------------------------------------------------------
(* The selection loop *)

(* BestOf is what the loop computes. *)
LEMMA LoopDefined ==
    ASSUME NEW c, Len(c) \in Nat
    PROVE  LET b == BestOf(c)
           IN b[0] = NoCandidate /\ \A i \in 1..Len(c) : b[i] = Better(b[i - 1], c[i])
<1> DEFINE Step(f, i) == IF i = 0 THEN NoCandidate ELSE Better(f[i - 1], c[i])
           Loop(n, f) == f = [i \in 0..n |-> Step(f, i)]
           S == {n \in Nat : \E f : Loop(n, f)}
<1>1. \E f : Loop(0, f)
  <2> DEFINE f == [i \in 0..0 |-> NoCandidate]
  <2>1. Loop(0, f)
    OBVIOUS
  <2>2. QED
    BY <2>1
<1>2. ASSUME NEW n \in Nat, NEW f, Loop(n, f) PROVE \E g : Loop(n + 1, g)
  <2> DEFINE g == [i \in 0..(n + 1) |-> IF i = n + 1 THEN Better(f[n], c[n + 1]) ELSE f[i]]
  <2>1. \A i \in 0..n : f[i] = Step(f, i)
    <3> HIDE DEF Step
    <3>1. QED
      BY <1>2
  <2>2. \A i \in 0..(n + 1) : g[i] = IF i = n + 1 THEN Better(f[n], c[n + 1]) ELSE f[i]
    OBVIOUS
  <2>3. g = [i \in 0..(n + 1) |-> g[i]]
    OBVIOUS
  <2> HIDE DEF g
  <2>4. ASSUME NEW i \in 0..(n + 1) PROVE g[i] = Step(g, i)
    <3>1. CASE i = 0
      <4>1. 0 \in 0..n /\ 0 # n + 1 /\ 0 \in 0..(n + 1)
        OBVIOUS
      <4>2. QED
        BY <2>1, <2>2, <3>1, <4>1
    <3>2. CASE i \in 1..n
      <4>1. i \in 0..n /\ i - 1 \in 0..(n + 1) /\ i - 1 # n + 1 /\ i # n + 1 /\ i # 0
        BY <3>2
      <4>2. g[i] = f[i] /\ g[i - 1] = f[i - 1]
        BY <2>2, <4>1
      <4>3. QED
        BY <2>1, <4>1, <4>2
    <3>3. CASE i = n + 1
      <4>1. n \in 0..(n + 1) /\ n # n + 1 /\ n + 1 # 0 /\ n + 1 - 1 = n /\ n + 1 \in 0..(n + 1)
        OBVIOUS
      <4>2. g[n] = f[n] /\ g[n + 1] = Better(f[n], c[n + 1])
        BY <2>2, <4>1
      <4>3. QED
        BY <3>3, <4>1, <4>2
    <3>4. QED
      BY <3>1, <3>2, <3>3
  <2> HIDE DEF Step
  <2>5. Loop(n + 1, g)
    BY <2>3, <2>4
  <2>6. QED
    BY <2>5
<1>3. Nat \subseteq S
  <2>1. 0 \in S /\ \A n \in Nat : n \in S => n + 1 \in S
    <3> HIDE DEF Loop
    <3>1. QED
      BY <1>1, <1>2
  <2> HIDE DEF S
  <2>2. QED
    BY <2>1, NaturalInduction
<1>4. \E f : Loop(Len(c), f)
  <2> HIDE DEF Loop
  <2>1. QED
    BY <1>3
<1>5. BestOf(c) = CHOOSE f : Loop(Len(c), f)
  BY Zenon DEF BestOf
<1>6. Loop(Len(c), BestOf(c))
  <2> HIDE DEF Loop
  <2>1. QED
    BY <1>4, <1>5
<1> DEFINE b == BestOf(c)
<1>7. \A i \in 0..Len(c) : b[i] = Step(b, i)
  <2> HIDE DEF Step
  <2>1. QED
    BY <1>6
<1> HIDE DEF b
<1>8. 0 \in 0..Len(c) /\ \A i \in 1..Len(c) : i \in 0..Len(c) /\ i # 0
  OBVIOUS
<1>9. b[0] = NoCandidate /\ \A i \in 1..Len(c) : b[i] = Better(b[i - 1], c[i])
  BY <1>7, <1>8
<1>10. QED
  BY <1>9 DEF b

Rated(c) == c.eligible \in BOOLEAN /\ c.total \in Nat /\ c.host.key \in Nat

(* Candidate x is as good as y. *)
AsGood(x, y) == x.total > y.total \/ (x.total = y.total /\ x.host.key <= y.host.key)

(* b is what the loop should hold after k candidates. *)
BestAmong(b, c, k) ==
    IF \E j \in 1..k : c[j].eligible
    THEN /\ b.eligible /\ \E i \in 1..k : b = c[i]
         /\ \A j \in 1..k : c[j].eligible => AsGood(b, c[j])
    ELSE b = NoCandidate

(* The comparison of candidates. *)
LEMMA AsGoodFacts ==
    /\ \A x : Rated(x) => AsGood(x, x)
    /\ \A x, y, z : Rated(x) /\ Rated(y) /\ Rated(z) /\ AsGood(x, y) /\ AsGood(y, z) => AsGood(x, z)
    /\ \A b, x : Rated(b) /\ Rated(x) =>
          \/ Better(b, x) = x /\ x.eligible /\ (b.eligible => AsGood(x, b))
          \/ Better(b, x) = b /\ (x.eligible => b.eligible /\ AsGood(b, x))
<1>1. \A x : Rated(x) => AsGood(x, x)
  BY DEF Rated, AsGood
<1>2. ASSUME NEW x, NEW y, NEW z, Rated(x), Rated(y), Rated(z), AsGood(x, y), AsGood(y, z)
      PROVE  AsGood(x, z)
  BY <1>2 DEF Rated, AsGood
<1>3. ASSUME NEW b, NEW x, Rated(b), Rated(x)
      PROVE  \/ Better(b, x) = x /\ x.eligible /\ (b.eligible => AsGood(x, b))
             \/ Better(b, x) = b /\ (x.eligible => b.eligible /\ AsGood(b, x))
  <2> DEFINE wins == /\ x.eligible
                     /\ \/ ~b.eligible
                        \/ x.total > b.total
                        \/ x.total = b.total /\ x.host.key < b.host.key
  <2>1. CASE wins
    <3>1. Better(b, x) = x
      BY <2>1 DEF Better
    <3>2. QED
      BY <1>3, <2>1, <3>1 DEF Rated, AsGood
  <2>2. CASE ~wins
    <3>1. Better(b, x) = b
      BY <2>2 DEF Better
    <3>2. x.eligible => b.eligible /\ AsGood(b, x)
      BY <1>3, <2>2 DEF Rated, AsGood
    <3>3. QED
      BY <3>1, <3>2
  <2>3. QED
    BY <2>1, <2>2
<1>4. QED
  BY <1>1, <1>2, <1>3

(* The loop holds the best of what it has seen. *)
LEMMA LoopResult ==
    ASSUME NEW c, Len(c) \in Nat, \A i \in 1..Len(c) : Rated(c[i])
    PROVE  BestAmong(BestOf(c)[Len(c)], c, Len(c))
<1> DEFINE n == Len(c)
           b == BestOf(c)
           S == {k \in Nat : k \in 0..n => BestAmong(b[k], c, k)}
<1>1. b[0] = NoCandidate /\ \A i \in 1..n : b[i] = Better(b[i - 1], c[i])
  BY LoopDefined
<1> HIDE DEF b, n
<1>2. n \in Nat /\ \A i \in 1..n : Rated(c[i])
  BY DEF n
<1>3. 0 \in S
  BY <1>1 DEF BestAmong
<1>4. ASSUME NEW k \in Nat, k \in S PROVE k + 1 \in S
  <2> SUFFICES ASSUME k + 1 \in 0..n PROVE BestAmong(b[k + 1], c, k + 1)
    OBVIOUS
  <2> DEFINE x == c[k + 1]
  <2>1. /\ 1..k \subseteq 1..n /\ k + 1 \in 1..n /\ k + 1 - 1 = k /\ k \in 0..n
        /\ k + 1 \in 1..(k + 1) /\ 1..k \subseteq 1..(k + 1)
        /\ \A i \in 1..(k + 1) : i \in 1..k \/ i = k + 1
    BY <1>2
  <2>2. b[k + 1] = Better(b[k], x) /\ Rated(x)
    BY <1>1, <1>2, <2>1
  <2>3. BestAmong(b[k], c, k)
    BY <1>4, <2>1
  <2>4. Rated(b[k])
    <3>1. Rated(NoCandidate)
      BY DEF Rated, NoCandidate, NoHost
    <3>2. QED
      BY <1>2, <2>1, <2>3, <3>1 DEF BestAmong
  <2>5. ~NoCandidate.eligible
    BY DEF NoCandidate
  <2>6. CASE b[k + 1] = x /\ x.eligible /\ (b[k].eligible => AsGood(x, b[k]))
    <3>1. ASSUME NEW j \in 1..(k + 1), c[j].eligible PROVE AsGood(x, c[j])
      <4>1. CASE j = k + 1
        BY <2>2, <4>1, AsGoodFacts
      <4>2. CASE j \in 1..k
        <5>1. b[k].eligible /\ AsGood(b[k], c[j])
          BY <2>3, <3>1, <4>2 DEF BestAmong
        <5>2. Rated(c[j])
          BY <1>2, <2>1, <4>2
        <5>3. QED
          BY <2>2, <2>4, <2>6, <5>1, <5>2, AsGoodFacts
      <4>3. QED
        BY <2>1, <4>1, <4>2
    <3>2. QED
      BY <2>1, <2>6, <3>1 DEF BestAmong
  <2>7. CASE b[k + 1] = b[k] /\ (x.eligible => b[k].eligible /\ AsGood(b[k], x))
    <3>1. CASE b[k].eligible
      <4>1. /\ \E i \in 1..k : b[k] = c[i]
            /\ \A j \in 1..k : c[j].eligible => AsGood(b[k], c[j])
        BY <2>3, <2>5, <3>1 DEF BestAmong
      <4>2. \A j \in 1..(k + 1) : c[j].eligible => AsGood(b[k], c[j])
        BY <2>1, <2>7, <4>1
      <4>3. \E i \in 1..(k + 1) : b[k] = c[i] /\ c[i].eligible
        BY <2>1, <3>1, <4>1
      <4>4. QED
        BY <2>7, <3>1, <4>2, <4>3 DEF BestAmong
    <3>2. CASE ~b[k].eligible
      <4>1. b[k] = NoCandidate /\ \A j \in 1..k : ~c[j].eligible
        BY <2>3, <3>2 DEF BestAmong
      <4>2. \A j \in 1..(k + 1) : ~c[j].eligible
        BY <2>1, <2>7, <3>2, <4>1
      <4>3. QED
        BY <2>7, <4>1, <4>2 DEF BestAmong
    <3>3. QED
      BY <3>1, <3>2
  <2>8. QED
    BY <2>2, <2>4, <2>6, <2>7, AsGoodFacts
<1>5. Nat \subseteq S
  <2> HIDE DEF S
  <2>1. QED
    BY <1>3, <1>4, NaturalInduction
<1>6. BestAmong(b[n], c, n)
  BY <1>2, <1>5
<1>7. QED
  BY <1>6 DEF b, n

-----------------------------------------------------------------------------
(* The score *)

(* A part of an amount, rounded down. *)
LEMMA PartOf ==
    ASSUME NEW k \in Nat, NEW t \in Nat \ {0}, NEW f \in 0..t
    PROVE  (k * f) \div t \in 0..k
<1> DEFINE q == (k * f) \div t
           r == (k * f) % t
<1>1. k * f \in Nat /\ k * f <= k * t
  OBVIOUS
<1>2. q \in Int /\ r \in 0..(t - 1) /\ k * f = t * q + r
  BY <1>1
<1> HIDE DEF q, r
<1>3. q >= 0
  <2> SUFFICES ASSUME q <= -1 PROVE FALSE
    BY <1>2
  <2>1. t * q <= -t
    BY <1>2
  <2>2. QED
    BY <1>1, <1>2, <2>1
<1>4. q <= k
  <2> SUFFICES ASSUME q >= k + 1 PROVE FALSE
    BY <1>2
  <2>1. t * q >= t * (k + 1)
    BY <1>2
  <2>2. t * (k + 1) = k * t + t
    OBVIOUS
  <2>3. QED
    BY <1>1, <1>2, <2>1, <2>2
<1>5. QED
  BY <1>2, <1>3, <1>4 DEF q

(* No factor contributes more than its weight. *)
LEMMA FactorBounds ==
    ASSUME NEW s, NEW h, NEW placed, HostOK(h)
    PROVE  LET f == Factors(s, h, placed)
           IN /\ f.free_memory \in 0..(6 * Half) /\ f.capability \in 0..(4 * Half)
              /\ f.warm \in 0..(5 * Half) /\ f.locality \in 0..(3 * Half)
              /\ f.preference \in 0..(2 * Half)
              /\ f.diversity = (IF \E d \in s.anti_affinity : Occupied(h, d, placed) THEN 0 ELSE 8 * Half)
<1>1. Half \in Nat /\ {2 * Half, 3 * Half, 4 * Half, 5 * Half, 6 * Half, 8 * Half} \subseteq Nat
  BY PrecisionAssumption
<1>2. /\ h.free \in Nat /\ h.total \in Nat /\ h.distance \in Nat /\ h.warm \in BOOLEAN
      /\ h.free <= h.total /\ h.compute \in Nat \X Nat
  BY DEF HostOK
<1>3. (IF h.total = 0 THEN 0 ELSE (6 * Half * h.free) \div h.total) \in 0..(6 * Half)
  <2>1. ASSUME h.total # 0 PROVE (6 * Half * h.free) \div h.total \in 0..(6 * Half)
    <3>1. h.total \in Nat \ {0} /\ h.free \in 0..h.total
      BY <1>2, <2>1
    <3>2. QED
      BY <1>1, <3>1, PartOf
  <2>2. QED
    BY <1>1, <2>1
<1>4. (4 * Half * Min({200, 10 * h.compute[1] + h.compute[2]})) \div 200 \in 0..(4 * Half)
  <2>1. 10 * h.compute[1] + h.compute[2] \in Nat
    BY <1>2
  <2>2. \A x \in Nat : Min({200, x}) \in 0..200
    BY DEF Min
  <2> DEFINE m == Min({200, 10 * h.compute[1] + h.compute[2]})
             k == 4 * Half
  <2>3. m \in 0..200 /\ 200 \in Nat \ {0} /\ k \in Nat
    BY <1>1, <2>1, <2>2
  <2> HIDE DEF m, k
  <2>4. (k * m) \div 200 \in 0..k
    BY <2>3, PartOf
  <2>5. QED
    BY <2>4 DEF m, k
<1>5. (3 * Half) \div (1 + h.distance) \in 0..(3 * Half)
  <2>1. 1 + h.distance \in Nat \ {0} /\ 1 \in 0..(1 + h.distance) /\ 3 * Half * 1 = 3 * Half
    BY <1>1, <1>2
  <2>2. (3 * Half * 1) \div (1 + h.distance) \in 0..(3 * Half)
    BY <1>1, <2>1, PartOf
  <2>3. QED
    BY <2>1, <2>2
<1>6. (2 * Half * Min({2, Preferences(s, h)})) \div 2 \in 0..(2 * Half)
  <2> DEFINE named == {p \in {"host", "device"} : s.preferred[p] # "" /\ h[p] = s.preferred[p]}
             carried == h.labels \cap ({s.preferred.label} \ {""})
  <2>1. IsFiniteSet(named) /\ IsFiniteSet(carried)
    <3>1. IsFiniteSet({"host", "device"}) /\ IsFiniteSet({s.preferred.label})
      <4>1. IsFiniteSet({"host"}) /\ {"host"} \cup {"device"} = {"host", "device"}
        BY FS_Singleton
      <4>2. IsFiniteSet({"host"} \cup {"device"}) /\ IsFiniteSet({s.preferred.label})
        BY <4>1, FS_Singleton, FS_AddElement, Zenon
      <4>3. QED
        BY <4>1, <4>2, Zenon
    <3>2. named \in SUBSET {"host", "device"} /\ carried \in SUBSET {s.preferred.label}
      OBVIOUS
    <3> HIDE DEF named, carried
    <3>3. QED
      BY <3>1, <3>2, FS_Subset, Zenon
  <2> HIDE DEF named, carried
  <2>2. Cardinality(named) \in Nat /\ Cardinality(carried) \in Nat
    BY <2>1, FS_CardinalityType
  <2>3. Preferences(s, h) = Cardinality(named) + Cardinality(carried)
    BY DEF Preferences, named, carried
  <2>4. Preferences(s, h) \in Nat
    BY <2>2, <2>3
  <2>5. \A x \in Nat : Min({2, x}) \in 0..2
    BY DEF Min
  <2> DEFINE m == Min({2, Preferences(s, h)})
             k == 2 * Half
  <2>6. m \in 0..2 /\ 2 \in Nat \ {0} /\ k \in Nat
    BY <1>1, <2>4, <2>5
  <2> HIDE DEF m, k
  <2>7. (k * m) \div 2 \in 0..k
    BY <2>6, PartOf
  <2>8. QED
    BY <2>7 DEF m, k
<1>7. (IF h.warm THEN 5 * Half ELSE 0) \in 0..(5 * Half)
  BY <1>1
<1>8. QED
  BY <1>3, <1>4, <1>5, <1>6, <1>7 DEF Factors, Weight

(* The scores are numbers. *)
LEMMA ScoreIsNatural ==
    ASSUME NEW s, NEW h, NEW placed, HostOK(h)
    PROVE  Total(Factors(s, h, placed)) \in Nat
<1> DEFINE f == Factors(s, h, placed)
<1>1. Half \in Nat
  BY PrecisionAssumption
<1>2. /\ f.free_memory \in Nat /\ f.capability \in Nat /\ f.warm \in Nat /\ f.locality \in Nat
      /\ f.preference \in Nat /\ f.diversity \in Nat
  BY <1>1, FactorBounds
<1> HIDE DEF f
<1>3. Total(f) \in Nat
  BY <1>2 DEF Total
<1>4. QED
  BY <1>3 DEF f

Passes(h) == HardReject(set, h) = ""

(* What a candidate says of its host. *)
LEMMA CandidateFacts ==
    ASSUME set \in Requirements, NEW h, HostOK(h)
    PROVE  LET c == Candidate(set, h, existing)
           IN /\ c.host = h /\ Rated(c)
              /\ c.eligible <=> Passes(h)
              /\ c.eligible => c.total = Score(h)
<1>1. h.key \in Nat
  BY DEF HostOK
<1>2. Score(h) \in Nat
  BY ScoreIsNatural DEF Score
<1>3. QED
  BY <1>1, <1>2 DEF Candidate, Score, Rated, Passes

(* A host that meets the constraints passes the filter; a host that passes  *)
(* meets them, unless the accelerators asked for are more than an int, and  *)
(* has the compute version in any case.                                     *)
LEMMA FilterFacts ==
    ASSUME set \in Requirements, NEW h, HostOK(h)
    PROVE  /\ Meets(h) => Passes(h)
           /\ Passes(h) /\ set.accelerators <= MaxInt => Meets(h)
           /\ Passes(h) => ~LowerCompute(h.compute, set.compat.min_compute)
<1>1. /\ h.free \in Nat /\ h.accelerators \in Nat /\ set.memory \in Nat
      /\ set.accelerators \in 0..(2 * MaxInt + 1) /\ MaxInt \in Nat
  BY RequirementAssumption DEF HostOK
<1>2. /\ ToInt(set.accelerators) \in Int
      /\ ToInt(set.accelerators) <= set.accelerators
      /\ set.accelerators <= MaxInt => ToInt(set.accelerators) = set.accelerators
  BY <1>1 DEF ToInt
<1>3. QED
  BY <1>1, <1>2 DEF HardReject, Meets, HasBackend, Passes

-----------------------------------------------------------------------------
(* The decision *)

Able == {h \in Range(hosts) : Passes(h)}

(* What place decides: a host that passes the filter and beats or ties      *)
(* with every other that does, or none only if there is none.               *)
LEMMA PlaceFacts ==
    ASSUME set \in Requirements, hosts \in HostVectors
    PROVE  LET d == Place(set, hosts, existing)
           IN /\ d.placed \in BOOLEAN
              /\ ~d.placed => Able = {}
              /\ d.placed =>
                    /\ d.chosen \in Able
                    /\ \A g \in Able : \/ Score(d.chosen) > Score(g)
                                       \/ Score(d.chosen) = Score(g) /\ d.chosen.key <= g.key
<1> DEFINE n == Len(hosts)
           sorted == Sorted(hosts)
           c == [i \in 1..n |-> Candidate(set, sorted[i], existing)]
           b == BestOf(c)[n]
<1>1. /\ DOMAIN hosts = 1..n /\ n \in Nat
      /\ \A i \in 1..n : HostOK(hosts[i])
      /\ \A i, j \in 1..n : hosts[i].key = hosts[j].key => i = j
  BY HostAssumption, Zenon
<1>2. \A i \in 1..n : hosts[i].key \in Nat
  BY <1>1 DEF HostOK
<1> HIDE DEF n
<1>3. /\ sorted = [i \in 1..n |-> sorted[i]]
      /\ \A i \in 1..n : \E j \in 1..n : sorted[i] = hosts[j]
      /\ \A j \in 1..n : \E i \in 1..n : sorted[i] = hosts[j]
  BY <1>1, <1>2, SortedFacts
<1> HIDE DEF sorted
<1>4. DOMAIN sorted = 1..n
  BY <1>3
<1>5. Len(c) = n /\ \A i \in 1..n : c[i] = Candidate(set, sorted[i], existing)
  BY <1>1
<1>6. \A i \in 1..n : HostOK(sorted[i])
  BY <1>1, <1>3
<1>7. Place(set, hosts, existing) = [placed |-> b.eligible, chosen |-> b.host, candidates |-> c]
  BY <1>4, <1>5 DEF Place, sorted
<1> HIDE DEF c
<1>8. \A i \in 1..n : /\ c[i].host = sorted[i] /\ Rated(c[i])
                      /\ c[i].eligible <=> Passes(sorted[i])
                      /\ c[i].eligible => c[i].total = Score(sorted[i])
  BY <1>5, <1>6, CandidateFacts
<1>9. BestAmong(b, c, n)
  BY <1>1, <1>5, <1>8, LoopResult
<1> HIDE DEF b
<1>10. ASSUME NEW g \in Able PROVE \E j \in 1..n : g = sorted[j] /\ c[j].eligible
  <2>1. PICK k \in 1..n : g = hosts[k]
    BY <1>1 DEF Able, Range
  <2>2. PICK j \in 1..n : sorted[j] = hosts[k]
    BY <1>3
  <2>3. c[j].eligible
    BY <1>8, <2>1, <2>2 DEF Able
  <2>4. QED
    BY <2>1, <2>2, <2>3
<1>11. CASE \E j \in 1..n : c[j].eligible
  <2>1. PICK i \in 1..n : b = c[i]
    BY <1>9, <1>11 DEF BestAmong
  <2>2. b.eligible /\ \A j \in 1..n : c[j].eligible => AsGood(b, c[j])
    BY <1>9, <1>11 DEF BestAmong
  <2>3. b.host = sorted[i] /\ Passes(b.host) /\ b.total = Score(b.host)
    BY <1>8, <2>1, <2>2
  <2>4. b.host \in Able
    <3>1. PICK j \in 1..n : sorted[i] = hosts[j]
      BY <1>3
    <3>2. QED
      BY <1>1, <2>3, <3>1 DEF Able, Range
  <2>5. ASSUME NEW g \in Able
        PROVE  \/ Score(b.host) > Score(g)
               \/ Score(b.host) = Score(g) /\ b.host.key <= g.key
    <3>1. PICK j \in 1..n : g = sorted[j] /\ c[j].eligible
      BY <1>10
    <3>2. c[j].host = g /\ c[j].total = Score(g) /\ AsGood(b, c[j])
      BY <1>8, <2>2, <3>1
    <3>3. QED
      BY <2>3, <3>2 DEF AsGood
  <2>6. QED
    BY <1>7, <2>2, <2>4, <2>5
<1>12. CASE ~\E j \in 1..n : c[j].eligible
  <2>1. b.eligible = FALSE
    <3>1. b = NoCandidate
      BY <1>9, <1>12 DEF BestAmong
    <3>2. NoCandidate.eligible = FALSE
      BY DEF NoCandidate
    <3>3. QED
      BY <3>1, <3>2, Zenon
  <2>2. Able = {}
    BY <1>10, <1>12
  <2>3. Place(set, hosts, existing).placed = FALSE
    BY <1>7, <2>1
  <2>4. QED
    BY <2>2, <2>3, Zenon
<1>13. QED
  BY <1>11, <1>12

(* The decision is made on what is there, and a replica is provisioned      *)
(* where a decision put it.                                                 *)
PInv ==
    /\ set \in Requirements /\ hosts \in HostVectors
    /\ decision \in {NoDecision, Place(set, hosts, existing)}
    /\ replica = NoCompatibility \/ \E h \in Able : replica = DerivedCompatibility(set, h)

(* PInv holds in every reachable state. *)
LEMMA PlacedInductive == Spec => []PInv
<1>1. Init => PInv
  BY DEF Init, PInv
<1>2. ASSUME PInv, [Next]_pvars PROVE PInv'
  <2>1. CASE PlaceReplica
    BY <1>2, <2>1 DEF PlaceReplica, PInv, Able, Passes
  <2>2. CASE Provision
    <3>1. ~NoDecision.placed
      BY DEF NoDecision
    <3>2. decision = Place(set, hosts, existing)
      BY <1>2, <2>2, <3>1 DEF Provision, PInv
    <3>3. decision.chosen \in Able
      BY <1>2, <2>2, <3>2, PlaceFacts DEF Provision, PInv
    <3>4. /\ decision' = NoDecision /\ UNCHANGED <<set, hosts>>
          /\ replica' = DerivedCompatibility(set, decision.chosen)
      BY <2>2 DEF Provision
    <3>5. Able' = Able
      BY <3>4 DEF Able, Passes
    <3>6. QED
      BY <1>2, <3>3, <3>4, <3>5 DEF PInv
  <2>3. CASE UNCHANGED pvars
    BY <1>2, <2>3 DEF pvars, PInv, Able, Passes
  <2>4. QED
    BY <1>2, <2>1, <2>2, <2>3 DEF Next
<1>3. QED
  BY <1>1, <1>2, PTL DEF Spec

(* ChosenIsBest: for any hosts, filter, score, sort and selection loop find *)
(* the best host that meets the constraints, the first by worker and device *)
(* among equals, and none only if there is none.                            *)
THEOREM PlacementChoosesBest == Spec => []ChosenIsBest
<1>1. PInv => ChosenIsBest
  <2> SUFFICES ASSUME PInv, decision # NoDecision, set.accelerators <= MaxInt PROVE ChosenIsBest
    BY DEF ChosenIsBest
  <2> DEFINE best == {h \in Able : \A g \in Able : Score(g) <= Score(h)}
  <2>1. decision = Place(set, hosts, existing) /\ set \in Requirements /\ hosts \in HostVectors
    BY DEF PInv
  <2>2. /\ ~decision.placed => Able = {}
        /\ decision.placed =>
              /\ decision.chosen \in Able
              /\ \A g \in Able : \/ Score(decision.chosen) > Score(g)
                                 \/ Score(decision.chosen) = Score(g) /\ decision.chosen.key <= g.key
    BY <2>1, PlaceFacts
  <2>3. \A h \in Able : Score(h) \in Nat
    <3> TAKE h \in Able
    <3>1. HostOK(h)
      BY <2>1, HostAssumption DEF Able, Range
    <3>2. QED
      BY <3>1, ScoreIsNatural DEF Score
  <2>4. Able # {} => decision.chosen \in best
    BY <2>2, <2>3
  <2>5. Able # {} => \A g \in best : decision.chosen.key <= g.key
    <3> SUFFICES ASSUME Able # {}, NEW g \in best PROVE decision.chosen.key <= g.key
      OBVIOUS
    <3>1. g \in Able /\ decision.chosen \in Able /\ Score(decision.chosen) <= Score(g)
      BY <2>2
    <3>2. ~(Score(decision.chosen) > Score(g))
      BY <2>3, <3>1
    <3>3. QED
      BY <2>2, <3>1, <3>2
  <2>6. Able = {} => ~decision.placed
    BY <2>2
  <2> HIDE DEF best
  <2>7. IF Able = {} THEN ~decision.placed
        ELSE decision.chosen \in best /\ \A g \in best : decision.chosen.key <= g.key
    BY <2>4, <2>5, <2>6
  <2>8. Able = {h \in Range(hosts) : Meets(h)}
    <3>1. \A h \in Range(hosts) : HostOK(h)
      BY <2>1, HostAssumption DEF Range
    <3>2. QED
      BY <2>1, <3>1, FilterFacts DEF Able
  <2>9. QED
    BY <2>7, <2>8 DEF ChosenIsBest, best
<1>2. QED
  BY <1>1, PlacedInductive, PTL

(* OrderIrrelevant: the decision and the list of candidates are the same    *)
(* for the same hosts in any other order.                                   *)
THEOREM PlacementIgnoresOrder == Spec => []OrderIrrelevant
<1>1. PInv => OrderIrrelevant
  <2> SUFFICES ASSUME PInv, decision # NoDecision,
                      NEW p \in Bijection(DOMAIN hosts, DOMAIN hosts)
               PROVE  Place(set, [i \in DOMAIN hosts |-> hosts[p[i]]], existing) = decision
    BY DEF OrderIrrelevant
  <2> DEFINE n == Len(hosts)
             gs == [i \in 1..n |-> hosts[p[i]]]
  <2>1. decision = Place(set, hosts, existing) /\ hosts \in HostVectors
    BY DEF PInv
  <2>2. /\ DOMAIN hosts = 1..n /\ n \in Nat
        /\ \A i \in 1..n : HostOK(hosts[i])
        /\ \A i, j \in 1..n : hosts[i].key = hosts[j].key => i = j
    BY <2>1, HostAssumption, Zenon
  <2>3. \A i \in 1..n : hosts[i].key \in Nat
    BY <2>2 DEF HostOK
  <2>4. p \in Bijection(1..n, 1..n)
    BY <2>2
  <2> HIDE DEF n
  <2>5. Sorted(gs) = Sorted(hosts)
    BY <2>2, <2>3, <2>4, SortedSame
  <2>6. Place(set, gs, existing) = Place(set, hosts, existing)
    <3> HIDE DEF gs
    <3>1. QED
      BY <2>5, Zenon DEF Place
  <2>7. QED
    BY <2>1, <2>2, <2>6
<1>2. QED
  BY <1>1, PlacedInductive, PTL

(* PlacedIsCompatible: what the engine lets through check_compatibility     *)
(* accepts of the data PROVISION derives, where the set asks for no minor   *)
(* compute version.                                                         *)
THEOREM PlacementIsCompatible == Spec => []PlacedIsCompatible
<1>1. PInv => PlacedIsCompatible
  <2> SUFFICES ASSUME PInv, replica # NoCompatibility, set.compat.min_compute[2] = 0
               PROVE  CheckCompatibility(set.compat, replica)
    BY DEF PlacedIsCompatible
  <2>1. set \in Requirements /\ hosts \in HostVectors
    BY DEF PInv
  <2>2. PICK h \in Able : replica = DerivedCompatibility(set, h)
    BY DEF PInv
  <2>3. HostOK(h) /\ Passes(h)
    BY <2>1, HostAssumption DEF Able, Range
  <2>4. h.compute \in Nat \X Nat /\ set.compat.min_compute \in Nat \X Nat
    BY <2>1, <2>3, RequirementAssumption DEF HostOK
  <2>5. /\ \A f \in DOMAIN IssueOf : replica[f] = set.compat[f]
        /\ replica.adapters = set.compat.required_adapters
        /\ replica.compute = <<h.compute[1], 0>>
    BY <2>2 DEF DerivedCompatibility, IssueOf
  <2>6. ~LowerCompute(replica.compute, set.compat.min_compute)
    BY <2>1, <2>3, <2>4, <2>5, FilterFacts DEF LowerCompute
  <2>7. QED
    BY <2>5, <2>6 DEF CheckCompatibility, Issues
<1>2. QED
  BY <1>1, PlacedInductive, PTL

(* Two of a set's members are two. *)
LEMMA TwoAtLeast ==
    ASSUME NEW S, IsFiniteSet(S), NEW x \in S, NEW y \in S, x # y
    PROVE  Cardinality(S) >= 2
<1>1. IsFiniteSet({x}) /\ Cardinality({x}) = 1
  BY FS_Singleton
<1>2. IsFiniteSet({x} \cup {y}) /\ Cardinality({x} \cup {y}) = 1 + 1
  BY <1>1, FS_AddElement
<1>3. {x} \cup {y} \in SUBSET S
  OBVIOUS
<1>4. Cardinality({x} \cup {y}) <= Cardinality(S) /\ Cardinality(S) \in Nat
  BY <1>3, FS_Subset, FS_CardinalityType
<1>5. QED
  BY <1>2, <1>4

(* DiversityDominates: at any precision, and whatever the policy prefers, a *)
(* host that shares a domain with a placed replica defeats one that does    *)
(* not only by two other factors, since none outweighs diversity alone.     *)
THEOREM AntiAffinityDominates == Spec => []DiversityDominates
<1>1. PInv => DiversityDominates
  <2> SUFFICES ASSUME PInv, decision.placed, SharesDomain(decision.chosen),
                      NEW h \in Range(hosts), Meets(h), ~SharesDomain(h)
               PROVE  Cardinality({f \in DOMAIN Weight :
                        Factors(set, decision.chosen, existing)[f] > Factors(set, h, existing)[f]}) >= 2
    BY DEF DiversityDominates
  <2> DEFINE mine == Factors(set, decision.chosen, existing)
             its == Factors(set, h, existing)
             ahead == {f \in DOMAIN Weight : mine[f] > its[f]}
  <2>1. ~NoDecision.placed
    BY DEF NoDecision
  <2>2. decision = Place(set, hosts, existing) /\ set \in Requirements /\ hosts \in HostVectors
    BY <2>1 DEF PInv
  <2>3. decision.chosen \in Able /\ h \in Able
    <3>1. HostOK(h)
      BY <2>2, HostAssumption DEF Range
    <3>2. Passes(h)
      BY <2>2, <3>1, FilterFacts
    <3>3. QED
      BY <2>2, <3>2, PlaceFacts DEF Able
  <2>4. Score(decision.chosen) >= Score(h)
    <3>1. HostOK(decision.chosen) /\ HostOK(h)
      BY <2>2, <2>3, HostAssumption DEF Able, Range
    <3>2. Score(decision.chosen) \in Nat /\ Score(h) \in Nat
      BY <3>1, ScoreIsNatural DEF Score
    <3>3. Score(decision.chosen) > Score(h) \/ Score(decision.chosen) = Score(h)
      BY <2>2, <2>3, PlaceFacts
    <3>4. QED
      BY <3>2, <3>3
  <2>5. Total(mine) >= Total(its)
    BY <2>4 DEF Score
  <2>6. /\ mine.free_memory \in 0..(6 * Half) /\ mine.capability \in 0..(4 * Half)
        /\ mine.warm \in 0..(5 * Half) /\ mine.locality \in 0..(3 * Half)
        /\ mine.preference \in 0..(2 * Half) /\ mine.diversity = 0
    <3>1. HostOK(decision.chosen)
      BY <2>2, <2>3, HostAssumption DEF Able, Range
    <3>2. QED
      BY <3>1, FactorBounds DEF SharesDomain
  <2>7. /\ its.free_memory \in 0..(6 * Half) /\ its.capability \in 0..(4 * Half)
        /\ its.warm \in 0..(5 * Half) /\ its.locality \in 0..(3 * Half)
        /\ its.preference \in 0..(2 * Half) /\ its.diversity = 8 * Half
    <3>1. HostOK(h)
      BY <2>2, <2>3, HostAssumption DEF Able, Range
    <3>2. QED
      BY <3>1, FactorBounds DEF SharesDomain
  <2> HIDE DEF mine, its
  <2>8. \E f, g \in ahead : f # g
    <3>1. Half \in Nat \ {0}
      BY PrecisionAssumption
    <3>2. ASSUME NEW a \in {"free_memory", "capability", "warm", "locality", "preference"},
                 \A f \in {"free_memory", "capability", "warm", "locality", "preference"} \ {a} :
                     mine[f] <= its[f]
          PROVE  FALSE
      <4>1. mine[a] - its[a] <= 6 * Half /\ mine[a] \in Nat /\ its[a] \in Nat
        BY <2>6, <2>7, <3>1, <3>2
      <4>2. Total(mine) - Total(its) <= 6 * Half - 8 * Half
        BY <2>6, <2>7, <3>1, <3>2, <4>1 DEF Total
      <4>3. QED
        BY <2>5, <2>6, <2>7, <3>1, <4>2 DEF Total
    <3>3. \A f \in {"free_memory", "capability", "warm", "locality", "preference"} :
             f \in ahead \/ mine[f] <= its[f]
      BY <2>6, <2>7, <3>1 DEF Weight
    <3>4. QED
      BY <3>2, <3>3
  <2>9. IsFiniteSet(ahead)
    <3>1. IsFiniteSet(DOMAIN Weight)
      <4>1. DOMAIN Weight = {"free_memory"} \cup {"capability"} \cup {"warm"} \cup {"locality"}
                            \cup {"diversity"} \cup {"preference"}
        BY DEF Weight
      <4>2. IsFiniteSet({"free_memory"} \cup {"capability"})
        BY FS_Singleton, FS_AddElement, Zenon
      <4>3. IsFiniteSet({"free_memory"} \cup {"capability"} \cup {"warm"})
        BY <4>2, FS_AddElement, Zenon
      <4>4. IsFiniteSet({"free_memory"} \cup {"capability"} \cup {"warm"} \cup {"locality"})
        BY <4>3, FS_AddElement, Zenon
      <4>5. IsFiniteSet({"free_memory"} \cup {"capability"} \cup {"warm"} \cup {"locality"}
                        \cup {"diversity"})
        BY <4>4, FS_AddElement, Zenon
      <4>6. IsFiniteSet({"free_memory"} \cup {"capability"} \cup {"warm"} \cup {"locality"}
                        \cup {"diversity"} \cup {"preference"})
        BY <4>5, FS_AddElement, Zenon
      <4>7. QED
        BY <4>1, <4>6, Zenon
    <3>2. QED
      BY <3>1, FS_Subset
  <2>10. Cardinality(ahead) >= 2
    <3> HIDE DEF ahead
    <3>1. QED
      BY <2>8, <2>9, TwoAtLeast
  <2>11. QED
    BY <2>10 DEF mine, its
<1>2. QED
  BY <1>1, PlacedInductive, PTL
=============================================================================
