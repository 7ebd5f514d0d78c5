----------------------------- MODULE CycleProofs -----------------------------
(***************************************************************************)
(* detect_cycle is right about every finite graph.  Both sides of          *)
(* CyclesAreDetected are recursive functions, so each is first shown to be *)
(* what a definition without recursion says: peeling leaves the greatest   *)
(* part of the graph without a root (Core), walks are sequences of edges   *)
(* (Paths).  A function that satisfies the recursion exists because the    *)
(* closed form does, and it is the only one because sets of nodes and      *)
(* numbers are well founded.  In a part without a root, the first node of  *)
(* a longest path that repeats no node has a predecessor on the path.      *)
(***************************************************************************)
EXTENDS WorkflowProofs, FiniteSetTheorems, WellFoundedInduction

-----------------------------------------------------------------------------
(* Numbers                                                                   *)

\* A set of numbers has a least one: its smallest initial segment ends there.
LEMMA LeastNumber ==
  ASSUME NEW S \in SUBSET Nat, S # {}
  PROVE  \E n \in S : \A m \in S : n <= m
<1>1. PICK b \in S : TRUE
  OBVIOUS
<1> DEFINE Segments == {0..m : m \in {k \in S : k <= b}}
<1>2. IsWellFoundedOn(StrictSubsetOrdering(0..b), SUBSET (0..b))
  <2>1. b \in Int /\ 0 \in Int
    OBVIOUS
  <2>2. IsFiniteSet(0..b)
    BY <2>1, FS_Interval
  <2> QED BY <2>2, FS_StrictSubsetOrderingWellFounded, FS_FiniteSubsetsOfFinite
<1>3. Segments \subseteq SUBSET (0..b) /\ Segments # {}
  OBVIOUS
<1>4. PICK T \in Segments : \A U \in Segments : <<U, T>> \notin StrictSubsetOrdering(0..b)
  <2> HIDE DEF Segments
  <2> QED BY <1>2, <1>3, WFMin
<1>5. PICK n \in S : n <= b /\ T = 0..n
  BY <1>4
<1>6. ASSUME NEW m \in S, m < n PROVE FALSE
  <2>1. 0..m \in Segments /\ 0..m \in SUBSET (0..b)
    BY <1>5, <1>6
  <2>2. 0..m \subseteq T /\ 0..m # T
    <3>1. n \in T /\ n \notin 0..m
      BY <1>5, <1>6
    <3> QED BY <1>5, <1>6, <3>1
  <2>3. <<0..m, T>> \in StrictSubsetOrdering(0..b)
    BY <1>3, <1>4, <2>1, <2>2 DEF StrictSubsetOrdering
  <2> QED BY <1>4, <2>1, <2>3
<1> QED BY <1>5, <1>6

\* A bounded set of numbers has a greatest one.
LEMMA GreatestNumber ==
  ASSUME NEW S \in SUBSET Nat, S # {}, NEW b \in Nat, \A m \in S : m <= b
  PROVE  \E n \in S : \A m \in S : m <= n
<1> DEFINE T == {b - m : m \in S}
<1>1. T \in SUBSET Nat /\ T # {}
  <2>1. \A m \in S : m \in Nat /\ b - m \in Nat
    OBVIOUS
  <2> QED BY <2>1
<1>2. PICK d \in T : \A e \in T : d <= e
  <2> HIDE DEF T
  <2> QED BY <1>1, LeastNumber
<1>3. PICK n \in S : d = b - n
  BY <1>2
<1>4. ASSUME NEW m \in S PROVE m <= n
  <2>1. b - m \in T
    OBVIOUS
  <2>2. d <= b - m
    BY <1>2, <2>1
  <2> QED BY <1>3, <2>2
<1> QED BY <1>4
-----------------------------------------------------------------------------
(* Peeling                                                                   *)

Roots(left) == {n \in left : Upstream(n) \cap left = {}}

\* One round of Kahn's algorithm, with h for the rounds that follow.
Round(h, left) == IF Roots(left) = {} THEN left ELSE h[left \ Roots(left)]

Rootless(C) == \A n \in C : Upstream(n) \cap C # {}

\* The greatest part of S without a root.
Core(S) == UNION {C \in SUBSET S : Rootless(C)}

\* The core is such a part.
LEMMA CoreIsRootless ==
  ASSUME NEW S
  PROVE  Core(S) \subseteq S /\ Rootless(Core(S))
<1>1. ASSUME NEW n \in Core(S) PROVE n \in S /\ Upstream(n) \cap Core(S) # {}
  <2>1. PICK C \in SUBSET S : Rootless(C) /\ n \in C
    BY <1>1 DEF Core
  <2>2. C \subseteq Core(S)
    BY <2>1 DEF Core
  <2> QED BY <2>1, <2>2 DEF Rootless
<1> QED BY <1>1 DEF Rootless

\* A round takes nothing of the core away.
LEMMA RoundKeepsCore ==
  ASSUME NEW S
  PROVE  /\ Roots(S) = {} => Core(S) = S
         /\ Core(S \ Roots(S)) = Core(S)
<1>1. ASSUME Roots(S) = {} PROVE Core(S) = S
  <2>1. Rootless(S)
    BY <1>1 DEF Roots, Rootless
  <2> QED BY <2>1 DEF Core
<1>2. ASSUME NEW C \in SUBSET S, Rootless(C) PROVE C \in SUBSET (S \ Roots(S))
  BY <1>2 DEF Roots, Rootless
<1>3. Core(S \ Roots(S)) = Core(S)
  BY <1>2 DEF Core
<1> QED BY <1>1, <1>3

\* Peel satisfies its recursion, because the core does.
LEMMA PeelIsDefined ==
  Peel = [left \in SUBSET Nodes |-> Round(Peel, left)]
<1> DEFINE g == [left \in SUBSET Nodes |-> Core(left)]
           Solves(h) == h = [left \in SUBSET Nodes |-> Round(h, left)]
<1>1. Solves(g)
  <2>1. ASSUME NEW left \in SUBSET Nodes PROVE Core(left) = Round(g, left)
    <3>1. left \ Roots(left) \in SUBSET Nodes
      OBVIOUS
    <3> QED BY <3>1, RoundKeepsCore DEF Round
  <2> QED BY <2>1
<1>2. Peel = CHOOSE h : Solves(h)
  BY DEF Peel, Round, Roots
<1> HIDE DEF g, Solves
<1>3. Solves(CHOOSE h : Solves(h))
  BY <1>1
<1> QED BY <1>2, <1>3 DEF Solves

\* What is left of a part of the graph is its core.
LEMMA PeelsToCore ==
  ASSUME NEW S \in SUBSET Nodes
  PROVE  Peel[S] = Core(S)
<1> DEFINE Wrong == {T \in SUBSET Nodes : Peel[T] # Core(T)}
<1> SUFFICES ASSUME Wrong # {} PROVE FALSE
  OBVIOUS
<1>1. IsWellFoundedOn(StrictSubsetOrdering(Nodes), SUBSET Nodes)
  BY NodeAssumption, FS_StrictSubsetOrderingWellFounded, FS_FiniteSubsetsOfFinite
<1>2. PICK T \in Wrong : \A U \in Wrong : <<U, T>> \notin StrictSubsetOrdering(Nodes)
  <2>1. Wrong \subseteq SUBSET Nodes
    OBVIOUS
  <2> HIDE DEF Wrong
  <2> QED BY <1>1, <2>1, WFMin
<1>3. Peel[T] = Round(Peel, T)
  BY PeelIsDefined
<1>4. CASE Roots(T) = {}
  BY <1>2, <1>3, <1>4, RoundKeepsCore DEF Round
<1>5. CASE Roots(T) # {}
  <2> DEFINE U == T \ Roots(T)
  <2>1. <<U, T>> \in StrictSubsetOrdering(Nodes) /\ U \in SUBSET Nodes
    BY <1>5 DEF StrictSubsetOrdering, Roots
  <2>2. Peel[U] = Core(U)
    BY <1>2, <2>1
  <2> QED BY <1>2, <1>3, <1>5, <2>2, RoundKeepsCore DEF Round
<1> QED BY <1>4, <1>5
-----------------------------------------------------------------------------
(* Walks                                                                     *)

\* The paths of m edges.
Paths(m) ==
  {p \in [0..m -> Nodes] : \A i \in 0..(m - 1) : <<p[i], p[i + 1]>> \in edges}

\* The ends of paths of one to k + 1 edges.
EndsUpTo(k) ==
  {e \in Nodes \X Nodes : \E m \in 1..(k + 1) : \E p \in Paths(m) : p[0] = e[1] /\ p[m] = e[2]}

\* Walks a, b followed by one edge.
Longer(W) ==
  {<<p[1][1], p[2][2]>> : p \in {q \in W \X edges : q[1][2] = q[2][1]}}

Lengthen(h, k) == IF k = 0 THEN edges ELSE h[k - 1] \cup Longer(h[k - 1])

\* Paths of one edge are edges.
LEMMA ShortestPaths ==
  ASSUME edges \subseteq Nodes \X Nodes
  PROVE  EndsUpTo(0) = edges
<1>1. ASSUME NEW e \in EndsUpTo(0) PROVE e \in edges
  <2>1. PICK m \in 1..1 : \E p \in Paths(m) : p[0] = e[1] /\ p[m] = e[2]
    BY DEF EndsUpTo
  <2>2. PICK p \in Paths(1) : p[0] = e[1] /\ p[1] = e[2]
    BY <2>1
  <2>3. <<p[0], p[1]>> \in edges
    BY DEF Paths
  <2>4. e = <<e[1], e[2]>>
    BY DEF EndsUpTo
  <2> QED BY <2>2, <2>3, <2>4
<1>2. ASSUME NEW e \in edges PROVE e \in EndsUpTo(0)
  <2>1. e \in Nodes \X Nodes /\ e = <<e[1], e[2]>>
    OBVIOUS
  <2> DEFINE p == [i \in 0..1 |-> IF i = 0 THEN e[1] ELSE e[2]]
  <2>2. p \in [0..1 -> Nodes] /\ p[0] = e[1] /\ p[1] = e[2]
    BY <2>1
  <2>3. \A i \in 0..(1 - 1) : <<p[i], p[i + 1]>> \in edges
    BY <2>1, <2>2
  <2>4. p \in Paths(1)
    BY <2>2, <2>3 DEF Paths
  <2> HIDE DEF p
  <2>5. 1 \in 1..(0 + 1)
    OBVIOUS
  <2> QED BY <2>1, <2>2, <2>4, <2>5 DEF EndsUpTo
<1> QED BY <1>1, <1>2

\* Paths of up to k + 1 edges are those of up to k, and one edge more.
LEMMA LongerPaths ==
  ASSUME edges \subseteq Nodes \X Nodes, NEW k \in Nat \ {0}
  PROVE  EndsUpTo(k) = EndsUpTo(k - 1) \cup Longer(EndsUpTo(k - 1))
<1>1. EndsUpTo(k - 1) \subseteq EndsUpTo(k)
  BY DEF EndsUpTo
<1>2. ASSUME NEW e \in Longer(EndsUpTo(k - 1)) PROVE e \in EndsUpTo(k)
  <2>1. PICK a \in EndsUpTo(k - 1), b \in edges : a[2] = b[1] /\ e = <<a[1], b[2]>>
    BY <1>2 DEF Longer
  <2>2. PICK m \in 1..k : \E p \in Paths(m) : p[0] = a[1] /\ p[m] = a[2]
    BY <2>1 DEF EndsUpTo
  <2>p. PICK p \in Paths(m) : p[0] = a[1] /\ p[m] = a[2]
    BY <2>2
  <2> DEFINE r == [i \in 0..(m + 1) |-> IF i = m + 1 THEN b[2] ELSE p[i]]
  <2>3. b = <<b[1], b[2]>> /\ b[2] \in Nodes /\ p \in [0..m -> Nodes]
    BY <2>1, <2>p DEF Paths
  <2>4. r \in [0..(m + 1) -> Nodes]
    BY <2>3
  <2>5. ASSUME NEW i \in 0..((m + 1) - 1) PROVE <<r[i], r[i + 1]>> \in edges
    <3>1. CASE i = m
      <4>1. r[i] = p[m] /\ r[i + 1] = b[2]
        BY <3>1
      <4> QED BY <2>1, <2>p, <2>3, <4>1
    <3>2. CASE i \in 0..(m - 1)
      <4>1. r[i] = p[i] /\ r[i + 1] = p[i + 1]
        BY <3>2
      <4> QED BY <2>p, <3>2, <4>1 DEF Paths
    <3> QED BY <3>1, <3>2
  <2>6. r[0] = a[1] /\ r[m + 1] = b[2]
    BY <2>p
  <2>7. r \in Paths(m + 1)
    BY <2>4, <2>5 DEF Paths
  <2>8. e \in Nodes \X Nodes /\ e[1] = a[1] /\ e[2] = b[2]
    BY <2>1, <2>3 DEF EndsUpTo
  <2>9. m + 1 \in 1..(k + 1)
    OBVIOUS
  <2> HIDE DEF r
  <2> QED BY <2>6, <2>7, <2>8, <2>9 DEF EndsUpTo
<1>3. ASSUME NEW e \in EndsUpTo(k), e \notin EndsUpTo(k - 1)
      PROVE  e \in Longer(EndsUpTo(k - 1))
  <2>1. PICK m \in 1..(k + 1) : \E p \in Paths(m) : p[0] = e[1] /\ p[m] = e[2]
    BY <1>3 DEF EndsUpTo
  <2>p. PICK p \in Paths(m) : p[0] = e[1] /\ p[m] = e[2]
    BY <2>1
  <2>2. m = k + 1
    BY <1>3, <2>p DEF EndsUpTo
  <2> DEFINE r == [i \in 0..k |-> p[i]]
  <2>3. p \in [0..(k + 1) -> Nodes] /\ \A i \in 0..k : <<p[i], p[i + 1]>> \in edges
    BY <2>p, <2>2 DEF Paths
  <2>4. r \in Paths(k) /\ r[0] = p[0] /\ r[k] = p[k]
    BY <2>3 DEF Paths
  <2>5. <<p[0], p[k]>> \in EndsUpTo(k - 1)
    <3>1. <<p[0], p[k]>> \in Nodes \X Nodes /\ k \in 1..((k - 1) + 1)
      BY <2>3
    <3> HIDE DEF r
    <3> QED BY <2>4, <3>1 DEF EndsUpTo
  <2>6. <<p[k], p[k + 1]>> \in edges
    BY <2>3
  <2>7. e = <<p[0], p[k + 1]>>
    BY <1>3, <2>p, <2>2 DEF EndsUpTo
  <2> DEFINE q == <<<<p[0], p[k]>>, <<p[k], p[k + 1]>>>>
  <2>8. q \in EndsUpTo(k - 1) \X edges /\ q[1][2] = q[2][1] /\ e = <<q[1][1], q[2][2]>>
    BY <2>5, <2>6, <2>7
  <2> HIDE DEF q
  <2> QED BY <2>8 DEF Longer
<1> QED BY <1>1, <1>2, <1>3

\* Walks satisfies its recursion, because the paths do.
LEMMA WalksAreDefined ==
  ASSUME edges \subseteq Nodes \X Nodes
  PROVE  Walks = [k \in Nat |-> Lengthen(Walks, k)]
<1> DEFINE g == [k \in Nat |-> EndsUpTo(k)]
           Solves(h) == h = [k \in Nat |-> Lengthen(h, k)]
<1>1. Solves(g)
  <2>1. ASSUME NEW k \in Nat PROVE EndsUpTo(k) = Lengthen(g, k)
    <3>1. CASE k = 0
      BY <3>1, ShortestPaths DEF Lengthen
    <3>2. CASE k # 0
      <4>1. k - 1 \in Nat
        BY <3>2
      <4>2. g[k - 1] = EndsUpTo(k - 1)
        BY <4>1
      <4> HIDE DEF g
      <4> QED BY <3>2, <4>2, LongerPaths DEF Lengthen
    <3> QED BY <3>1, <3>2
  <2> QED BY <2>1
<1>2. Walks = CHOOSE h : Solves(h)
  BY DEF Walks, Lengthen, Longer
<1> HIDE DEF g, Solves
<1>3. Solves(CHOOSE h : Solves(h))
  BY <1>1
<1> QED BY <1>2, <1>3 DEF Solves

\* Walks are the ends of paths.
LEMMA WalksArePaths ==
  ASSUME edges \subseteq Nodes \X Nodes, NEW k \in Nat
  PROVE  Walks[k] = EndsUpTo(k)
<1> DEFINE Wrong == {m \in Nat : Walks[m] # EndsUpTo(m)}
<1> SUFFICES ASSUME Wrong # {} PROVE FALSE
  OBVIOUS
<1>1. PICK n \in Wrong : \A m \in Wrong : n <= m
  <2>1. Wrong \in SUBSET Nat
    OBVIOUS
  <2> HIDE DEF Wrong
  <2> QED BY <2>1, LeastNumber
<1>2. Walks[n] = Lengthen(Walks, n)
  BY WalksAreDefined
<1>3. CASE n = 0
  BY <1>1, <1>2, <1>3, ShortestPaths DEF Lengthen
<1>4. CASE n # 0
  <2>1. n - 1 \in Nat /\ n - 1 \notin Wrong
    BY <1>1, <1>4
  <2>2. Walks[n - 1] = EndsUpTo(n - 1)
    BY <2>1
  <2> QED BY <1>1, <1>2, <1>4, <2>2, LongerPaths DEF Lengthen
<1> QED BY <1>3, <1>4
-----------------------------------------------------------------------------
(* Cycles                                                                    *)

\* The nodes of a path that ends where it began have each other.
LEMMA CycleIsInCore ==
  ASSUME edges \subseteq Nodes \X Nodes, NEW m \in Nat \ {0}, NEW p \in Paths(m), p[0] = p[m]
  PROVE  p[0] \in Core(Nodes)
<1> DEFINE C == {p[i] : i \in 0..m}
<1>1. p \in [0..m -> Nodes] /\ \A i \in 0..(m - 1) : <<p[i], p[i + 1]>> \in edges
  BY DEF Paths
<1>2. C \in SUBSET Nodes /\ p[0] \in C
  BY <1>1
<1>3. ASSUME NEW i \in 0..m PROVE \E u \in C : <<u, p[i]>> \in edges
  <2>1. CASE i = 0
    <3>1. <<p[m - 1], p[(m - 1) + 1]>> \in edges /\ p[m - 1] \in C /\ (m - 1) + 1 = m
      BY <1>1
    <3> QED BY <2>1, <3>1
  <2>2. CASE i # 0
    <3>1. <<p[i - 1], p[(i - 1) + 1]>> \in edges /\ p[i - 1] \in C /\ (i - 1) + 1 = i
      BY <1>1, <2>2
    <3> QED BY <3>1
  <2> QED BY <2>1, <2>2
<1>4. ASSUME NEW n \in C PROVE Upstream(n) \cap C # {}
  <2>1. PICK i \in 0..m : n = p[i]
    OBVIOUS
  <2>2. PICK u \in C : <<u, n>> \in edges
    BY <1>3, <2>1
  <2> QED BY <1>2, <2>2 DEF Upstream
<1> HIDE DEF C
<1>5. Rootless(C)
  BY <1>4 DEF Rootless
<1> QED BY <1>2, <1>5 DEF Core

\* A longest path through the core that repeats no node runs into itself when
\* it is extended at its head.
LEMMA CoreHasCycle ==
  ASSUME edges \subseteq Nodes \X Nodes, Core(Nodes) # {}
  PROVE  \E n \in Nodes : <<n, n>> \in EndsUpTo(Cardinality(Nodes))
<1> DEFINE C == Core(Nodes)
           Simple(p, m) == /\ p \in Paths(m) /\ \A i \in 0..m : p[i] \in C
                           /\ \A i, k \in 0..m : p[i] = p[k] => i = k
           Lengths == {m \in Nat : \E p : Simple(p, m)}
           N == Cardinality(Nodes)
<1>1. C \subseteq Nodes /\ Rootless(C)
  BY CoreIsRootless
<1>2. N \in Nat
  BY NodeAssumption, FS_CardinalityType
<1>3. ASSUME NEW m \in Nat, NEW p, Simple(p, m) PROVE m + 1 <= N
  <2>1. p \in Injection(0..m, Nodes)
    BY <1>3 DEF Paths, Injection, IsInjective
  <2>2. Cardinality(0..m) <= N
    BY <2>1, NodeAssumption, FS_Injection
  <2>3. Cardinality(0..m) = m + 1
    BY FS_Interval
  <2> QED BY <2>2, <2>3
<1>4. 0 \in Lengths
  <2>1. PICK c \in C : c \in Nodes
    BY <1>1
  <2> DEFINE p == [i \in 0..0 |-> c]
  <2>2. p \in Paths(0)
    BY <2>1 DEF Paths
  <2> QED BY <2>2
<1>5. PICK m \in Lengths : \A k \in Lengths : k <= m
  <2>1. Lengths \in SUBSET Nat /\ Lengths # {}
    BY <1>4
  <2>2. \A k \in Lengths : k <= N
    BY <1>2, <1>3
  <2> HIDE DEF Lengths, N
  <2> QED BY <1>2, <2>1, <2>2, GreatestNumber
<1>6. PICK p : Simple(p, m)
  BY <1>5
<1>7. /\ m \in Nat /\ p \in [0..m -> Nodes] /\ \A i \in 0..m : p[i] \in C
      /\ \A i \in 0..(m - 1) : <<p[i], p[i + 1]>> \in edges
      /\ \A i, k \in 0..m : p[i] = p[k] => i = k
  BY <1>6 DEF Paths
<1>8. PICK u \in C : <<u, p[0]>> \in edges /\ u \in Nodes
  <2>1. p[0] \in C
    BY <1>7
  <2> QED BY <1>1, <2>1 DEF Rootless, Upstream
\* Otherwise the path could be extended.
<1>9. PICK i \in 0..m : u = p[i]
  <2> SUFFICES ASSUME \A i \in 0..m : u # p[i] PROVE FALSE
    OBVIOUS
  <2> DEFINE r == [i \in 0..(m + 1) |-> IF i = 0 THEN u ELSE p[i - 1]]
  <2>1. \A i \in 1..(m + 1) : i - 1 \in 0..m /\ r[i] = p[i - 1]
    BY <1>7
  <2>2. r[0] = u
    BY <1>7
  <2>3. r \in [0..(m + 1) -> Nodes] /\ \A i \in 0..(m + 1) : r[i] \in C
    BY <1>7, <1>8
  <2>4. ASSUME NEW i \in 0..((m + 1) - 1) PROVE <<r[i], r[i + 1]>> \in edges
    <3>1. CASE i = 0
      <4>1. r[i] = u /\ r[i + 1] = p[0]
        BY <1>7, <3>1
      <4> QED BY <1>8, <4>1
    <3>2. CASE i # 0
      <4>1. r[i] = p[i - 1] /\ r[i + 1] = p[(i - 1) + 1] /\ i - 1 \in 0..(m - 1)
        BY <1>7, <3>2
      <4> QED BY <1>7, <4>1
    <3> QED BY <3>1, <3>2
  <2>5. r \in Paths(m + 1)
    BY <2>3, <2>4 DEF Paths
  <2> HIDE DEF r
  <2>6. ASSUME NEW i \in 0..(m + 1), NEW k \in 0..(m + 1), r[i] = r[k] PROVE i = k
    <3>1. CASE i = 0 \/ k = 0
      <4>1. \A l \in 1..(m + 1) : r[l] # u
        BY <2>1
      <4> QED BY <1>7, <2>2, <2>6, <3>1, <4>1
    <3>2. CASE i # 0 /\ k # 0
      <4>1. i \in 1..(m + 1) /\ k \in 1..(m + 1)
        BY <1>7, <3>2
      <4>2. i - 1 = k - 1
        BY <1>7, <2>1, <2>6, <4>1
      <4> QED BY <1>7, <4>2
    <3> QED BY <3>1, <3>2
  <2>7. m + 1 \in Lengths
    BY <1>7, <2>3, <2>5, <2>6
  <2> QED BY <1>5, <1>7, <2>7
<1> DEFINE s == [k \in 0..(i + 1) |-> IF k = i + 1 THEN p[0] ELSE p[k]]
<1>10. s \in [0..(i + 1) -> Nodes] /\ s[0] = p[0] /\ s[i + 1] = p[0]
  BY <1>7
<1>11. ASSUME NEW k \in 0..((i + 1) - 1) PROVE <<s[k], s[k + 1]>> \in edges
  <2>1. CASE k = i
    <3>1. s[k] = p[i] /\ s[k + 1] = p[0]
      BY <1>7, <2>1
    <3> QED BY <1>8, <1>9, <3>1
  <2>2. CASE k # i
    <3>1. s[k] = p[k] /\ s[k + 1] = p[k + 1] /\ k \in 0..(m - 1)
      BY <1>7, <2>2
    <3> QED BY <1>7, <3>1
  <2> QED BY <2>1, <2>2
<1>12. s \in Paths(i + 1)
  BY <1>10, <1>11 DEF Paths
<1>13. i + 1 \in 1..(N + 1) /\ p[0] \in Nodes
  <2>1. m + 1 <= N
    BY <1>3, <1>6, <1>7
  <2> QED BY <1>2, <1>7, <2>1
<1> HIDE DEF s, N
<1>14. <<p[0], p[0]>> \in EndsUpTo(N)
  BY <1>10, <1>12, <1>13 DEF EndsUpTo
<1> QED BY <1>13, <1>14 DEF N

\* detect_cycle finds exactly the graphs in which a node reaches itself, of any
\* finite size: what Kahn's algorithm leaves over is not empty if and only if
\* there is a walk from a node to itself.
THEOREM Detected == Spec => []CyclesAreDetected
<1>1. ASSUME TypeOK PROVE CyclesAreDetected
  <2>1. edges \subseteq Nodes \X Nodes /\ Cardinality(Nodes) \in Nat
    BY <1>1, NodeAssumption, FS_CardinalityType DEF TypeOK
  <2>2. HasCycle <=> Core(Nodes) # {}
    BY PeelsToCore DEF HasCycle
  <2>3. Walks[Cardinality(Nodes)] = EndsUpTo(Cardinality(Nodes))
    BY <2>1, WalksArePaths
  <2>4. ASSUME NEW n \in Nodes, <<n, n>> \in EndsUpTo(Cardinality(Nodes))
        PROVE  Core(Nodes) # {}
    <3>1. PICK m \in 1..(Cardinality(Nodes) + 1) :
            \E p \in Paths(m) : p[0] = n /\ p[m] = n
      BY <2>4 DEF EndsUpTo
    <3>2. PICK p \in Paths(m) : p[0] = p[m]
      BY <3>1
    <3> QED BY <2>1, <3>2, CycleIsInCore
  <2> QED BY <2>1, <2>2, <2>3, <2>4, CoreHasCycle DEF CyclesAreDetected
<1> QED BY <1>1, TypeCorrect, PTL
-----------------------------------------------------------------------------
(* A workflow does not stall                                                 *)

\* The rows of a graph are linked only if it has no cycle, and the graph of a
\* workflow never changes.
LinksNoCycle == linked => Core(Nodes) = {}

LEMMA NoCycleIsLinked == Spec => []LinksNoCycle
<1>1. Init => LinksNoCycle
  BY DEF Init, LinksNoCycle
<1>2. LinksNoCycle /\ [Next]_vars => LinksNoCycle'
  <2> SUFFICES ASSUME LinksNoCycle, [Next]_vars PROVE LinksNoCycle'
    OBVIOUS
  <2>1. edges' = edges /\ (linked' => linked \/ ~HasCycle)
    <3>1. CASE UNCHANGED vars
      BY <3>1 DEF vars
    <3>2. ASSUME NEW n \in Nodes, CreateNode(n) \/ End(n) \/ CancelBeforeStart(n) \/ Retry(n) \/ Crash(n)
          PROVE  edges' = edges /\ linked' = linked
      BY <3>2 DEF CreateNode, End, CancelBeforeStart, Retry, Crash
    <3>3. CASE Link
      BY <3>3 DEF Link
    <3>4. ASSUME NEW r \in Nodes, ResolverStep(r)
          PROVE  edges' = edges /\ linked' = linked
      BY <3>4 DEF ResolverStep, ReadDependents, ReadDependent, Resolve, ReadWorkflow, CommitWorkflow
    <3> QED BY <3>1, <3>2, <3>3, <3>4 DEF Next
  <2>2. ~HasCycle => Core(Nodes) = {}
    BY PeelsToCore DEF HasCycle
  <2>3. Core(Nodes)' = Core(Nodes)
    BY <2>1 DEF Core, Rootless, Upstream
  <2> QED BY <2>1, <2>2, <2>3 DEF LinksNoCycle
<1> QED BY <1>1, <1>2, PTL DEF Spec

\* If jobs of a graph without a cycle wait, one of them waits for none of the
\* others.
LEMMA SomeWaitForNone ==
  ASSUME Core(Nodes) = {}, NEW B \in SUBSET Nodes, B # {}
  PROVE  \E d \in B : Upstream(d) \cap B = {}
<1>1. ~Rootless(B)
  BY DEF Core
<1> QED BY <1>1 DEF Rootless

\* A workflow of any size, of any graph, does not come to rest with a job that
\* has not ended, unless the end of a job was not passed on: detect_cycle lets
\* no jobs wait for each other, and of those that wait the first ones in the
\* graph are released by the resolver of whichever upstream job ends last.
THEOREM NeverStalls == Spec => []WorkflowsDoNotStall
<1>1. ASSUME Inv, LinksNoCycle, NoReleaseIsLost PROVE WorkflowsDoNotStall
  <2> DEFINE B == {n \in Nodes : state[n] = "BLOCKED"}
  <2> SUFFICES ASSUME linked, NEW n \in Nodes, state[n] \notin Ended,
                      unresolved = {}, \A m \in Nodes : state[m] # "open" /\ res[m] = <<>>
               PROVE  FALSE
    BY DEF WorkflowsDoNotStall
  <2>1. \A m \in Nodes : state[m] \in Ended \cup {"BLOCKED"}
    BY <1>1 DEF Inv, TypeOK, LinkInv
  <2>2. PICK d \in B : Upstream(d) \cap B = {}
    BY <1>1, <2>1, SomeWaitForNone DEF LinksNoCycle
  <2>3. \A u \in Upstream(d) : state[u] \in Ended
    BY <2>1, <2>2 DEF Upstream
  <2>4. Verdict(d) # "BLOCKED"
    BY <1>1, <2>2, <2>3, VerdictDecides DEF Decided, Ended, Inv
  <2>5. PICK u \in Upstream(d) : WillVisit(u, d)
    BY <1>1, <2>2, <2>4 DEF NoReleaseIsLost
  <2>6. PICK r \in Nodes : \E i \in DOMAIN res[r] : TRUE
    BY <2>5 DEF WillVisit
  <2> QED BY <2>6
<1> QED BY <1>1, Invariance, NoCycleIsLinked, NoneLost, PTL
=============================================================================
