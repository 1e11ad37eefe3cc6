--------------------------- MODULE ScenarioRunProofs ---------------------------
(***************************************************************************)
(* Proofs about ScenarioRun, for every graph, every list of signals, every *)
(* decision and every result of the propagation engine: what validation    *)
(* rejects, how signals become an incident and its blast radius, what the  *)
(* memoised capacity flow computes, what the two searches for containment  *)
(* actions find, and what the case says of all that.                       *)
(***************************************************************************)
EXTENDS ScenarioRun, FiniteSetTheorems, SequenceTheorems, WellFoundedInduction, TLAPS

(* Facts about numbers *)

\* Every nonempty set of naturals has a least element.
LEMMA Least ==
    ASSUME NEW S, S \subseteq Nat, S # {}
    PROVE  \E m \in S : \A n \in S : m <= n
<1>1. PICK m \in S : \A n \in S : ~ (<<n, m>> \in OpToRel(<, Nat))
  BY NatLessThanWellFounded, WFMin
<1>2. \A n \in S : ~ (n < m)
  BY <1>1 DEF OpToRel
<1>3. QED
  BY <1>2

\* Max is the greatest element of a set of numbers of an interval.
LEMMA MaxIsGreatest ==
    ASSUME NEW n \in Nat, NEW S \in SUBSET (1 .. n), S # {}
    PROVE  Max(S) \in S /\ \A k \in S : k <= Max(S)
<1> DEFINE T == {n - k : k \in S}
<1>1. T \subseteq Nat /\ T # {}
  <2>1. \A k \in S : n - k \in Nat
    OBVIOUS
  <2>2. T \subseteq Nat
    BY <2>1, Zenon
  <2>3. QED
    BY <2>2
<1>2. PICK t \in T : \A k \in T : t <= k
  BY <1>1, Least
<1>3. PICK m \in S : t = n - m
  OBVIOUS
<1>4. \A k \in S : k <= m
  BY <1>2, <1>3
<1>5. \A k \in S : m >= k
  BY <1>4
<1>6. QED
  BY <1>5 DEF Max

\* Min is the least element of a set that has one.
LEMMA MinIsLeast ==
    ASSUME NEW S, S \subseteq Int, NEW m \in S, \A k \in S : m <= k
    PROVE  Min(S) = m
<1>1. \A n \in S : (\A k \in S : n <= k) => n = m
  OBVIOUS
<1>2. QED
  BY <1>1 DEF Min
-------------------------------------------------------------------------------
(* Working off a finite set *)

AnyOf(s) == CHOOSE x \in s : TRUE

\* What holds for the empty set, and for a set whenever it holds for the set without the
\* element picked from it, holds for all finite sets.
LEMMA SubsetInduction ==
    ASSUME NEW S, IsFiniteSet(S), NEW pick, \A s \in SUBSET S : s # {} => pick[s] \in s,
           NEW P, {} \in P, \A s \in SUBSET S : s # {} /\ s \ {pick[s]} \in P => s \in P
    PROVE  \A s \in SUBSET S : s \in P
<1> DEFINE wrong == {Cardinality(s) : s \in {t \in SUBSET S : t \notin P}}
<1>1. \A s \in SUBSET S : IsFiniteSet(s) /\ Cardinality(s) \in Nat
  BY FS_Subset, FS_CardinalityType
<1>2. ASSUME NEW u \in SUBSET S, u \notin P PROVE FALSE
  <2>1. wrong \subseteq Nat /\ wrong # {}
    BY <1>1, <1>2
  <2>2. PICK d \in wrong : \A m \in wrong : d <= m
    BY <2>1, Least
  <2>3. PICK t \in SUBSET S : t \notin P /\ Cardinality(t) = d
    OBVIOUS
  <2>4. t # {} /\ pick[t] \in t
    BY <2>3
  <2> DEFINE rest == t \ {pick[t]}
  <2>5. rest \in SUBSET S /\ Cardinality(rest) = Cardinality(t) - 1
    BY <1>1, <2>4, FS_RemoveElement
  <2>6. Cardinality(t) \in Nat /\ Cardinality(rest) \in Nat
    BY <1>1, <2>5
  <2>7. rest \in P
    <3> SUFFICES ASSUME rest \notin P PROVE FALSE
      OBVIOUS
    <3>1. Cardinality(rest) \in wrong
      BY <2>5
    <3> HIDE DEF wrong, rest
    <3>2. QED
      BY <2>2, <2>3, <2>5, <2>6, <3>1
  <2>8. QED
    BY <2>3, <2>4, <2>7
<1>3. QED
  BY <1>2

\* What the folds of the community modules compute, for the function `step`.
Folds(g, start, step, pick, sets) ==
    \A s \in sets : g[s] = IF s = {} THEN start ELSE step[<<g[s \ {pick[s]}], pick[s]>>]

\* A fold is defined: by induction over the size of the sets.
LEMMA FoldExists ==
    ASSUME NEW S, IsFiniteSet(S), NEW pick, \A s \in SUBSET S : s # {} => pick[s] \in s,
           NEW V, NEW start \in V, NEW step \in [V \X S -> V]
    PROVE  \E g \in [SUBSET S -> V] : Folds(g, start, step, pick, SUBSET S)
<1> DEFINE n       == Cardinality(S)
           All     == SUBSET S
           upTo(d) == {s \in All : Cardinality(s) <= d}
           missing == {d \in Nat :
                         ~ \E g \in [upTo(d) -> V] : Folds(g, start, step, pick, upTo(d))}
<1>1. /\ n \in Nat
      /\ \A s \in All : IsFiniteSet(s) /\ Cardinality(s) \in Nat /\ Cardinality(s) <= n
  BY FS_Subset, FS_CardinalityType
<1>2. \A s \in All : s # {} =>
         /\ pick[s] \in S /\ s \ {pick[s]} \in All
         /\ Cardinality(s \ {pick[s]}) = Cardinality(s) - 1
  BY <1>1, FS_RemoveElement
<1>3. \A s \in All : Cardinality(s) = 0 => s = {}
  BY <1>1, FS_EmptySet
<1>4. ASSUME missing # {} PROVE FALSE
  <2>1. PICK d \in missing : \A m \in missing : d <= m
    BY <1>4, Least
  <2>2. d # 0
    <3> SUFFICES ASSUME d = 0 PROVE FALSE
      OBVIOUS
    <3>1. \A s \in upTo(0) : s = {}
      BY <1>1, <1>3
    <3> DEFINE none == [s \in upTo(0) |-> start]
    <3>2. none \in [upTo(0) -> V] /\ Folds(none, start, step, pick, upTo(0))
      BY <3>1 DEF Folds
    <3>3. QED
      BY <2>1, <3>2
  <2>3. d - 1 \in Nat /\ d \in Nat
    BY <2>2
  <2>4. d - 1 \notin missing
    <3> HIDE DEF missing
    <3>1. QED
      BY <2>1, <2>3
  <2>5. PICK g \in [upTo(d - 1) -> V] : Folds(g, start, step, pick, upTo(d - 1))
    BY <2>3, <2>4
  <2> DEFINE Value(s) == IF s = {} THEN start ELSE step[<<g[s \ {pick[s]}], pick[s]>>]
             next == [s \in upTo(d) |-> Value(s)]
  <2>6. \A s \in upTo(d) : s # {} => s \ {pick[s]} \in upTo(d - 1)
    <3> TAKE s \in upTo(d)
    <3> HAVE s # {}
    <3> DEFINE rest == s \ {pick[s]}
    <3>1. rest \in All /\ Cardinality(rest) = Cardinality(s) - 1
      BY <1>2
    <3>2. Cardinality(s) \in Nat /\ Cardinality(s) <= d
      BY <1>1
    <3> HIDE DEF rest, All
    <3>3. rest \in upTo(d - 1)
      BY <2>3, <3>1, <3>2
    <3>4. QED
      BY <3>3 DEF rest
  <2>7. \A s \in upTo(d - 1) : s \in upTo(d) /\ next[s] = g[s]
    <3> TAKE s \in upTo(d - 1)
    <3>1. s \in upTo(d)
      BY <1>1, <2>3
    <3>2. g[s] = Value(s)
      BY <2>5 DEF Folds
    <3>3. QED
      BY <3>1, <3>2
  <2>8. next \in [upTo(d) -> V]
    <3>1. ASSUME NEW s \in upTo(d) PROVE Value(s) \in V
      <4>1. CASE s = {}
        BY <4>1
      <4>2. CASE s # {}
        <5>1. pick[s] \in S
          BY <1>2, <4>2
        <5>2. g[s \ {pick[s]}] \in V
          BY <2>5, <2>6, <4>2
        <5>3. QED
          BY <4>2, <5>1, <5>2
      <4>3. QED
        BY <4>1, <4>2
    <3> HIDE DEF Value, upTo
    <3>2. QED
      BY <3>1
  <2>9. Folds(next, start, step, pick, upTo(d))
    <3> SUFFICES ASSUME NEW s \in upTo(d)
                 PROVE  next[s] = IF s = {} THEN start
                                  ELSE step[<<next[s \ {pick[s]}], pick[s]>>]
      BY DEF Folds
    <3>1. s # {} => next[s \ {pick[s]}] = g[s \ {pick[s]}]
      BY <2>6, <2>7
    <3>2. next[s] = Value(s)
      OBVIOUS
    <3> HIDE DEF next
    <3>3. QED
      BY <3>1, <3>2
  <2>10. QED
    BY <2>1, <2>8, <2>9
<1>5. n \notin missing
  BY <1>1, <1>4
<1>6. upTo(n) = All
  BY <1>1
<1>7. QED
  BY <1>1, <1>5, <1>6

Turns(g, start, step, n) ==
    \A s \in SUBSET (1 .. n) :
       g[s] = IF s = {} THEN start ELSE step[<<g[s \ {Max(s)}], Max(s)>>]

\* The loop over a list, whose state is in V after every turn.
LEMMA LoopExists ==
    ASSUME NEW n \in Nat, NEW V, NEW start \in V, NEW step \in [V \X (1 .. n) -> V]
    PROVE  \E g \in [SUBSET (1 .. n) -> V] : Turns(g, start, step, n)
<1> DEFINE S    == 1 .. n
           pick == [s \in SUBSET S |-> Max(s)]
<1>1. IsFiniteSet(S)
  <2>1. 1 \in Int /\ n \in Int
    OBVIOUS
  <2>2. QED
    BY <2>1, FS_Interval
<1>2. \A s \in SUBSET S : pick[s] = Max(s) /\ (s # {} => pick[s] \in s)
  BY MaxIsGreatest
<1> HIDE DEF pick, S
<1>3. PICK g \in [SUBSET S -> V] : Folds(g, start, step, pick, SUBSET S)
  <2>1. step \in [V \X S -> V]
    BY DEF S
  <2>2. QED
    BY <1>1, <1>2, <2>1, FoldExists
<1>4. \A s \in SUBSET S :
         g[s] = IF s = {} THEN start ELSE step[<<g[s \ {Max(s)}], Max(s)>>]
  BY <1>2, <1>3 DEF Folds
<1>5. QED
  BY <1>4 DEF S, Turns

\* The sets of indices a fold works off, one by one.
LEMMA Unwinds ==
    ASSUME NEW n \in Nat, NEW k \in 1 .. n
    PROVE  /\ 1 .. k \in SUBSET (1 .. n) /\ 1 .. k # {}
           /\ Max(1 .. k) = k /\ (1 .. k) \ {k} = 1 .. k - 1
<1>1. 1 .. k \in SUBSET (1 .. n) /\ 1 .. k # {} /\ k \in 1 .. k
  OBVIOUS
<1>2. Max(1 .. k) \in 1 .. k /\ k <= Max(1 .. k)
  <2> DEFINE S == 1 .. k
  <2>1. S \in SUBSET (1 .. n) /\ S # {} /\ k \in S
    BY <1>1
  <2> HIDE DEF S
  <2>2. Max(S) \in S /\ k <= Max(S)
    BY <2>1, MaxIsGreatest
  <2>3. QED
    BY <2>2 DEF S
<1>3. Max(1 .. k) = k
  BY <1>2
<1>4. (1 .. k) \ {k} = 1 .. k - 1
  OBVIOUS
<1>5. QED
  BY <1>1, <1>3, <1>4
-------------------------------------------------------------------------------
(* Circles *)

\* Where nobody depends on everyone in a circle, some node of every set is one no other
\* of the set depends on: else the node without a dependency could be left out, time
\* and again.
LEMMA HasSource ==
    ASSUME NEW arcs, Acyclic(arcs), NEW U \in SUBSET Nodes, U # {}
    PROVE  \E n \in U : \A m \in U : <<m, n>> \notin arcs
<1> DEFINE Sourceless(S) == S # {} /\ \A n \in S : \E m \in S : <<m, n>> \in arcs
           Sizes == {k \in Nat : \E S \in SUBSET Nodes : Sourceless(S) /\ Cardinality(S) = k}
<1> SUFFICES ASSUME Sourceless(U) PROVE FALSE
  OBVIOUS
<1>1. \A S \in SUBSET Nodes : IsFiniteSet(S) /\ Cardinality(S) \in Nat
  BY GraphAssumption, FS_Subset, FS_CardinalityType
<1>2. Sizes # {}
  BY <1>1
<1>3. PICK k \in Sizes : \A j \in Sizes : k <= j
  BY <1>2, Least
<1>4. PICK S \in SUBSET Nodes : Sourceless(S) /\ Cardinality(S) = k
  BY <1>3
<1>5. PICK n \in S : \A m \in S : <<n, m>> \notin arcs
  BY <1>4 DEF Acyclic
<1>6. PICK p \in S : <<p, n>> \in arcs
  BY <1>4
<1>7. p \in S \ {n}
  BY <1>5, <1>6
<1>8. Sourceless(S \ {n})
  BY <1>4, <1>5, <1>7
<1>9. Cardinality(S \ {n}) = k - 1
  BY <1>1, <1>4, <1>5, FS_RemoveElement
<1>10. Cardinality(S \ {n}) \in Sizes
  BY <1>1, <1>8
<1>11. k <= k - 1
  BY <1>3, <1>9, <1>10
<1>12. QED
  BY <1>3, <1>11
-------------------------------------------------------------------------------
(* Validation *)

\* Nodes that were visited: neither in the queue nor waiting for a dependent.
Done == {m \in Listed : indeg[m] = 0 /\ m \notin queue}

\* Edges into a node whose dependent was not visited yet.
Awaited(m) == {e \in Proper : e.to = m /\ e.from \notin Done}

KahnTypeOK ==
    /\ net \subseteq EdgeOf(Nat, Nat) /\ IsFiniteSet(net)
    /\ indeg \in [Nodes -> Int] /\ queue \subseteq Listed /\ visited \in Nat

\* Every node waits for exactly the edges of dependents not visited yet, and those
\* visited are counted and form no circle.
KahnIsSound ==
    /\ \A m \in Nodes : indeg[m] = Cardinality(Awaited(m))
    /\ \A m \in queue : indeg[m] = 0
    /\ visited = Cardinality(Done)
    /\ \A S \in (SUBSET Done) \ {{}} : \E n \in S : \A m \in S : <<n, m>> \notin Arcs(Proper)

ValidationIInv ==
    /\ KahnTypeOK
    /\ KahnIsSound
    /\ ValidationIsExact

\* What the edges Kahn's algorithm follows join.
LEMMA ProperFacts ==
    ASSUME KahnTypeOK
    PROVE  /\ Proper \in SUBSET net /\ Listed \in SUBSET Nodes
           /\ \A e \in Proper : e.from \in Listed /\ e.to \in Listed /\ e.from # e.to
BY DEF Proper, Loops, Listed

LEMMA FiniteEdges ==
    ASSUME KahnTypeOK, NEW S \in SUBSET net
    PROVE  IsFiniteSet(S) /\ Cardinality(S) \in Nat /\ (Cardinality(S) = 0 <=> S = {})
BY FS_Subset, FS_CardinalityType, FS_EmptySet DEF KahnTypeOK

\* A node in the queue is awaited by nobody, so nobody visited depends on it.
LEMMA KahnVisits ==
    ASSUME ValidationIInv, NEW n \in Nodes, KahnStep(n)
    PROVE  Done' = Done \cup {n} /\ n \notin Done
<1> USE DEF ValidationIInv
<1>0. n \in Listed /\ Listed' = Listed /\ Listed \subseteq Nodes
  BY DEF KahnStep, KahnTypeOK, Listed
<1>1. n \notin Done
  BY DEF KahnStep, Done
<1>2. \A m \in Nodes : EdgesBetween(n, m) \in Nat /\ (EdgesBetween(n, m) = 0
                         <=> {e \in Proper : e.from = n /\ e.to = m} = {})
  <2> TAKE m \in Nodes
  <2> DEFINE Between == {e \in Proper : e.from = n /\ e.to = m}
  <2>1. Between \in SUBSET net
    BY DEF Proper
  <2>2. EdgesBetween(n, m) = Cardinality(Between)
    BY DEF EdgesBetween
  <2>3. QED
    BY <2>1, <2>2, FiniteEdges
<1>3. \A m \in Done : EdgesBetween(n, m) = 0
  <2> TAKE m \in Done
  <2>1. m \in Nodes /\ indeg[m] = 0
    BY DEF Done, Listed
  <2>2. Awaited(m) = {}
    <3>1. Awaited(m) \in SUBSET net
      BY DEF Awaited, Proper
    <3>2. Cardinality(Awaited(m)) = 0
      BY <2>1 DEF KahnIsSound
    <3>3. QED
      BY <3>1, <3>2, FiniteEdges
  <2>3. {e \in Proper : e.from = n /\ e.to = m} = {}
    BY <1>1, <2>2 DEF Awaited
  <2>4. QED
    BY <1>2, <2>1, <2>3
<1>4. EdgesBetween(n, n) = 0
  <2>1. {e \in Proper : e.from = n /\ e.to = n} = {}
    BY DEF Proper, Loops
  <2>2. QED
    BY <1>2, <2>1
<1>5. \A m \in Nodes : indeg'[m] = indeg[m] - EdgesBetween(n, m) /\ indeg[m] \in Int
  BY DEF KahnStep, KahnTypeOK
<1>6. queue' = (queue \ {n}) \cup {m \in Nodes : EdgesBetween(n, m) > 0 /\ indeg'[m] = 0}
  BY DEF KahnStep
<1>7. indeg[n] = 0
  BY DEF KahnStep, KahnIsSound
<1>8. n \in Done'
  BY <1>0, <1>4, <1>5, <1>6, <1>7 DEF Done
<1>9. \A m \in Done : m \in Done'
  BY <1>0, <1>3, <1>5, <1>6 DEF Done
<1>10. \A m \in Listed : m # n /\ m \notin Done => m \notin Done'
  <2> SUFFICES ASSUME NEW m \in Listed, m # n, m \notin Done, m \in Done'
               PROVE  FALSE
    OBVIOUS
  <2>1. indeg'[m] = 0 /\ m \notin queue'
    BY DEF Done
  <2>2. m \notin queue
    BY <1>6, <2>1
  <2>3. indeg[m] # 0
    BY <2>2 DEF Done
  <2>4. m \in Nodes
    BY <1>0
  <2>5. EdgesBetween(n, m) > 0
    BY <1>2, <1>5, <2>1, <2>3, <2>4
  <2>6. QED
    BY <1>6, <2>1, <2>4, <2>5
<1>11. QED
  BY <1>0, <1>1, <1>8, <1>9, <1>10 DEF Done

LEMMA KahnKeepsCount ==
    ASSUME ValidationIInv, NEW n \in Nodes, KahnStep(n)
    PROVE  KahnTypeOK' /\ KahnIsSound'
<1> USE DEF ValidationIInv
<1>1. net' = net /\ Proper' = Proper /\ Listed' = Listed /\ Listed \subseteq Nodes
  BY DEF KahnStep, Proper, Loops, Listed
<1>2. Done' = Done \cup {n} /\ n \notin Done /\ Done \subseteq Nodes /\ IsFiniteSet(Done)
  <2>1. Done \in SUBSET Nodes
    BY <1>1 DEF Done
  <2>2. QED
    BY <2>1, KahnVisits, GraphAssumption, FS_Subset
<1>3. \A m \in Nodes : indeg'[m] = indeg[m] - EdgesBetween(n, m) /\ indeg[m] \in Int
  BY DEF KahnStep, KahnTypeOK
<1>4. \A m \in Nodes : indeg'[m] = Cardinality(Awaited(m)')
  <2> TAKE m \in Nodes
  <2> DEFINE Between == {e \in Proper : e.from = n /\ e.to = m}
  <2>1. Awaited(m) \in SUBSET net /\ Between \in SUBSET net
    BY DEF Proper, Awaited
  <2>2. Awaited(m)' = Awaited(m) \ Between
    BY <1>1, <1>2 DEF Awaited
  <2>3. Awaited(m) \cap Between = Between
    BY <1>2 DEF Awaited
  <2>4. EdgesBetween(n, m) = Cardinality(Between)
    BY DEF EdgesBetween
  <2>5. indeg[m] = Cardinality(Awaited(m))
    BY DEF KahnIsSound
  <2>6. IsFiniteSet(Awaited(m))
    BY <2>1, FiniteEdges
  <2> HIDE DEF Between
  <2>7. Cardinality(Awaited(m) \ Between)
           = Cardinality(Awaited(m)) - Cardinality(Awaited(m) \cap Between)
    BY <2>6, FS_Difference
  <2>8. QED
    BY <1>3, <2>2, <2>3, <2>4, <2>5, <2>7
<1>5. KahnTypeOK'
  <2>1. \A m \in Nodes : EdgesBetween(n, m) \in Nat
    <3> TAKE m \in Nodes
    <3>1. {e \in Proper : e.from = n /\ e.to = m} \in SUBSET net
      BY DEF Proper
    <3>2. QED
      BY <3>1, FiniteEdges DEF EdgesBetween
  <2>2. indeg' = [m \in Nodes |-> indeg[m] - EdgesBetween(n, m)]
    BY DEF KahnStep
  <2>3. indeg' \in [Nodes -> Int]
    BY <1>3, <2>1, <2>2
  <2>4. queue' \subseteq Listed' /\ visited' \in Nat
    <3>1. ASSUME NEW m \in Nodes, EdgesBetween(n, m) > 0 PROVE m \in Listed
      <4>1. {e \in Proper : e.from = n /\ e.to = m} # {}
        BY <3>1, FS_EmptySet DEF EdgesBetween
      <4>2. QED
        BY <4>1, ProperFacts
    <3>2. QED
      BY <1>1, <3>1 DEF KahnStep, KahnTypeOK
  <2>5. QED
    BY <1>1, <2>3, <2>4 DEF KahnTypeOK
<1>6. \A m \in queue' : indeg'[m] = 0
  <2> TAKE m \in queue'
  <2>1. CASE m \in queue \ {n}
    <3>1. m \in Nodes /\ indeg[m] = 0
      BY <1>1, <2>1 DEF KahnTypeOK, KahnIsSound
    <3>2. Awaited(m) \in SUBSET net /\ Cardinality(Awaited(m)) = 0
      BY <3>1 DEF KahnIsSound, Awaited, Proper
    <3>3. Awaited(m) = {}
      BY <3>2, FiniteEdges
    <3>4. {e \in Proper : e.from = n /\ e.to = m} = {}
      BY <1>2, <3>3 DEF Awaited
    <3>5. EdgesBetween(n, m) = 0
      BY <3>4, FS_EmptySet DEF EdgesBetween
    <3>6. QED
      BY <1>3, <3>1, <3>5
  <2>2. CASE m \notin queue \ {n}
    BY <2>2 DEF KahnStep
  <2>3. QED
    BY <2>1, <2>2
<1>7. visited' = Cardinality(Done')
  <2>1. Cardinality(Done \cup {n}) = Cardinality(Done) + 1
    BY <1>2, FS_AddElement
  <2>2. visited' = visited + 1 /\ visited = Cardinality(Done)
    BY DEF KahnStep, KahnIsSound
  <2>3. QED
    BY <1>2, <2>1, <2>2
<1>8. \A S \in (SUBSET Done') \ {{}} : \E d \in S : \A m \in S : <<d, m>> \notin Arcs(Proper')
  <2> TAKE S \in (SUBSET Done') \ {{}}
  <2>1. CASE n \in S
    <3> SUFFICES ASSUME NEW m \in S, <<n, m>> \in Arcs(Proper) PROVE FALSE
      BY <1>1, <2>1
    <3>1. PICK e \in Proper : e.from = n /\ e.to = m
      BY DEF Arcs
    <3>2. m # n
      BY <3>1, ProperFacts
    <3>3. m \in Done
      BY <1>2, <3>2
    <3>4. e \in Awaited(m)
      BY <1>2, <3>1 DEF Awaited
    <3>5. Awaited(m) \in SUBSET net /\ Cardinality(Awaited(m)) = 0
      BY <1>1, <3>3 DEF Done, KahnIsSound, Awaited, Proper
    <3>6. QED
      BY <3>4, <3>5, FiniteEdges
  <2>2. CASE n \notin S
    BY <1>1, <1>2, <2>2 DEF KahnIsSound
  <2>3. QED
    BY <2>1, <2>2
<1>9. QED
  BY <1>4, <1>5, <1>6, <1>7, <1>8 DEF KahnIsSound

\* Once the queue is empty, the listed nodes that were never visited form a circle, if
\* there are any.
LEMMA KahnDecides ==
    ASSUME KahnTypeOK, KahnIsSound, queue = {}, ~ Malformed
    PROVE  visited = Cardinality(Listed) <=> Acyclic(Arcs(net))
<1>1. Done \in SUBSET Listed /\ IsFiniteSet(Listed) /\ Listed \in SUBSET Nodes
  <2>1. Listed \in SUBSET Nodes
    BY DEF Listed
  <2>2. IsFiniteSet(Listed)
    BY <2>1, GraphAssumption, FS_Subset
  <2>3. QED
    BY <2>1, <2>2 DEF Done
<1>2. visited = Cardinality(Listed) <=> Done = Listed
  BY <1>1, FS_Subset DEF KahnIsSound
<1>3. Proper = net
  BY DEF Malformed, Proper
<1>4. ASSUME Done = Listed
      PROVE  Acyclic(Arcs(net))
  <2> SUFFICES ASSUME NEW S \in (SUBSET Nodes) \ {{}}
               PROVE  \E n \in S : \A m \in S : <<n, m>> \notin Arcs(net)
    BY DEF Acyclic
  <2>1. CASE S \subseteq Listed
    BY <1>3, <1>4, <2>1 DEF KahnIsSound
  <2>2. ASSUME NEW n \in S, n \notin Listed
        PROVE  \A m \in S : <<n, m>> \notin Arcs(net)
    BY <1>3, <2>2, ProperFacts DEF Arcs
  <2>3. QED
    BY <2>1, <2>2
<1>5. ASSUME Done # Listed, Acyclic(Arcs(net))
      PROVE  FALSE
  <2> DEFINE Left == Listed \ Done
  <2>1. Left \in SUBSET Nodes /\ Left # {}
    BY <1>1, <1>5
  <2>2. PICK m \in Left : \A p \in Left : <<p, m>> \notin Arcs(net)
    BY <1>5, <2>1, HasSource
  <2>3. m \in Nodes /\ indeg[m] # 0
    BY <1>1, <2>2 DEF Done
  <2>4. Awaited(m) \in SUBSET net /\ Cardinality(Awaited(m)) # 0
    BY <2>3 DEF KahnIsSound, Awaited, Proper
  <2>5. PICK e \in Awaited(m) : TRUE
    BY <2>4, FiniteEdges
  <2>6. e \in net /\ e.to = m /\ e.from \in Left
    BY <1>3, <2>5, ProperFacts DEF Awaited
  <2>7. <<e.from, m>> \in Arcs(net)
    BY <2>6 DEF Arcs
  <2>8. QED
    BY <2>2, <2>6, <2>7
<1>6. QED
  BY <1>2, <1>4, <1>5

LEMMA InitValidation == Init => ValidationIInv
<1> SUFFICES ASSUME Init PROVE ValidationIInv
  OBVIOUS
<1>1. case \in Cases /\ net = case.net /\ phase = "validate" /\ visited = 0
  BY DEF Init, StructuralInit
<1>0. Proper \subseteq net /\ Listed \subseteq Nodes
  BY DEF Proper, Listed
<1>2. net \subseteq EdgeOf(Nat, Nat) /\ IsFiniteSet(net)
  BY <1>1, RunAssumption
<1>3. \A m \in Nodes : IsFiniteSet({e \in Proper : e.to = m})
                       /\ Cardinality({e \in Proper : e.to = m}) \in Nat
  <2> TAKE m \in Nodes
  <2>1. {e \in Proper : e.to = m} \in SUBSET net
    BY <1>0
  <2>2. QED
    BY <1>2, <2>1, FS_Subset, FS_CardinalityType
<1>4. /\ indeg = [n \in Nodes |-> Cardinality({e \in Proper : e.to = n})]
      /\ queue = {n \in Listed : \A e \in Proper : e.to # n}
  BY <1>1 DEF Init, StructuralInit
<1>5. KahnTypeOK
  <2>1. indeg \in [Nodes -> Int]
    BY <1>3, <1>4
  <2>2. queue \subseteq Listed
    BY <1>4
  <2>3. QED
    BY <1>1, <1>2, <2>1, <2>2 DEF KahnTypeOK
<1>6. \A m \in Listed : m \in queue <=> indeg[m] = 0
  <2> TAKE m \in Listed
  <2>1. m \in queue <=> {e \in Proper : e.to = m} = {}
    BY <1>4
  <2>2. QED
    BY <1>0, <1>3, <1>4, <2>1, FS_EmptySet
<1>7. Done = {}
  BY <1>6 DEF Done
<1>8. \A m \in Nodes : Awaited(m) = {e \in Proper : e.to = m}
  BY <1>7 DEF Awaited
<1>9. KahnIsSound
  BY <1>1, <1>4, <1>0, <1>5, <1>6, <1>7, <1>8, FS_EmptySet DEF KahnIsSound, KahnTypeOK
<1>10. ValidationIsExact
  BY <1>1 DEF ValidationIsExact
<1>11. QED
  BY <1>5, <1>9, <1>10 DEF ValidationIInv

LEMMA NextValidation == ValidationIInv /\ [Next]_vars => ValidationIInv'
<1> SUFFICES ASSUME ValidationIInv, [Next]_vars PROVE ValidationIInv'
  OBVIOUS
<1> USE DEF ValidationIInv
<1>1. ASSUME NEW n \in Nodes, KahnStep(n)
      PROVE  ValidationIInv'
  BY <1>1, KahnKeepsCount DEF KahnStep, ValidationIsExact
<1>2. ASSUME UNCHANGED <<net, input, kahn>>
      PROVE  KahnTypeOK' /\ KahnIsSound'
  <2>1. Done' = Done /\ Proper' = Proper /\ net' = net /\ indeg' = indeg
        /\ queue' = queue /\ visited' = visited /\ Listed' = Listed
    BY <1>2 DEF kahn, Done, Proper, Loops, Listed
  <2>2. \A m \in Nodes : Awaited(m)' = Awaited(m)
    BY <2>1 DEF Awaited
  <2>3. QED
    BY <2>1, <2>2 DEF KahnTypeOK, KahnIsSound
<1>3. CASE Accept \/ Reject
  <2>1. UNCHANGED <<net, input, kahn>> /\ queue = {}
    BY <1>3 DEF Accept, Reject
  <2>2. ~ Malformed => (visited = Cardinality(Listed) <=> Acyclic(Arcs(net)))
    BY <2>1, KahnDecides
  <2>3. visited <= Cardinality(Listed) /\ visited \in Nat /\ Cardinality(Listed) \in Nat
    <3>1. Done \in SUBSET Listed /\ Listed \in SUBSET Nodes
      BY DEF Done, Listed
    <3>2. QED
      BY <3>1, GraphAssumption, FS_Subset, FS_CardinalityType DEF KahnIsSound, KahnTypeOK
  <2>4. (Malformed' <=> Malformed) /\ Arcs(net)' = Arcs(net)
    BY <2>1 DEF Malformed, Loops, Listed
  <2>5. ValidationIsExact'
    <3>1. CASE Accept
      BY <2>2, <2>4, <3>1 DEF Accept, ValidationIsExact
    <3>2. CASE Reject
      BY <2>2, <2>3, <2>4, <3>2 DEF Reject, ValidationIsExact
    <3>3. QED
      BY <1>3, <3>1, <3>2
  <2>6. QED
    BY <1>2, <2>1, <2>5
<1>4. ASSUME UNCHANGED <<net, input, kahn>>,
             \/ phase' = phase
             \/ {phase, phase'} \cap {"validate", "rejected"} = {}
      PROVE  ValidationIInv'
  <2>1. (Malformed' <=> Malformed) /\ Arcs(net)' = Arcs(net)
    BY <1>4 DEF Malformed, Loops, Listed
  <2>2. QED
    BY <1>2, <1>4, <2>1 DEF ValidationIsExact
<1>5. CASE \E n \in Nodes : KahnStep(n)
  BY <1>1, <1>5
<1>6. CASE Search \/ SearchEnds
  BY <1>4, <1>6 DEF Search, SearchEnds
<1>7. CASE (\E c \in Capabilities : Flow(c)) \/ FlowEnds
  BY <1>4, <1>7 DEF Flow, FlowEnds
<1>8. CASE Optimize \/ GreedyRound \/ GreedyEnds
  BY <1>4, <1>8 DEF Optimize, GreedyRound, GreedyEnds, structuralVars, kahn
<1>9. CASE \E onPathway \in SUBSET Affected : Assess(onPathway)
  BY <1>4, <1>9 DEF Assess
<1>10. CASE UNCHANGED vars
  <2>1. UNCHANGED <<net, input, kahn>> /\ phase' = phase
    BY <1>10 DEF vars, structuralVars, kahn
  <2>2. QED
    BY <1>4, <2>1
<1>11. QED
  BY <1>3, <1>5, <1>6, <1>7, <1>8, <1>9, <1>10 DEF Next, StructuralNext

\* A snapshot is rejected exactly if it repeats an id, names a node it does not list, or
\* has nodes that depend on each other in a circle, and no model runs on one that was
\* not validated (validate.py).
THEOREM UnfitIsRejected == Spec => []ValidationIsExact
<1>1. ValidationIInv => ValidationIsExact
  BY DEF ValidationIInv
<1>2. QED
  BY InitValidation, NextValidation, <1>1, PTL DEF Spec
-------------------------------------------------------------------------------
(* From signals to an incident *)

ComponentRecords == [target : Nodes, severity : Fractions, latency : BOOLEAN]

\* What the loop over the signals holds after each of them.
Mapping(trail, signals) ==
    /\ trail[0] = {}
    /\ \A k \in 1 .. Len(signals) : trail[k] = Mapped(trail[k - 1], signals[k])

LEMMA SignalFacts ==
    ASSUME NEW signals \in Seq(SignalRecords)
    PROVE  /\ Len(signals) \in Nat /\ DOMAIN signals = 1 .. Len(signals)
           /\ \A k \in 1 .. Len(signals) :
                 /\ signals[k] \in SignalRecords /\ signals[k].matches \in SUBSET Nodes
                 /\ signals[k].severity \in Int /\ signals[k].severity \in Fractions
                 /\ signals[k].latency \in BOOLEAN
<1>1. /\ Len(signals) \in Nat /\ DOMAIN signals = 1 .. Len(signals)
      /\ \A k \in 1 .. Len(signals) : signals[k] \in SignalRecords
  BY LenProperties, ElementOfSeq
<1>2. \A s \in SignalRecords : /\ s.matches \in SUBSET Nodes /\ s.severity \in Fractions
                               /\ s.latency \in BOOLEAN
  BY DEF SignalRecords
<1>3. Fractions \subseteq Int
  BY GraphAssumption DEF Fractions
<1>4. QED
  BY <1>1, <1>2, <1>3

\* The fold of Components is that loop.
LEMMA MappingLoops ==
    ASSUME NEW signals \in Seq(SignalRecords)
    PROVE  \E trail : Mapping(trail, signals) /\ Components(signals) = trail[Len(signals)]
<1> DEFINE n    == Len(signals)
           V    == SUBSET ComponentRecords
           step == [x \in V \X (1 .. n) |-> Mapped(x[1], signals[x[2]])]
           Fits(g) == g = [s \in SUBSET DOMAIN signals |->
                             IF s = {} THEN {} ELSE Mapped(g[s \ {Max(s)}], signals[Max(s)])]
           fold == CHOOSE g : Fits(g)
<1>1. n \in Nat /\ DOMAIN signals = 1 .. n /\ \A k \in 1 .. n : signals[k] \in SignalRecords
  BY SignalFacts
<1>2. {} \in V
  OBVIOUS
<1>3. step \in [V \X (1 .. n) -> V]
  <2>1. ASSUME NEW components \in V, NEW k \in 1 .. n
        PROVE  Mapped(components, signals[k]) \in V
    <3>1. \A m \in signals[k].matches : Component(m, signals[k]) \in ComponentRecords
      BY SignalFacts DEF Component, ComponentRecords
    <3>2. QED
      BY <3>1 DEF Mapped
  <2> HIDE DEF V, n
  <2>2. QED
    BY <2>1
<1>4. PICK g \in [SUBSET (1 .. n) -> V] : Turns(g, {}, step, n)
  <2> HIDE DEF step, n, V
  <2>1. QED
    BY <1>1, <1>2, <1>3, LoopExists
<1>5. Fits(g)
  <2>1. ASSUME NEW s \in SUBSET (1 .. n)
        PROVE  g[s] = IF s = {} THEN {} ELSE Mapped(g[s \ {Max(s)}], signals[Max(s)])
    <3>1. CASE s = {}
      BY <1>4, <3>1 DEF Turns
    <3>2. CASE s # {}
      <4>1. Max(s) \in 1 .. n
        BY <1>1, <3>2, MaxIsGreatest
      <4>2. g[s \ {Max(s)}] \in V
        BY <1>4
      <4>3. g[s] = step[<<g[s \ {Max(s)}], Max(s)>>]
        BY <1>4, <3>2 DEF Turns
      <4>4. QED
        BY <3>2, <4>1, <4>2, <4>3
    <3>3. QED
      BY <3>1, <3>2
  <2>2. g = [s \in SUBSET (1 .. n) |-> g[s]]
    BY <1>4
  <2> HIDE DEF n
  <2>3. QED
    BY <1>1, <2>1, <2>2
<1>6. Fits(fold)
  BY <1>5
<1>7. Components(signals) = fold[DOMAIN signals]
  BY DEF Components, FoldLeft, MapThenFoldSet
<1> HIDE DEF fold
<1>8. \A s \in SUBSET (1 .. n) :
         fold[s] = IF s = {} THEN {} ELSE Mapped(fold[s \ {Max(s)}], signals[Max(s)])
  BY <1>1, <1>6
<1> DEFINE trail == [k \in 0 .. n |-> fold[1 .. k]]
<1>9. trail[0] = {}
  <2>1. 1 .. 0 = {} /\ 0 \in 0 .. n
    BY <1>1
  <2>2. QED
    BY <1>8, <2>1
<1>10. ASSUME NEW k \in 1 .. n PROVE trail[k] = Mapped(trail[k - 1], signals[k])
  <2>1. k \in 0 .. n /\ k - 1 \in 0 .. n
    BY <1>1
  <2>2. fold[1 .. k] = Mapped(fold[1 .. k - 1], signals[k])
    <3>1. /\ 1 .. k \in SUBSET (1 .. n) /\ 1 .. k # {}
          /\ Max(1 .. k) = k /\ (1 .. k) \ {k} = 1 .. k - 1
      BY <1>1, Unwinds
    <3> HIDE DEF n
    <3>2. QED
      BY <1>8, <3>1
  <2>3. QED
    BY <2>1, <2>2
<1>11. trail[n] = fold[DOMAIN signals]
  BY <1>1
<1>12. QED
  BY <1>7, <1>9, <1>10, <1>11 DEF Mapping

Hits(signals, j, n) == signals[j].operational /\ n \in signals[j].matches

\* Of the first k signals, signal j is the one whose component a node has: the first of
\* the most severe ones.
Wins(signals, j, n, k) ==
    /\ j \in 1 .. k /\ Hits(signals, j, n)
    /\ \A i \in 1 .. k : Hits(signals, i, n) =>
          /\ signals[i].severity <= signals[j].severity
          /\ i < j => signals[i].severity < signals[j].severity

\* The components after k signals are those of the winners, and whatever is hit has one.
WinnersMapped(components, signals, k) ==
    /\ \A c : c \in components <=>
          \E n \in Nodes : \E j \in 1 .. k :
              Wins(signals, j, n, k) /\ c = Component(n, signals[j])
    /\ \A n \in Nodes : \A i \in 1 .. k :
          Hits(signals, i, n) => \E j \in 1 .. k : Wins(signals, j, n, k)

\* One more signal: it wins the nodes it takes over, and nobody else loses any.
LEMMA MappedKeepsWinners ==
    ASSUME NEW signals \in Seq(SignalRecords), NEW k \in 1 .. Len(signals), NEW components,
           WinnersMapped(components, signals, k - 1)
    PROVE  WinnersMapped(Mapped(components, signals[k]), signals, k)
<1> DEFINE s == signals[k]
           taken == {n \in s.matches :
                        /\ s.operational
                        /\ \A c \in components : c.target = n => c.severity < s.severity}
<1>1. /\ k \in Nat /\ k - 1 \in Nat /\ s.matches \subseteq Nodes
      /\ \A j \in 1 .. k : signals[j].severity \in Int
  BY SignalFacts
<1>2. \A j \in 1 .. k - 1 : j \in 1 .. k /\ j < k /\ j # k
  BY <1>1
<1>3. \A j \in 1 .. k : j \notin 1 .. k - 1 => j = k
  BY <1>1
<1>4. k \in 1 .. k
  BY <1>1
<1>5. \A n, j : Component(n, signals[j]).target = n
                /\ Component(n, signals[j]).severity = signals[j].severity
  BY DEF Component
<1>6. \A n \in Nodes : \A j \in 1 .. k - 1 :
         Wins(signals, j, n, k - 1) => Component(n, signals[j]) \in components
  BY DEF WinnersMapped
<1>7. ASSUME NEW n \in Nodes, NEW j \in 1 .. k - 1, Wins(signals, j, n, k - 1), n \notin taken
      PROVE  Wins(signals, j, n, k)
  <2>1. Hits(signals, k, n) => signals[k].severity <= signals[j].severity
    <3> SUFFICES ASSUME Hits(signals, k, n)
                 PROVE  signals[k].severity <= signals[j].severity
      OBVIOUS
    <3>1. PICK c \in components : c.target = n /\ ~ (c.severity < s.severity)
      BY <1>7 DEF Hits
    <3>2. PICK m \in Nodes, i \in 1 .. k - 1 :
             Wins(signals, i, m, k - 1) /\ c = Component(m, signals[i])
      BY <3>1 DEF WinnersMapped
    <3>3. m = n /\ c.severity = signals[i].severity
      BY <1>5, <3>1, <3>2
    <3>4. signals[i].severity <= signals[j].severity
      BY <1>7, <3>2, <3>3 DEF Wins
    <3>5. signals[i].severity \in Int /\ signals[j].severity \in Int /\ s.severity \in Int
      BY <1>1, <1>2, <1>4
    <3> HIDE DEF s
    <3>6. signals[k].severity <= signals[j].severity
      BY <3>1, <3>3, <3>4, <3>5 DEF s
    <3>7. QED
      BY <3>6
  <2>2. \A i \in 1 .. k : i < j => i \in 1 .. k - 1
    BY <1>1
  <2>3. QED
    BY <1>2, <1>3, <1>7, <2>1, <2>2 DEF Wins
<1>8. ASSUME NEW n \in taken PROVE Wins(signals, k, n, k)
  <2>1. n \in Nodes /\ Hits(signals, k, n)
    BY <1>1 DEF Hits
  <2>2. ASSUME NEW i \in 1 .. k - 1, Hits(signals, i, n)
        PROVE  signals[i].severity < signals[k].severity
    <3>1. PICK j \in 1 .. k - 1 : Wins(signals, j, n, k - 1)
      BY <2>1, <2>2 DEF WinnersMapped
    <3>2. signals[j].severity < signals[k].severity
      <4>1. Component(n, signals[j]) \in components
        BY <1>6, <2>1, <3>1
      <4>2. Component(n, signals[j]).severity < signals[k].severity
        BY <1>5, <4>1
      <4>3. QED
        BY <1>5, <4>2
    <3>3. signals[i].severity <= signals[j].severity
      BY <2>2, <3>1 DEF Wins
    <3>4. signals[i].severity \in Int /\ signals[j].severity \in Int
          /\ signals[k].severity \in Int
      BY <1>1, <1>2, <1>4
    <3>5. QED
      BY <3>2, <3>3, <3>4
  <2>3. \A i \in 1 .. k : Hits(signals, i, n) =>
           /\ signals[i].severity <= signals[k].severity
           /\ i < k => signals[i].severity < signals[k].severity
    <3> TAKE i \in 1 .. k
    <3>1. CASE i = k
      BY <1>1, <3>1
    <3>2. CASE i # k
      <4>1. i \in 1 .. k - 1
        BY <1>3, <3>2
      <4>2. signals[i].severity \in Int /\ signals[k].severity \in Int
        BY <1>1, <1>4
      <4>3. QED
        BY <2>2, <4>1, <4>2
    <3>3. QED
      BY <3>1, <3>2
  <2>4. QED
    BY <1>4, <2>1, <2>3 DEF Wins
<1>9. ASSUME NEW n \in Nodes, NEW j \in 1 .. k, Wins(signals, j, n, k), j # k
      PROVE  j \in 1 .. k - 1 /\ Wins(signals, j, n, k - 1) /\ n \notin taken
  <2>1. j \in 1 .. k - 1
    BY <1>3, <1>9
  <2>2. Wins(signals, j, n, k - 1)
    BY <1>2, <1>9, <2>1 DEF Wins
  <2>3. ASSUME n \in taken PROVE FALSE
    <3>1. Hits(signals, k, n)
      BY <2>3 DEF Hits
    <3>2. signals[k].severity <= signals[j].severity
      BY <1>4, <1>9, <3>1 DEF Wins
    <3>3. signals[j].severity < signals[k].severity
      <4>1. Component(n, signals[j]) \in components
        BY <1>6, <2>1, <2>2
      <4>2. Component(n, signals[j]).severity < signals[k].severity
        BY <1>5, <2>3, <4>1
      <4>3. QED
        BY <1>5, <4>2
    <3>4. signals[j].severity \in Int /\ signals[k].severity \in Int
      BY <1>1, <1>4
    <3>5. QED
      BY <3>2, <3>3, <3>4
  <2>4. QED
    BY <2>1, <2>2, <2>3
<1>10. ASSUME NEW n \in Nodes, Wins(signals, k, n, k) PROVE n \in taken
  <2>1. s.operational /\ n \in s.matches
    BY <1>10 DEF Wins, Hits
  <2>2. ASSUME NEW c \in components, c.target = n PROVE c.severity < s.severity
    <3>1. PICK m \in Nodes, i \in 1 .. k - 1 :
             Wins(signals, i, m, k - 1) /\ c = Component(m, signals[i])
      BY <2>2 DEF WinnersMapped
    <3>2. m = n /\ c.severity = signals[i].severity
      BY <1>5, <2>2, <3>1
    <3>3. QED
      BY <1>2, <1>10, <3>1, <3>2 DEF Wins
  <2>3. QED
    BY <2>1, <2>2
<1>11. Mapped(components, s)
          = {c \in components : c.target \notin taken} \cup {Component(n, s) : n \in taken}
  BY DEF Mapped
<1> HIDE DEF taken
<1>12. ASSUME NEW c \in Mapped(components, s)
       PROVE  \E n \in Nodes : \E j \in 1 .. k :
                 Wins(signals, j, n, k) /\ c = Component(n, signals[j])
  <2>1. CASE c \in components /\ c.target \notin taken
    <3>1. PICK n \in Nodes, j \in 1 .. k - 1 :
             Wins(signals, j, n, k - 1) /\ c = Component(n, signals[j])
      BY <2>1 DEF WinnersMapped
    <3>2. QED
      BY <1>2, <1>5, <1>7, <2>1, <3>1
  <2>2. CASE \E n \in taken : c = Component(n, s)
    <3>1. PICK n \in taken : c = Component(n, s)
      BY <2>2
    <3>2. n \in Nodes
      BY <1>1 DEF taken
    <3>3. QED
      BY <1>4, <1>8, <3>1, <3>2
  <2>3. QED
    BY <1>11, <1>12, <2>1, <2>2
<1>13. ASSUME NEW n \in Nodes, NEW j \in 1 .. k, Wins(signals, j, n, k)
       PROVE  Component(n, signals[j]) \in Mapped(components, s)
  <2>1. CASE j = k
    BY <1>10, <1>11, <1>13, <2>1
  <2>2. CASE j # k
    BY <1>5, <1>6, <1>9, <1>11, <1>13, <2>2
  <2>3. QED
    BY <2>1, <2>2
<1>14. ASSUME NEW n \in Nodes, NEW i \in 1 .. k, Hits(signals, i, n)
       PROVE  \E j \in 1 .. k : Wins(signals, j, n, k)
  <2>1. CASE n \in taken
    BY <1>4, <1>8, <2>1
  <2>2. CASE n \notin taken
    <3>1. \E j \in 1 .. k - 1 : Wins(signals, j, n, k - 1)
      <4>1. CASE i = k
        <5>1. PICK c \in components : c.target = n
          BY <1>14, <2>2, <4>1 DEF Hits, taken
        <5>2. PICK m \in Nodes, j \in 1 .. k - 1 :
                 Wins(signals, j, m, k - 1) /\ c = Component(m, signals[j])
          BY <5>1 DEF WinnersMapped
        <5>3. QED
          BY <1>5, <5>1, <5>2
      <4>2. CASE i # k
        BY <1>3, <1>14, <4>2 DEF WinnersMapped
      <4>3. QED
        BY <4>1, <4>2
    <3>2. QED
      BY <1>2, <1>7, <2>2, <3>1
  <2>3. QED
    BY <2>1, <2>2
<1>15. QED
  BY <1>12, <1>13, <1>14 DEF WinnersMapped

\* The components of an incident are those of the winners among all its signals.
LEMMA ComponentsAreWinners ==
    ASSUME NEW signals \in Seq(SignalRecords)
    PROVE  WinnersMapped(Components(signals), signals, Len(signals))
<1> DEFINE n == Len(signals)
<1>1. n \in Nat
  BY SignalFacts
<1>2. PICK trail : Mapping(trail, signals) /\ Components(signals) = trail[n]
  BY MappingLoops
<1> DEFINE wrong == {k \in 0 .. n : ~ WinnersMapped(trail[k], signals, k)}
<1>3. WinnersMapped(trail[0], signals, 0)
  <2>1. trail[0] = {} /\ 1 .. 0 = {}
    BY <1>2 DEF Mapping
  <2>2. QED
    BY <2>1 DEF WinnersMapped
<1>4. ASSUME wrong # {} PROVE FALSE
  <2>1. wrong \subseteq Nat
    BY <1>1
  <2> HIDE DEF wrong
  <2>2. PICK k \in wrong : \A m \in wrong : k <= m
    BY <1>4, <2>1, Least
  <2> USE DEF wrong
  <2>3. k \in 1 .. n /\ k - 1 \in 0 .. n /\ ~ (k <= k - 1)
    BY <1>1, <1>3, <2>2
  <2>4. WinnersMapped(trail[k - 1], signals, k - 1)
    BY <2>2, <2>3
  <2>5. trail[k] = Mapped(trail[k - 1], signals[k])
    BY <1>2, <2>3 DEF Mapping
  <2>6. WinnersMapped(trail[k], signals, k)
    BY <2>3, <2>4, <2>5, MappedKeepsWinners
  <2>7. QED
    BY <2>2, <2>6
<1>5. n \in 0 .. n
  BY <1>1
<1>6. QED
  BY <1>2, <1>4, <1>5

LEMMA TheStrongestWin ==
    ASSUME NEW signals \in Seq(SignalRecords)
    PROVE  StrongestWins(signals) /\ NothingDropped(signals)
<1> DEFINE N == Len(signals)
           hits(n) == {k \in DOMAIN signals : signals[k].operational /\ n \in signals[k].matches}
           wins(k, n) == \A j \in hits(n) : signals[j].severity <= signals[k].severity
           best(n) == {k \in hits(n) : wins(k, n)}
<1>1. /\ N \in Nat /\ DOMAIN signals = 1 .. N
      /\ \A k \in 1 .. N : signals[k].severity \in Int /\ signals[k].matches \in SUBSET Nodes
  BY SignalFacts
<1>2. WinnersMapped(Components(signals), signals, N)
  BY ComponentsAreWinners
<1>3. \A n, k : k \in hits(n) <=> k \in 1 .. N /\ Hits(signals, k, n)
  BY <1>1 DEF Hits
<1>4. ASSUME NEW n \in Nodes, NEW j \in 1 .. N, Wins(signals, j, n, N)
      PROVE  Min(best(n)) = j /\ hits(n) # {}
  <2>1. j \in best(n) /\ hits(n) # {}
    BY <1>3, <1>4 DEF Wins
  <2>2. ASSUME NEW k \in best(n) PROVE j <= k
    <3>1. k \in 1 .. N /\ Hits(signals, k, n)
      BY <1>3
    <3>2. signals[j].severity <= signals[k].severity
      BY <2>1
    <3>3. k < j => signals[k].severity < signals[j].severity
      BY <1>4, <3>1 DEF Wins
    <3>4. signals[j].severity \in Int /\ signals[k].severity \in Int /\ k \in Int /\ j \in Int
      BY <1>1, <3>1
    <3>5. QED
      BY <3>2, <3>3, <3>4
  <2>3. best(n) \subseteq Int
    BY <1>1
  <2> HIDE DEF best
  <2>4. QED
    BY <2>1, <2>2, <2>3, MinIsLeast
<1>5. \A n \in Nodes : hits(n) # {} => \E j \in 1 .. N : Wins(signals, j, n, N)
  BY <1>2, <1>3 DEF WinnersMapped
<1>6. Components(signals)
         = {Component(n, signals[Min(best(n))]) : n \in {m \in Nodes : hits(m) # {}}}
  <2> HIDE DEF best, hits
  <2>1. ASSUME NEW c \in Components(signals)
        PROVE  c \in {Component(n, signals[Min(best(n))]) : n \in {m \in Nodes : hits(m) # {}}}
    <3>1. PICK n \in Nodes, j \in 1 .. N :
             Wins(signals, j, n, N) /\ c = Component(n, signals[j])
      BY <1>2, <2>1 DEF WinnersMapped
    <3>2. QED
      BY <1>4, <3>1
  <2>2. ASSUME NEW n \in Nodes, hits(n) # {}
        PROVE  Component(n, signals[Min(best(n))]) \in Components(signals)
    <3>1. PICK j \in 1 .. N : Wins(signals, j, n, N)
      BY <1>5, <2>2
    <3>2. Min(best(n)) = j
      BY <1>4, <3>1
    <3>3. Component(n, signals[j]) \in Components(signals)
      BY <1>2, <3>1 DEF WinnersMapped
    <3>4. QED
      BY <3>2, <3>3
  <2>3. QED
    BY <2>1, <2>2
<1>7. StrongestWins(signals)
  BY <1>6 DEF StrongestWins
<1>8. ASSUME NEW k \in DOMAIN signals \ Context(signals), NEW n \in signals[k].matches
      PROVE  \E c \in Components(signals) : c.target = n /\ c.severity >= signals[k].severity
  <2>1. k \in 1 .. N /\ n \in Nodes /\ Hits(signals, k, n)
    BY <1>1 DEF Context, Hits
  <2>2. PICK j \in 1 .. N : Wins(signals, j, n, N)
    BY <1>2, <2>1 DEF WinnersMapped
  <2>3. Component(n, signals[j]) \in Components(signals)
    BY <1>2, <2>1, <2>2 DEF WinnersMapped
  <2>4. signals[k].severity <= signals[j].severity
    BY <2>1, <2>2 DEF Wins
  <2>5. signals[k].severity \in Int /\ signals[j].severity \in Int
    BY <1>1, <2>1
  <2>6. Component(n, signals[j]).target = n
        /\ Component(n, signals[j]).severity = signals[j].severity
    BY DEF Component
  <2>7. signals[j].severity >= signals[k].severity
    BY <2>4, <2>5
  <2>8. QED
    BY <2>3, <2>6, <2>7
<1>9. QED
  BY <1>7, <1>8 DEF NothingDropped

LEMMA ShadowsAreShared ==
    ASSUME NEW edges, NEW observed, NEW signals
    PROVE  SharedOnly(edges, observed, signals)
<1> DEFINE matched == Matched(signals)
           hit     == matched \ Geographies
           common(p) == Common(edges, p[1], p[2])
           sharing == {p \in hit \X hit :
                         p[1] # p[2] /\ Declared(edges, p[1]) \cap Declared(edges, p[2]) # {}}
<1> SUFFICES ASSUME NEW s \in Shadows(edges, observed, matched)
             PROVE  /\ \E n \in matched \ {s.from} : s.to \in Declared(edges, n)
                    /\ s.to \in Declared(edges, s.from)
                    /\ ~ Observed(observed, s.from, s.to)
  BY DEF SharedOnly
<1>1. PICK p \in sharing :
         \E n \in {p[1], p[2]} :
            ~ Observed(observed, n, common(p)) /\ s = [from |-> n, to |-> common(p)]
  BY DEF Shadows
<1>2. PICK n \in {p[1], p[2]} :
         ~ Observed(observed, n, common(p)) /\ s = [from |-> n, to |-> common(p)]
  BY <1>1
<1>3. common(p) \in Declared(edges, p[1]) \cap Declared(edges, p[2])
  BY <1>1 DEF Common
<1>4. p[1] \in matched /\ p[2] \in matched /\ p[1] # p[2]
  BY <1>1
<1>5. s.from = n /\ s.to = common(p)
  BY <1>2
<1> HIDE DEF common, sharing, matched
<1>6. CASE n = p[1]
  BY <1>2, <1>3, <1>4, <1>5, <1>6
<1>7. CASE n = p[2]
  BY <1>2, <1>3, <1>4, <1>5, <1>7
<1>8. QED
  BY <1>2, <1>6, <1>7

\* What is analysed is one of the cases, from beginning to end.
CaseKept ==
    /\ case \in Cases
    /\ net = case.net /\ input.hidden = case.hidden

LEMMA InitCase == Init => CaseKept
BY DEF Init, StructuralInit, CaseKept

LEMMA NextCase == CaseKept /\ [Next]_vars => CaseKept'
<1> SUFFICES ASSUME CaseKept, [Next]_vars PROVE CaseKept'
  OBVIOUS
<1>1. CASE StructuralNext /\ UNCHANGED runVars
  <2>1. UNCHANGED case
    BY <1>1 DEF runVars
  <2>2. UNCHANGED <<net, input>>
    BY <1>1 DEF StructuralNext, KahnStep, Accept, Reject, Search, SearchEnds, Flow, FlowEnds
  <2>3. QED
    BY <2>1, <2>2 DEF CaseKept
<1>2. CASE Optimize \/ GreedyRound
  BY <1>2 DEF Optimize, GreedyRound, structuralVars, CaseKept
<1>3. CASE GreedyEnds
  BY <1>3 DEF GreedyEnds, runVars, CaseKept
<1>4. CASE \E onPathway \in SUBSET Affected : Assess(onPathway)
  BY <1>4 DEF Assess, CaseKept
<1>5. CASE UNCHANGED vars
  <2>1. UNCHANGED <<structuralVars, runVars>>
    BY <1>5 DEF vars
  <2>2. UNCHANGED <<net, input, case>>
    BY <2>1 DEF structuralVars, runVars
  <2>3. QED
    BY <2>2 DEF CaseKept
<1>6. QED
  BY <1>1, <1>2, <1>3, <1>4, <1>5 DEF Next

\* The incident that is simulated is what the signals say: the most severe operational
\* signal of every node, and nothing is lost between simulation and context
\* (mapping.py:50); candidate edges rest on two nodes and on nothing observed
\* (shadow.py:3-7).
THEOREM IncidentIsFair == Spec => []MappingIsFair
<1>1. CaseKept => MappingIsFair
  <2> SUFFICES ASSUME CaseKept PROVE MappingIsFair
    OBVIOUS
  <2>1. case.signals \in Seq(SignalRecords)
    BY RunAssumption DEF CaseKept
  <2>2. QED
    BY <2>1, TheStrongestWin, ShadowsAreShared DEF MappingIsFair
<1>2. QED
  BY InitCase, NextCase, <1>1, PTL DEF Spec
-------------------------------------------------------------------------------
(* Sums and greatest values over finite sets *)

\* What MapThenSumSet of the community modules computes.
Adds(f, sum, D) ==
    sum = [s \in D |-> IF s = {} THEN 0 ELSE f[AnyOf(s)] + sum[s \ {AnyOf(s)}]]

LEMMA AnyOfIsOne ==
    ASSUME NEW s, s # {}
    PROVE  AnyOf(s) \in s
BY DEF AnyOf

\* A sum of naturals is defined.
LEMMA SumExists ==
    ASSUME NEW f, NEW S, IsFiniteSet(S), \A x \in S : f[x] \in Nat
    PROVE  \E sum : Adds(f, sum, SUBSET S)
<1> DEFINE pick == [s \in SUBSET S |-> AnyOf(s)]
           step == [x \in Nat \X S |-> f[x[2]] + x[1]]
<1>1. \A s \in SUBSET S : pick[s] = AnyOf(s) /\ (s # {} => pick[s] \in s)
  BY AnyOfIsOne
<1>2. step \in [Nat \X S -> Nat]
  OBVIOUS
<1>3. PICK g \in [SUBSET S -> Nat] : Folds(g, 0, step, pick, SUBSET S)
  <2> HIDE DEF step, pick
  <2>1. QED
    BY <1>1, <1>2, FoldExists
<1>4. ASSUME NEW s \in SUBSET S
      PROVE  g[s] = IF s = {} THEN 0 ELSE f[AnyOf(s)] + g[s \ {AnyOf(s)}]
  <2>1. CASE s = {}
    BY <1>3, <2>1 DEF Folds
  <2>2. CASE s # {}
    <3>1. AnyOf(s) \in S /\ s \ {AnyOf(s)} \in SUBSET S
      BY <2>2, AnyOfIsOne
    <3>2. g[s \ {AnyOf(s)}] \in Nat
      BY <1>3, <3>1
    <3>3. g[s] = step[<<g[s \ {AnyOf(s)}], AnyOf(s)>>]
      BY <1>1, <1>3, <2>2 DEF Folds
    <3>4. QED
      BY <2>2, <3>1, <3>2, <3>3
  <2>3. QED
    BY <2>1, <2>2
<1>5. g = [s \in SUBSET S |-> g[s]]
  BY <1>3
<1>6. QED
  BY <1>4, <1>5 DEF Adds

\* It is a natural.
LEMMA SumsAreNat ==
    ASSUME NEW f, NEW S, IsFiniteSet(S), \A x \in S : f[x] \in Nat,
           NEW sum, Adds(f, sum, SUBSET S)
    PROVE  sum[S] \in Nat
<1> DEFINE pick == [s \in SUBSET S |-> AnyOf(s)]
           P    == {s \in SUBSET S : sum[s] \in Nat}
<1>1. \A s \in SUBSET S : sum[s] = IF s = {} THEN 0 ELSE f[AnyOf(s)] + sum[s \ {AnyOf(s)}]
  BY DEF Adds
<1>2. \A s \in SUBSET S : pick[s] = AnyOf(s) /\ (s # {} => pick[s] \in s)
  BY AnyOfIsOne
<1>3. ASSUME NEW s \in SUBSET S, s # {}, s \ {pick[s]} \in P PROVE s \in P
  <2>1. AnyOf(s) \in S /\ sum[s \ {AnyOf(s)}] \in Nat
    BY <1>2, <1>3
  <2>2. sum[s] = f[AnyOf(s)] + sum[s \ {AnyOf(s)}]
    BY <1>1, <1>3
  <2>3. sum[s] \in Nat
    BY <2>1, <2>2
  <2>4. QED
    BY <2>3
<1>4. {} \in P
  <2>1. sum[{}] = 0
    BY <1>1
  <2>2. QED
    BY <2>1
<1> HIDE DEF pick
<1>5. \A s \in SUBSET S : s \in P
  <2> HIDE DEF P
  <2>1. QED
    BY <1>2, <1>3, <1>4, SubsetInduction
<1>6. QED
  BY <1>5

\* Some element of a finite set has the greatest value.
LEMMA GreatestExists ==
    ASSUME NEW S, IsFiniteSet(S), S # {}, NEW f, \A x \in S : f[x] \in Int
    PROVE  \E m \in S : \A x \in S : f[x] <= f[m]
<1> DEFINE pick == [s \in SUBSET S |-> AnyOf(s)]
           P    == {s \in SUBSET S : s # {} => \E m \in s : \A x \in s : f[x] <= f[m]}
<1>1. \A s \in SUBSET S : s # {} => pick[s] \in s
  BY AnyOfIsOne
<1>2. ASSUME NEW s \in SUBSET S, s # {}, s \ {pick[s]} \in P PROVE s \in P
  <2> DEFINE y == pick[s]
  <2>1. y \in s /\ f[y] \in Int
    BY <1>1, <1>2
  <2> HIDE DEF pick
  <2>2. CASE s \ {y} = {}
    BY <2>1, <2>2
  <2>3. CASE s \ {y} # {}
    <3>1. PICK m \in s \ {y} : \A x \in s \ {y} : f[x] <= f[m]
      BY <1>2, <2>3
    <3>2. f[m] \in Int /\ \A x \in s : f[x] \in Int
      BY <3>1
    <3> HIDE DEF y
    <3>3. CASE f[y] <= f[m]
      BY <3>1, <3>3
    <3>4. CASE f[m] <= f[y]
      <4>1. \A x \in s : f[x] <= f[y]
        BY <2>1, <3>1, <3>2, <3>4
      <4>2. QED
        BY <2>1, <4>1
    <3>5. QED
      BY <2>1, <3>2, <3>3, <3>4
  <2>4. QED
    BY <2>2, <2>3
<1>3. {} \in P
  OBVIOUS
<1> HIDE DEF pick
<1>4. \A s \in SUBSET S : s \in P
  <2> HIDE DEF P
  <2>1. QED
    BY <1>1, <1>2, <1>3, SubsetInduction
<1>5. QED
  BY <1>4

\* Max is the greatest of such values.
LEMMA MaxOfValues ==
    ASSUME NEW S, IsFiniteSet(S), S # {}, NEW f, \A x \in S : f[x] \in Int
    PROVE  \E m \in S : Max({f[x] : x \in S}) = f[m] /\ \A x \in S : f[x] <= f[m]
<1>1. PICK m \in S : \A x \in S : f[x] <= f[m]
  BY GreatestExists
<1> DEFINE values == {f[x] : x \in S}
<1>2. values \subseteq Int /\ f[m] \in values /\ \A v \in values : f[m] >= v
  BY <1>1
<1> HIDE DEF values
<1>3. \A v \in values : (\A w \in values : v >= w) => v = f[m]
  BY <1>2
<1>4. Max(values) = f[m]
  BY <1>2, <1>3 DEF Max
<1>5. QED
  BY <1>1, <1>4 DEF values
-------------------------------------------------------------------------------
(* What a set of actions is worth *)

Sets == SUBSET Actions
Decisions(d) == d.library \subseteq Actions /\ \A S \in Sets : d.loss[S] \in Nat

LEMMA SetFacts ==
    ASSUME NEW S \in Sets
    PROVE  /\ IsFiniteSet(S) /\ Cardinality(S) \in Nat /\ S \subseteq Nat
           /\ \A a \in S : /\ Profile[a].cost \in Nat /\ Profile[a].duration \in Nat
                           /\ Profile[a].risk \in Nat /\ Profile[a].undo \in Nat
<1>1. S \in SUBSET Actions /\ IsFiniteSet(Actions) /\ Actions \subseteq Nat
  BY ContainmentAssumption DEF Sets
<1>2. IsFiniteSet(S) /\ Cardinality(S) \in Nat
  BY <1>1, FS_Subset, FS_CardinalityType
<1>3. \A a \in S : /\ Profile[a].cost \in Nat /\ Profile[a].duration \in Nat
                   /\ Profile[a].risk \in Nat /\ Profile[a].undo \in 0 .. 100
  BY <1>1, ContainmentAssumption
<1>4. QED
  BY <1>1, <1>2, <1>3

LEMMA CostIsNat ==
    ASSUME NEW S \in Sets
    PROVE  Cost(S) \in Nat
<1> DEFINE f == [a \in S |-> Profile[a].cost]
           Fits(g) == g = [s \in SUBSET S |->
                             IF s = {} THEN 0
                             ELSE Profile[CHOOSE x \in s : TRUE].cost
                                    + g[s \ {CHOOSE x \in s : TRUE}]]
           sum == CHOOSE g : Fits(g)
<1>1. IsFiniteSet(S) /\ \A a \in S : f[a] \in Nat /\ f[a] = Profile[a].cost
  BY SetFacts
<1>2. Cost(S) = sum[S]
  BY DEF Cost, MapThenSumSet, MapThenFoldSet
<1>3. \A s \in SUBSET S : s # {} => AnyOf(s) \in S
  BY DEF AnyOf
<1>4. ASSUME NEW g PROVE Fits(g) <=> Adds(f, g, SUBSET S)
  <2> DEFINE mine == [s \in SUBSET S |-> IF s = {} THEN 0
                        ELSE Profile[AnyOf(s)].cost + g[s \ {AnyOf(s)}]]
             other == [s \in SUBSET S |-> IF s = {} THEN 0
                        ELSE f[AnyOf(s)] + g[s \ {AnyOf(s)}]]
  <2>1. \A s \in SUBSET S : mine[s] = other[s]
    BY <1>1, <1>3
  <2>2. mine = [s \in SUBSET S |-> mine[s]] /\ other = [s \in SUBSET S |-> other[s]]
    OBVIOUS
  <2> HIDE DEF mine, other
  <2>3. mine = other
    BY <2>1, <2>2
  <2>4. Fits(g) <=> g = mine
    BY DEF AnyOf, mine
  <2>5. Adds(f, g, SUBSET S) <=> g = other
    BY DEF Adds, other
  <2>6. QED
    BY <2>3, <2>4, <2>5
<1> HIDE DEF f, Fits
<1>5. PICK g : Fits(g)
  BY <1>1, <1>4, SumExists
<1>6. Fits(sum)
  BY <1>5
<1> HIDE DEF sum
<1>7. Adds(f, sum, SUBSET S)
  BY <1>4, <1>6
<1>8. sum[S] \in Nat
  BY <1>1, <1>7, SumsAreNat
<1>9. QED
  BY <1>2, <1>8

LEMMA UndoIsInt ==
    ASSUME NEW S \in Sets
    PROVE  Undo(S) \in Int
<1> DEFINE f == [a \in S |-> Profile[a].undo]
           Fits(g) == g = [s \in SUBSET S |->
                             IF s = {} THEN 0
                             ELSE Profile[CHOOSE x \in s : TRUE].undo
                                    + g[s \ {CHOOSE x \in s : TRUE}]]
           sum == CHOOSE g : Fits(g)
<1>1. IsFiniteSet(S) /\ \A a \in S : f[a] \in Nat /\ f[a] = Profile[a].undo
  BY SetFacts
<1>2. Undo(S) = IF S = {} THEN 100 ELSE sum[S] \div Cardinality(S)
  BY DEF Undo, MapThenSumSet, MapThenFoldSet
<1>3. \A s \in SUBSET S : s # {} => AnyOf(s) \in S
  BY DEF AnyOf
<1>4. ASSUME NEW g PROVE Fits(g) <=> Adds(f, g, SUBSET S)
  <2> DEFINE mine == [s \in SUBSET S |-> IF s = {} THEN 0
                        ELSE Profile[AnyOf(s)].undo + g[s \ {AnyOf(s)}]]
             other == [s \in SUBSET S |-> IF s = {} THEN 0
                        ELSE f[AnyOf(s)] + g[s \ {AnyOf(s)}]]
  <2>1. \A s \in SUBSET S : mine[s] = other[s]
    BY <1>1, <1>3
  <2>2. mine = [s \in SUBSET S |-> mine[s]] /\ other = [s \in SUBSET S |-> other[s]]
    OBVIOUS
  <2> HIDE DEF mine, other
  <2>3. mine = other
    BY <2>1, <2>2
  <2>4. Fits(g) <=> g = mine
    BY DEF AnyOf, mine
  <2>5. Adds(f, g, SUBSET S) <=> g = other
    BY DEF Adds, other
  <2>6. QED
    BY <2>3, <2>4, <2>5
<1> HIDE DEF f, Fits
<1>5. PICK g : Fits(g)
  BY <1>1, <1>4, SumExists
<1>6. Fits(sum)
  BY <1>5
<1> HIDE DEF sum
<1>7. Adds(f, sum, SUBSET S)
  BY <1>4, <1>6
<1>8. sum[S] \in Nat
  BY <1>1, <1>7, SumsAreNat
<1>9. S # {} => Cardinality(S) \in Nat \ {0}
  BY <1>1, SetFacts, FS_EmptySet
<1>10. S # {} => sum[S] \div Cardinality(S) \in Int
  BY <1>8, <1>9
<1>11. QED
  BY <1>2, <1>10

\* The worst of an aspect of some actions, 0 of none, is a number.
LEMMA WorstIsInt ==
    ASSUME NEW S \in Sets, NEW f, \A a \in S : f[a] \in Nat
    PROVE  Max({0} \cup {f[a] : a \in S}) \in Int
<1> DEFINE values == {0} \cup {f[a] : a \in S}
<1>1. IsFiniteSet(S) /\ S \subseteq Nat
  BY SetFacts
<1>2. \E m \in values : m \in Int /\ \A v \in values : m >= v
  <2>1. CASE S = {}
    <3>1. values = {0}
      BY <2>1
    <3>2. QED
      BY <3>1
  <2>2. CASE S # {}
    <3>0. \A a \in S : f[a] \in Int
      OBVIOUS
    <3>1. PICK m \in S : \A a \in S : f[a] <= f[m]
      BY <1>1, <2>2, <3>0, GreatestExists
    <3>2. f[m] \in values /\ \A v \in values : f[m] >= v
      BY <3>1
    <3>3. QED
      BY <3>1, <3>2
  <2>3. QED
    BY <2>1, <2>2
<1>3. \A v \in values : v \in Int
  OBVIOUS
<1> HIDE DEF values
<1>4. Max(values) \in Int
  BY <1>2, <1>3 DEF Max
<1>5. QED
  BY <1>4 DEF values

LEMMA UtilityIsInt ==
    ASSUME NEW S \in Sets, NEW decision, Decisions(decision)
    PROVE  Utility(S, decision) \in Int
<1>1. Cost(S) \in Int /\ Undo(S) \in Int
  BY CostIsNat, UndoIsInt
<1>2. TimeToEffect(S) \in Int
  <2> DEFINE f == [a \in S |-> Profile[a].duration]
  <2>1. \A a \in S : f[a] \in Nat
    BY SetFacts
  <2>2. {f[a] : a \in S} = {Profile[a].duration : a \in S}
    OBVIOUS
  <2> HIDE DEF f
  <2>3. QED
    BY <2>1, <2>2, WorstIsInt DEF TimeToEffect
<1>3. Risk(S) \in Int
  <2> DEFINE f == [a \in S |-> Profile[a].risk]
  <2>1. \A a \in S : f[a] \in Nat
    BY SetFacts
  <2>2. {f[a] : a \in S} = {Profile[a].risk : a \in S}
    OBVIOUS
  <2> HIDE DEF f
  <2>3. QED
    BY <2>1, <2>2, WorstIsInt DEF Risk
<1>4. /\ Weights.undo \in Int /\ Weights.cost \in Int /\ Weights.time \in Int
      /\ Weights.collateral \in Int
  <2>1. \A aspect \in {"undo", "cost", "time", "collateral"} : Weights[aspect] \in Int
    BY ContainmentAssumption
  <2>2. QED
    BY <2>1
<1>5. decision.loss[S] \in Int
  BY DEF Decisions
<1>6. /\ Weights.undo * Undo(S) \in Int /\ Weights.cost * Cost(S) \in Int
      /\ Weights.time * TimeToEffect(S) \in Int /\ Weights.collateral * Risk(S) \in Int
  BY <1>1, <1>2, <1>3, <1>4
<1>7. QED
  BY <1>5, <1>6 DEF Utility
-------------------------------------------------------------------------------
(* The order of the sets *)

\* Where two sets differ first.
Parting(S, T) == Min((S \ T) \cup (T \ S))

LEMMA PartingFacts ==
    ASSUME NEW S \in Sets, NEW T \in Sets, S # T
    PROVE  /\ Parting(S, T) \in Nat /\ Parting(S, T) = Parting(T, S)
           /\ Parting(S, T) \in S <=> Parting(S, T) \notin T
           /\ \A a \in Nat : a < Parting(S, T) => (a \in S <=> a \in T)
<1> DEFINE D == (S \ T) \cup (T \ S)
<1>1. D \subseteq Nat /\ D # {}
  BY SetFacts
<1>2. PICK m \in D : \A n \in D : m <= n
  BY <1>1, Least
<1>3. (T \ S) \cup (S \ T) = D
  OBVIOUS
<1> HIDE DEF D
<1>4. Min(D) = m
  <2>1. D \subseteq Int
    BY <1>1
  <2>2. QED
    BY <1>2, <2>1, MinIsLeast
<1>5. \A a \in Nat : a < m => a \notin D
  BY <1>1, <1>2
<1>6. QED
  BY <1>1, <1>2, <1>3, <1>4, <1>5 DEF Parting, D

\* S comes first if T goes on where they part, or S ends there.
LEMMA BeforeMeans ==
    ASSUME NEW S \in Sets, NEW T \in Sets
    PROVE  Before(S, T) <=> IF Parting(S, T) \in S THEN \E a \in T : a > Parting(S, T)
                            ELSE \A a \in S : a < Parting(S, T)
BY DEF Before, Parting

LEMMA BeforeIsTotal ==
    ASSUME NEW S \in Sets, NEW T \in Sets, S # T
    PROVE  (Before(S, T) \/ Before(T, S)) /\ ~ (Before(S, T) /\ Before(T, S))
<1> DEFINE m == Parting(S, T)
<1>1. m \in Nat /\ m = Parting(T, S) /\ (m \in S <=> m \notin T)
  BY PartingFacts
<1>2. S \subseteq Nat /\ T \subseteq Nat
  BY SetFacts
<1>3. /\ Before(S, T) <=> IF m \in S THEN \E a \in T : a > m ELSE \A a \in S : a < m
      /\ Before(T, S) <=> IF m \in T THEN \E a \in S : a > m ELSE \A a \in T : a < m
  BY <1>1, BeforeMeans
<1> HIDE DEF m
<1>4. \A U \in {S, T} : m \notin U => (~ \E a \in U : a > m) <=> (\A a \in U : a < m)
  BY <1>1, <1>2
<1>5. QED
  BY <1>1, <1>3, <1>4

LEMMA BeforeIsTransitive ==
    ASSUME NEW S \in Sets, NEW T \in Sets, NEW R \in Sets, S # T, T # R, S # R,
           Before(S, T), Before(T, R)
    PROVE  Before(S, R)
<1> DEFINE m == Parting(S, T)
           k == Parting(T, R)
           h == Parting(S, R)
<1>1. /\ m \in Nat /\ (m \in S <=> m \notin T)
      /\ \A a \in Nat : a < m => (a \in S <=> a \in T)
  BY PartingFacts
<1>2. /\ k \in Nat /\ (k \in T <=> k \notin R)
      /\ \A a \in Nat : a < k => (a \in T <=> a \in R)
  BY PartingFacts
<1>3. /\ h \in Nat /\ (h \in S <=> h \notin R)
      /\ \A a \in Nat : a < h => (a \in S <=> a \in R)
  BY PartingFacts
<1>4. S \subseteq Nat /\ T \subseteq Nat /\ R \subseteq Nat
  BY SetFacts
<1>5. IF m \in S THEN \E a \in T : a > m ELSE \A a \in S : a < m
  BY BeforeMeans
<1>6. IF k \in T THEN \E a \in R : a > k ELSE \A a \in T : a < k
  BY BeforeMeans
<1>7. Before(S, R) <=> IF h \in S THEN \E a \in R : a > h ELSE \A a \in S : a < h
  BY BeforeMeans
<1> HIDE DEF m, k, h
<1>8. CASE m < k
  <2>1. m \in T <=> m \in R
    BY <1>1, <1>2, <1>8
  <2>2. ~ (h < m)
    BY <1>1, <1>2, <1>3, <1>8
  <2>3. ~ (m < h)
    BY <1>1, <1>3, <2>1
  <2>4. h = m
    BY <1>1, <1>3, <2>2, <2>3
  <2>5. CASE m \in S
    <3>1. k \in R => k > m
      BY <1>1, <1>2, <1>8
    <3>2. CASE k \in R
      BY <1>7, <2>4, <2>5, <3>1, <3>2
    <3>3. CASE k \in T
      <4>1. PICK a \in R : a > k
        BY <1>6, <3>3
      <4>2. a > m
        BY <1>1, <1>2, <1>4, <1>8, <4>1
      <4>3. QED
        BY <1>7, <2>4, <2>5, <4>2
    <3>4. QED
      BY <1>2, <3>2, <3>3
  <2>6. CASE m \notin S
    BY <1>5, <1>7, <2>4, <2>6
  <2>7. QED
    BY <2>5, <2>6
<1>9. CASE k < m
  <2>1. k \in S <=> k \in T
    BY <1>1, <1>2, <1>9
  <2>2. ~ (h < k)
    BY <1>1, <1>2, <1>3, <1>9
  <2>3. ~ (k < h)
    BY <1>2, <1>3, <2>1
  <2>4. h = k
    BY <1>2, <1>3, <2>2, <2>3
  <2>5. CASE k \in T
    BY <1>6, <1>7, <2>1, <2>4, <2>5
  <2>6. CASE k \notin T
    <3>1. \A a \in T : a < k
      BY <1>6, <2>6
    <3>2. ~ \E a \in T : a >= m
      BY <1>1, <1>2, <1>4, <1>9, <3>1
    <3>3. m \notin T /\ ~ \E a \in T : a > m
      BY <1>1, <1>4, <3>2
    <3>4. QED
      BY <1>1, <1>5, <3>3
  <2>7. QED
    BY <2>5, <2>6
<1>10. CASE m = k
  <2>1. CASE m \in S
    <3>1. m \notin T /\ \A a \in T : a < m
      BY <1>1, <1>6, <1>10, <2>1
    <3>2. PICK a \in T : a > m
      BY <1>5, <2>1
    <3>3. QED
      BY <1>1, <1>4, <3>1, <3>2
  <2>2. CASE m \notin S
    <3>1. m \in T /\ m \notin R /\ \A a \in S : a < m
      BY <1>1, <1>2, <1>5, <1>10, <2>2
    <3>2. PICK r \in R : r > m
      BY <1>6, <1>10, <3>1
    <3>3. h >= m
      BY <1>1, <1>2, <1>3, <1>10
    <3>4. h \notin S /\ \A a \in S : a < h
      BY <1>1, <1>3, <1>4, <3>1, <3>3
    <3>5. QED
      BY <1>7, <3>4
  <2>3. QED
    BY <2>1, <2>2
<1>11. QED
  BY <1>1, <1>2, <1>8, <1>9, <1>10

\* The order of the results is strict and total.
LEMMA PrecedesIsOrder ==
    ASSUME NEW decision, Decisions(decision), NEW S \in Sets, NEW T \in Sets, S # T
    PROVE  /\ Precedes(S, T, decision) \/ Precedes(T, S, decision)
           /\ ~ (Precedes(S, T, decision) /\ Precedes(T, S, decision))
           /\ Precedes(S, T, decision) => Utility(T, decision) <= Utility(S, decision)
<1>1. Utility(S, decision) \in Int /\ Utility(T, decision) \in Int
  BY UtilityIsInt
<1>2. (Before(S, T) \/ Before(T, S)) /\ ~ (Before(S, T) /\ Before(T, S))
  BY BeforeIsTotal
<1>3. QED
  BY <1>1, <1>2 DEF Precedes

LEMMA PrecedesIsTransitive ==
    ASSUME NEW decision, Decisions(decision), NEW S \in Sets, NEW T \in Sets, NEW R \in Sets,
           S # T, T # R, S # R, Precedes(S, T, decision), Precedes(T, R, decision)
    PROVE  Precedes(S, R, decision)
<1>1. /\ Utility(S, decision) \in Int /\ Utility(T, decision) \in Int
      /\ Utility(R, decision) \in Int
  BY UtilityIsInt
<1>2. Before(S, T) /\ Before(T, R) => Before(S, R)
  BY BeforeIsTransitive
<1>3. QED
  BY <1>1, <1>2 DEF Precedes

First(S, family, decision) == \A T \in family \ {S} : Precedes(S, T, decision)

\* Some set of a ranking comes before all others.
LEMMA FirstExists ==
    ASSUME NEW decision, Decisions(decision), NEW family \in SUBSET Sets, family # {}
    PROVE  \E S \in family : First(S, family, decision)
<1> DEFINE pick == [W \in SUBSET family |-> AnyOf(W)]
           P    == {W \in SUBSET family : W # {} => \E S \in W : First(S, W, decision)}
<1>1. IsFiniteSet(family)
  <2>1. IsFiniteSet(Sets)
    BY ContainmentAssumption, FS_SUBSET DEF Sets
  <2>2. QED
    BY <2>1, FS_Subset
<1>2. \A W \in SUBSET family : W # {} => pick[W] \in W
  BY AnyOfIsOne
<1>3. ASSUME NEW W \in SUBSET family, W # {}, W \ {pick[W]} \in P PROVE W \in P
  <2> DEFINE Y    == pick[W]
             rest == W \ {Y}
  <2>1. Y \in W
    BY <1>2, <1>3
  <2>2. CASE rest = {}
    <3>1. First(Y, W, decision)
      BY <2>2 DEF First
    <3>2. QED
      BY <2>1, <3>1
  <2>3. CASE rest # {}
    <3>1. PICK M \in rest : First(M, rest, decision)
      BY <1>3, <2>3
    <3> HIDE DEF pick
    <3>2. M \in W /\ M # Y /\ M \in Sets /\ Y \in Sets /\ W \subseteq Sets
      BY <2>1, <3>1
    <3> HIDE DEF Y
    <3>3. CASE Precedes(M, Y, decision)
      <4>1. First(M, W, decision)
        BY <3>1, <3>3 DEF First
      <4>2. QED
        BY <3>2, <4>1
    <3>4. CASE Precedes(Y, M, decision)
      <4>1. ASSUME NEW T \in W \ {Y} PROVE Precedes(Y, T, decision)
        <5>1. CASE T = M
          BY <3>4, <5>1
        <5>2. CASE T # M
          <6>1. Precedes(M, T, decision)
            BY <3>1, <5>2 DEF First
          <6>2. T \in Sets /\ T # Y
            BY <3>2
          <6>3. QED
            BY <3>2, <3>4, <5>2, <6>1, <6>2, PrecedesIsTransitive
        <5>3. QED
          BY <5>1, <5>2
      <4>2. First(Y, W, decision)
        BY <4>1 DEF First
      <4>3. QED
        BY <2>1, <4>2
    <3>5. QED
      BY <3>2, <3>3, <3>4, PrecedesIsOrder
  <2>4. QED
    BY <2>2, <2>3
<1>4. {} \in P
  OBVIOUS
<1> HIDE DEF pick
<1>5. \A W \in SUBSET family : W \in P
  <2> HIDE DEF P
  <2>1. QED
    BY <1>1, <1>2, <1>3, <1>4, SubsetInduction
<1>6. QED
  BY <1>5

\* The chosen set is that one, and no other is worth more.
LEMMA ChosenIsFirst ==
    ASSUME NEW decision, Decisions(decision), NEW family \in SUBSET Sets, family # {}
    PROVE  /\ Chosen(family, decision) \in family
           /\ First(Chosen(family, decision), family, decision)
           /\ \A T \in family :
                 Utility(T, decision) <= Utility(Chosen(family, decision), decision)
<1> DEFINE chosen == Chosen(family, decision)
<1>1. \E S \in family : \A T \in family \ {S} : Precedes(S, T, decision)
  BY FirstExists DEF First
<1>2. chosen \in family /\ \A T \in family \ {chosen} : Precedes(chosen, T, decision)
  BY <1>1 DEF Chosen
<1>3. ASSUME NEW T \in family PROVE Utility(T, decision) <= Utility(chosen, decision)
  <2>1. T \in Sets /\ chosen \in Sets
    BY <1>2
  <2>2. CASE T = chosen
    <3>1. Utility(chosen, decision) \in Int
      BY <2>1, UtilityIsInt
    <3> HIDE DEF chosen
    <3>2. QED
      BY <2>2, <3>1
  <2>3. CASE T # chosen
    <3>1. Precedes(chosen, T, decision)
      BY <1>2, <2>3
    <3> HIDE DEF chosen
    <3>2. QED
      BY <2>1, <2>3, <3>1, PrecedesIsOrder
  <2>4. QED
    BY <2>2, <2>3
<1>4. QED
  BY <1>2, <1>3 DEF First

\* What is evaluated are sets of actions, none of them empty.
LEMMA EvaluatedFacts ==
    ASSUME NEW decision, Decisions(decision), NEW S \in Evaluated(decision)
    PROVE  /\ S \in Sets /\ S \subseteq decision.library /\ S # {}
           /\ Cardinality(S) \in 1 .. MaxSetSize /\ Feasible(S, decision.limits)
<1>1. S \in SUBSET decision.library /\ Cardinality(S) \in 1 .. MaxSetSize
      /\ Feasible(S, decision.limits)
  BY DEF Evaluated, Candidates
<1>2. S \in Sets
  BY <1>1 DEF Decisions, Sets
<1>3. S # {}
  BY <1>1, FS_EmptySet
<1>4. QED
  BY <1>1, <1>2, <1>3

\* The action the greedy search adds is one that may join and improves on those picked.
LEMMA BestAdditionFacts ==
    ASSUME NEW decision, Decisions(decision), NEW S \in SUBSET decision.library,
           Additions(S, decision) # {}
    PROVE  BestAddition(S, decision) \in Additions(S, decision)
<1> DEFINE options == Additions(S, decision)
           gain    == [a \in options |-> Gain(a, S, decision)]
           most    == Max({Gain(a, S, decision) : a \in options})
           best    == {a \in options : Gain(a, S, decision) = most}
<1>1. options \in Sets /\ S \in Sets /\ \A a \in options : S \cup {a} \in Sets
  BY DEF Additions, Decisions, Sets
<1>2. IsFiniteSet(options) /\ options \subseteq Nat
  BY <1>1, SetFacts
<1>3. \A a \in options : gain[a] \in Int /\ gain[a] = Gain(a, S, decision)
  <2> TAKE a \in options
  <2>1. Utility(S \cup {a}, decision) \in Int /\ Utility(S, decision) \in Int
    BY <1>1, UtilityIsInt
  <2>2. Gain(a, S, decision) \in Int
    BY <2>1 DEF Gain
  <2>3. QED
    BY <2>2
<1>4. {gain[a] : a \in options} = {Gain(a, S, decision) : a \in options}
  BY <1>3
<1>5. \E m \in options : most = gain[m]
  <2> HIDE DEF options, gain
  <2>1. options # {}
    BY DEF options
  <2>2. PICK m \in options : Max({gain[a] : a \in options}) = gain[m]
    BY <1>2, <1>3, <2>1, MaxOfValues
  <2>3. QED
    BY <1>4, <2>2
<1>6. best # {} /\ best \subseteq Nat
  BY <1>2, <1>3, <1>5
<1>7. BestAddition(S, decision) = Min(best)
  BY DEF BestAddition
<1> HIDE DEF best
<1>8. PICK b \in best : \A a \in best : b <= a
  BY <1>6, Least
<1>9. best \subseteq Int
  BY <1>6
<1>10. Min(best) = b
  BY <1>8, <1>9, MinIsLeast
<1>11. QED
  BY <1>7, <1>8, <1>10 DEF best
-------------------------------------------------------------------------------
(* The two searches *)

\* Every set the greedy search ranked is worth less than what it has picked by now, and
\* that is worth more than doing nothing.
GreedyClimbs ==
    /\ picked \subseteq case.decision.library
    /\ ranked \subseteq Evaluated(case.decision)
    /\ picked = {} => ranked = {}
    /\ picked # {} =>
          /\ picked \in ranked
          /\ Utility(picked, case.decision) > Utility({}, case.decision)
    /\ \A S \in ranked : S # picked =>
          Utility(S, case.decision) < Utility(picked, case.decision)

GreedyIsStuck ==
    Cardinality(picked) = MaxSetSize \/ Additions(picked, case.decision) = {}

Decided == phase \in {"contained", "reported"}

ContainmentIInv ==
    /\ CaseKept
    /\ Exhaustive => ranked = IF Decided THEN Evaluated(case.decision) ELSE {}
    /\ ~ Exhaustive => GreedyClimbs /\ (Decided => GreedyIsStuck)

LEMMA DecisionFacts ==
    ASSUME CaseKept
    PROVE  Decisions(case.decision)
BY RunAssumption DEF CaseKept, Decisions, Sets

LEMMA GreedyRoundClimbs ==
    ASSUME ContainmentIInv, GreedyRound
    PROVE  GreedyClimbs'
<1> DEFINE d   == case.decision
           a   == BestAddition(picked, d)
           new == picked \cup {a}
<1>1. Decisions(d) /\ GreedyClimbs
  BY DecisionFacts DEF ContainmentIInv, GreedyRound
<1>2. /\ picked \in SUBSET d.library /\ Additions(picked, d) # {}
      /\ Cardinality(picked) < MaxSetSize
      /\ picked' = new /\ ranked' = ranked \cup {new} /\ case' = case
  BY <1>1 DEF GreedyClimbs, GreedyRound
<1>3. a \in Additions(picked, d)
  BY <1>1, <1>2, BestAdditionFacts
<1>4. /\ a \in d.library \ picked /\ Feasible(new, d.limits)
      /\ Utility(new, d) - Utility(picked, d) > 0
  BY <1>3 DEF Additions, Gain
<1>5. new \in Sets /\ picked \in Sets /\ {} \in Sets /\ new \subseteq d.library
  BY <1>1, <1>2, <1>4 DEF Decisions, Sets
<1>6. /\ Utility(new, d) \in Int /\ Utility(picked, d) \in Int /\ Utility({}, d) \in Int
      /\ \A S \in ranked : Utility(S, d) \in Int
  <2>1. \A S \in ranked : S \in Sets
    BY <1>1, EvaluatedFacts DEF GreedyClimbs
  <2> HIDE DEF d, new
  <2>2. QED
    BY <1>1, <1>5, <2>1, UtilityIsInt
<1>7. new \in Evaluated(d)
  <2>1. IsFiniteSet(picked) /\ Cardinality(picked) \in Nat
    BY <1>5, SetFacts
  <2>2. Cardinality(new) = Cardinality(picked) + 1
    BY <1>4, <2>1, FS_AddElement
  <2>3. Cardinality(new) \in 1 .. MaxSetSize
    BY <1>2, <2>1, <2>2, ContainmentAssumption
  <2>4. QED
    BY <1>4, <1>5, <2>3 DEF Evaluated, Candidates
<1>8. Utility(new, d) > Utility({}, d)
  <2>1. Utility(picked, d) >= Utility({}, d)
    <3>1. CASE picked = {}
      BY <1>6, <3>1
    <3>2. CASE picked # {}
      BY <1>1, <1>6, <3>2 DEF GreedyClimbs
    <3>3. QED
      BY <3>1, <3>2
  <2> HIDE DEF new, d
  <2>2. QED
    BY <1>4, <1>6, <2>1
<1>9. ASSUME NEW S \in ranked \cup {new}, S # new
      PROVE  Utility(S, d) < Utility(new, d)
  <2>1. S \in ranked
    BY <1>9
  <2>2. Utility(S, d) <= Utility(picked, d)
    <3>1. CASE S = picked
      BY <1>6, <3>1
    <3>2. CASE S # picked
      BY <1>1, <1>6, <2>1, <3>2 DEF GreedyClimbs
    <3>3. QED
      BY <3>1, <3>2
  <2>3. Utility(S, d) \in Int
    BY <1>6, <2>1
  <2> HIDE DEF new, d
  <2>4. QED
    BY <1>4, <1>6, <2>2, <2>3
<1>10. new # {} /\ case'.decision = d
  BY <1>2
<1>11. ranked \cup {new} \subseteq Evaluated(d)
  BY <1>1, <1>7 DEF GreedyClimbs
<1> HIDE DEF new, d
<1>12. QED
  BY <1>2, <1>5, <1>8, <1>9, <1>10, <1>11 DEF GreedyClimbs, d

LEMMA InitContainment == Init => ContainmentIInv
<1> SUFFICES ASSUME Init PROVE ContainmentIInv
  OBVIOUS
<1>1. picked = {} /\ ranked = {} /\ phase = "validate"
  BY DEF Init, StructuralInit
<1>2. QED
  BY <1>1, InitCase DEF ContainmentIInv, GreedyClimbs, Decided

LEMMA NextContainment == ContainmentIInv /\ [Next]_vars => ContainmentIInv'
<1> SUFFICES ASSUME ContainmentIInv, [Next]_vars PROVE ContainmentIInv'
  OBVIOUS
<1>1. CaseKept' /\ case' = case
  <2>1. CaseKept'
    BY NextCase DEF ContainmentIInv
  <2>2. case' = case
    BY DEF Next, Optimize, GreedyRound, GreedyEnds, Assess, runVars, vars
  <2>3. QED
    BY <2>1, <2>2
<1>2. Exhaustive' <=> Exhaustive
  BY <1>1 DEF Exhaustive
<1>3. ASSUME picked' = picked, ranked' = ranked, Decided' <=> Decided
      PROVE  ContainmentIInv'
  <2>1. GreedyClimbs' <=> GreedyClimbs
    BY <1>1, <1>3 DEF GreedyClimbs
  <2>2. GreedyIsStuck' <=> GreedyIsStuck
    BY <1>1, <1>3 DEF GreedyIsStuck
  <2>3. ranked' = ranked /\ case'.decision = case.decision
    BY <1>1, <1>3
  <2>4. QED
    BY <1>1, <1>2, <1>3, <2>1, <2>2, <2>3 DEF ContainmentIInv
<1>4. CASE StructuralNext /\ UNCHANGED runVars
  <2>1. picked' = picked /\ ranked' = ranked
    BY <1>4 DEF runVars
  <2>2. ~ Decided /\ ~ Decided'
    BY <1>4 DEF StructuralNext, KahnStep, Accept, Reject, Search, SearchEnds, Flow, FlowEnds,
                Decided
  <2>3. QED
    BY <1>3, <2>1, <2>2
<1>5. CASE Optimize
  <2>1. Exhaustive /\ ranked' = Evaluated(case.decision) /\ Decided'
    BY <1>5 DEF Optimize, Decided
  <2>2. QED
    BY <1>1, <1>2, <2>1 DEF ContainmentIInv
<1>6. CASE GreedyRound
  <2>1. ~ Exhaustive /\ ~ Decided /\ ~ Decided'
    BY <1>6 DEF GreedyRound, Decided, structuralVars
  <2>2. GreedyClimbs'
    BY <1>6, GreedyRoundClimbs
  <2>3. QED
    BY <1>1, <1>2, <2>1, <2>2 DEF ContainmentIInv
<1>7. CASE GreedyEnds
  <2>1. /\ ~ Exhaustive /\ picked' = picked /\ ranked' = ranked
    BY <1>7 DEF GreedyEnds, runVars
  <2>2. GreedyIsStuck
    BY <1>7 DEF GreedyEnds, GreedyIsStuck
  <2>3. GreedyIsStuck'
    BY <1>1, <2>1, <2>2 DEF GreedyIsStuck
  <2>4. GreedyClimbs'
    BY <1>1, <2>1 DEF ContainmentIInv, GreedyClimbs
  <2>5. QED
    BY <1>1, <1>2, <2>1, <2>3, <2>4 DEF ContainmentIInv
<1>8. CASE \E onPathway \in SUBSET Affected : Assess(onPathway)
  BY <1>3, <1>8 DEF Assess, Decided
<1>9. CASE UNCHANGED vars
  <2>1. UNCHANGED <<structuralVars, runVars>>
    BY <1>9 DEF vars
  <2>2. UNCHANGED <<phase, picked, ranked>>
    BY <2>1 DEF structuralVars, runVars
  <2>3. QED
    BY <1>3, <2>2 DEF Decided
<1>10. QED
  BY <1>4, <1>5, <1>6, <1>7, <1>8, <1>9 DEF Next

\* In a small library everything feasible was compared.
LEMMA ExhaustiveIsBest ==
    ASSUME NEW d, Decisions(d), Cardinality(d.library) <= ExhaustiveLimit,
           NEW family, family = Evaluated(d)
    PROVE  BestIsChosen(family, d)
<1> DEFINE chosen == Chosen(family, d)
<1>1. family \in SUBSET Sets
  BY EvaluatedFacts
<1>2. ASSUME chosen = NoSet, NEW a \in d.library, Feasible({a}, d.limits)
      PROVE  FALSE
  <2>1. Cardinality({a}) = 1 /\ MaxSetSize \in Nat \ {0}
    BY FS_Singleton, ContainmentAssumption
  <2>2. Cardinality({a}) \in 1 .. MaxSetSize
    BY <2>1
  <2>3. {a} \in family
    BY <1>2, <2>2 DEF Evaluated, Candidates
  <2>4. chosen \in family
    BY <1>1, <2>3, ChosenIsFirst
  <2>5. chosen # {}
    BY <2>4, EvaluatedFacts
  <2>6. QED
    BY <1>2, <2>5 DEF NoSet
<1>3. Cardinality(d.library) \in Nat /\ ExhaustiveLimit \in Nat
  <2>1. d.library \in Sets
    BY DEF Decisions, Sets
  <2>2. QED
    BY <2>1, SetFacts, ContainmentAssumption
<1>4. ~ (Cardinality(d.library) > ExhaustiveLimit)
  BY <1>3
<1>5. QED
  BY <1>2, <1>4 DEF BestIsChosen

\* In a large one the search ends where no single action improves what it picked.
LEMMA GreedyIsBest ==
    ASSUME ContainmentIInv, ~ Exhaustive, Decided
    PROVE  BestIsChosen(ranked, case.decision)
<1> DEFINE d      == case.decision
           chosen == Chosen(ranked, d)
           best   == Chosen(Evaluated(d), d)
<1>1. Decisions(d) /\ GreedyClimbs /\ GreedyIsStuck
  BY DecisionFacts DEF ContainmentIInv
<1>2. ranked \subseteq Evaluated(d) /\ ranked \in SUBSET Sets /\ Evaluated(d) \in SUBSET Sets
  BY <1>1, EvaluatedFacts DEF GreedyClimbs
<1>3. /\ {} \in Sets /\ Utility({}, d) \in Int
      /\ \A S \in Evaluated(d) : S # {} /\ Utility(S, d) \in Int
  <2>1. {} \in Sets
    BY DEF Sets
  <2> HIDE DEF d
  <2>2. QED
    BY <1>1, <2>1, EvaluatedFacts, UtilityIsInt
<1>4. CASE ranked = {}
  <2>1. chosen = NoSet
    BY <1>4 DEF Chosen
  <2>2. picked = {}
    BY <1>1, <1>4 DEF GreedyClimbs
  <2>3. Additions({}, d) = {}
    <3>1. Cardinality(picked) = 0 /\ MaxSetSize \in Nat \ {0}
      BY <2>2, FS_EmptySet, ContainmentAssumption
    <3>2. QED
      BY <1>1, <2>2, <3>1 DEF GreedyIsStuck
  <2>4. ASSUME NEW a \in d.library, Feasible({a}, d.limits)
        PROVE  Utility({a}, d) <= Utility({}, d)
    <3>1. {} \cup {a} = {a} /\ a \in d.library \ {}
      OBVIOUS
    <3>2. ~ (Gain(a, {}, d) > 0)
      BY <2>3, <2>4, <3>1 DEF Additions
    <3>3. ~ (Utility({a}, d) - Utility({}, d) > 0)
      BY <3>1, <3>2 DEF Gain
    <3>4. {a} \in Sets
      BY <1>1 DEF Decisions, Sets
    <3>5. Utility({a}, d) \in Int
      BY <1>1, <3>4, UtilityIsInt
    <3> HIDE DEF d
    <3>6. QED
      BY <1>3, <3>3, <3>5
  <2>5. ~ (Cardinality(d.library) <= ExhaustiveLimit)
    BY DEF Exhaustive
  <2>6. QED
    BY <1>2, <2>1, <2>4, <2>5 DEF BestIsChosen
<1>5. CASE ranked # {}
  <2>1. chosen \in ranked /\ \A T \in ranked : Utility(T, d) <= Utility(chosen, d)
    BY <1>1, <1>2, <1>5, ChosenIsFirst
  <2>2. picked # {} /\ picked \in ranked /\ Utility(picked, d) > Utility({}, d)
    BY <1>1, <1>5 DEF GreedyClimbs
  <2>3. chosen = picked
    <3> SUFFICES ASSUME chosen # picked PROVE FALSE
      OBVIOUS
    <3>1. Utility(chosen, d) < Utility(picked, d)
      BY <1>1, <2>1 DEF GreedyClimbs
    <3>2. Utility(picked, d) <= Utility(chosen, d)
      BY <2>1, <2>2
    <3>3. Utility(chosen, d) \in Int /\ Utility(picked, d) \in Int
      BY <1>2, <1>3, <2>1, <2>2
    <3> HIDE DEF d, chosen
    <3>4. QED
      BY <3>1, <3>2, <3>3
  <2>4. chosen # NoSet
    BY <2>2, <2>3 DEF NoSet
  <2>5. Utility(chosen, d) <= Utility(best, d)
    <3>1. chosen \in Evaluated(d) /\ Evaluated(d) # {}
      BY <1>2, <2>1
    <3>2. QED
      BY <1>1, <1>2, <3>1, ChosenIsFirst
  <2>6. Improves(ranked, d)
    BY <1>5, <2>2, <2>3 DEF Improves
  <2>7. ASSUME Cardinality(chosen) < MaxSetSize,
               NEW S \in Evaluated(d), chosen \subseteq S,
               Cardinality(S) = Cardinality(chosen) + 1
        PROVE  Utility(S, d) <= Utility(chosen, d)
    <3>1. S \in Sets /\ picked \in Sets /\ IsFiniteSet(S) /\ S \subseteq d.library
          /\ Feasible(S, d.limits) /\ Cardinality(picked) \in Nat
      BY <1>1, <1>2, <2>2, EvaluatedFacts, SetFacts
    <3>2. Additions(picked, d) = {}
      BY <1>1, <2>3, <2>7, <3>1 DEF GreedyIsStuck
    <3>3. S # picked
      BY <2>3, <2>7, <3>1
    <3>4. PICK a \in S : a \notin picked
      BY <2>3, <2>7, <3>3
    <3>5. picked \cup {a} = S
      <4>1. Cardinality(picked \cup {a}) = Cardinality(picked) + 1
        BY <3>1, <3>4, SetFacts, FS_AddElement
      <4>2. picked \cup {a} \in SUBSET S
        BY <2>3, <2>7, <3>4
      <4>3. QED
        BY <2>3, <2>7, <3>1, <4>1, <4>2, FS_Subset
    <3>6. ~ (Gain(a, picked, d) > 0)
      BY <3>1, <3>2, <3>4, <3>5 DEF Additions
    <3>7. ~ (Utility(S, d) - Utility(picked, d) > 0)
      BY <3>5, <3>6 DEF Gain
    <3>8. Utility(S, d) \in Int /\ Utility(picked, d) \in Int
      BY <1>2, <1>3, <2>2
    <3> HIDE DEF d
    <3>9. QED
      BY <2>3, <3>7, <3>8
  <2>8. ~ (Cardinality(d.library) <= ExhaustiveLimit)
    BY DEF Exhaustive
  <2> HIDE DEF d, chosen
  <2>9. QED
    BY <1>2, <2>4, <2>5, <2>6, <2>7, <2>8 DEF BestIsChosen, chosen, d
<1>6. QED
  BY <1>4, <1>5

\* Whatever is ranked is feasible; the exhaustive choice is the best there is, a greedy
\* one is better than doing nothing and than every set with one action more; and where
\* nothing is chosen no single action helps (exhaustive.py, greedy.py).
THEOREM ChoiceIsBest == Spec => []ContainmentIsBest
<1>1. ContainmentIInv => ContainmentIsBest
  <2> SUFFICES ASSUME ContainmentIInv, phase = "contained"
               PROVE  BestIsChosen(ranked, case.decision)
    BY DEF ContainmentIsBest
  <2>1. Decided
    BY DEF Decided
  <2>2. CASE Exhaustive
    <3>1. Decisions(case.decision) /\ ranked = Evaluated(case.decision)
      BY <2>1, <2>2, DecisionFacts DEF ContainmentIInv
    <3>2. QED
      BY <2>2, <3>1, ExhaustiveIsBest DEF Exhaustive
  <2>3. CASE ~ Exhaustive
    BY <2>1, <2>3, GreedyIsBest
  <2>4. QED
    BY <2>2, <2>3
<1>2. QED
  BY InitContainment, NextContainment, <1>1, PTL DEF Spec
-------------------------------------------------------------------------------
(* Fractions *)

LEMMA DivBound ==
    ASSUME NEW a \in Nat, NEW b \in Nat, NEW u \in Nat \ {0}, b <= u
    PROVE  (a * b) \div u \in Nat /\ (a * b) \div u <= a
BY Z3

LEMMA UnitFacts ==
    /\ Unit \in Nat \ {0} /\ Unit \in Fractions /\ 0 \in Fractions
    /\ \A a \in Fractions : a \in Int /\ 0 <= a /\ a <= Unit /\ Unit - a \in Fractions
BY GraphAssumption DEF Fractions

\* A product of fractions is a fraction, at most each of them.
LEMMA TimesType ==
    ASSUME NEW a \in Fractions, NEW b \in Fractions
    PROVE  /\ Times(a, b) \in Fractions /\ Times(a, b) <= a
           /\ a = 0 \/ b = 0 => Times(a, b) = 0
<1>1. Unit \in Nat \ {0} /\ a \in Nat /\ b \in Nat /\ b <= Unit /\ a <= Unit
  BY GraphAssumption DEF Fractions
<1>2. (a * b) \div Unit \in Nat /\ (a * b) \div Unit <= a
  BY <1>1, DivBound
<1>3. a = 0 \/ b = 0 => a * b = 0
  BY <1>1
<1>4. 0 \div Unit = 0
  BY <1>1
<1>5. QED
  BY <1>1, <1>2, <1>3, <1>4 DEF Times, Fractions

\* The largest of some figures up to a limit bounds them all.
LEMMA MostIsGreatest ==
    ASSUME NEW u \in Nat, NEW S, S \subseteq 0 .. u
    PROVE  /\ Most(S) \in 0 .. u /\ \A x \in S : x <= Most(S)
           /\ Most(S) > 0 => Most(S) \in S
<1> DEFINE T == S \cup {0}
           gaps == {u - t : t \in T}
<1>1. T \subseteq 0 .. u /\ 0 \in T /\ \A t \in T : t \in Int
  OBVIOUS
<1>2. gaps \subseteq Nat /\ gaps # {}
  BY <1>1
<1>3. PICK g \in gaps : \A h \in gaps : g <= h
  BY <1>2, Least
<1>4. PICK m \in T : g = u - m
  OBVIOUS
<1>5. \A t \in T : m >= t
  <2> TAKE t \in T
  <2>1. u - m <= u - t
    BY <1>3, <1>4
  <2>2. QED
    BY <1>1, <2>1
<1>6. \A n \in T : (\A t \in T : n >= t) => n = m
  BY <1>1, <1>5
<1> HIDE DEF gaps
<1>7. Max(T) = m
  <2> HIDE DEF T
  <2>1. QED
    BY <1>5, <1>6 DEF Max
<1>8. Most(S) = m
  BY <1>7 DEF Most
<1>9. \A x \in S : x <= m
  BY <1>1, <1>5
<1>10. QED
  BY <1>1, <1>8, <1>9

\* Of fractions it is a fraction.
LEMMA MostType ==
    ASSUME NEW S, S \subseteq Fractions
    PROVE  /\ Most(S) \in Fractions /\ \A x \in S : x <= Most(S)
           /\ Most(S) > 0 => Most(S) \in S
BY GraphAssumption, MostIsGreatest DEF Fractions
-------------------------------------------------------------------------------
(* What is run, and what a node can deliver *)

InputOK ==
    /\ net \subseteq EdgeOf(Nat, Nat) /\ IsFiniteSet(net)
    /\ input.stress \in [Nodes -> Fractions]
    /\ input.spare \in [Nodes -> Fractions] /\ \A c \in Capabilities : input.spare[c] = 0

LEMMA EdgeFacts ==
    ASSUME InputOK
    PROVE  /\ \A e \in Visible : /\ e.id \in Nat /\ e.from \in Nodes /\ e.to \in Nodes
                                 /\ e.weight \in Fractions /\ e.subs \in SUBSET Nodes
           /\ \A n : IsFiniteSet(Dependencies(Visible, n))
                     /\ Dependencies(Visible, n) \subseteq Visible
                     /\ \A e \in Dependencies(Visible, n) : e.from = n
<1>1. Visible \subseteq EdgeOf(Nat, Nat) /\ Visible \in SUBSET net
  BY DEF InputOK, Visible
<1>2. \A e \in Visible : /\ e.id \in Nat /\ e.from \in Nodes /\ e.to \in Nodes
                         /\ e.weight \in Fractions /\ e.subs \in SUBSET Nodes
  BY <1>1 DEF EdgeOf
<1>3. ASSUME NEW n PROVE IsFiniteSet(Dependencies(Visible, n))
  <2>1. Dependencies(Visible, n) \in SUBSET net
    BY <1>1 DEF Dependencies
  <2>2. QED
    BY <2>1, FS_Subset DEF InputOK
<1>4. QED
  BY <1>2, <1>3 DEF Dependencies

LEMMA KnownType ==
    ASSUME NEW m \in Memos, NEW n
    PROVE  /\ Known(m, n) \in Fractions /\ DOMAIN m \in SUBSET Nodes
           /\ \A d \in DOMAIN m : m[d] \in Fractions
BY UnitFacts DEF Memos, Known

\* What is delivered over an edge, and the constraint it puts on its dependent: none as
\* long as the dependency itself is fully available.
LEMMA ChannelFacts ==
    ASSUME InputOK, NEW e \in Visible, NEW m \in Memos
    PROVE  /\ Channel(e, m) \in Fractions
           /\ Channel(e, m) < Unit => Known(m, e.to) < Unit
<1> DEFINE spare  == SpareCapacity(e, m)
           known  == Known(m, e.to)
           worth(s) == Times(input.spare[s], Known(m, s))
<1>1. e.weight \in Fractions /\ e.subs \in SUBSET Nodes
  BY EdgeFacts
<1>2. \A s \in e.subs : worth(s) \in Fractions
  BY <1>1, KnownType, TimesType DEF InputOK
<1>3. spare = Most({worth(s) : s \in e.subs})
  BY DEF SpareCapacity, Redundancy
<1>4. spare \in Fractions /\ known \in Fractions
  <2>1. {worth(s) : s \in e.subs} \subseteq Fractions
    BY <1>2
  <2>2. QED
    BY <1>3, <2>1, MostType, KnownType
<1>5. Delivered(e, m) = Min({Unit, known + spare})
  BY DEF Delivered
<1> HIDE DEF known, spare
<1>6. Unit \in Int /\ known + spare \in Nat /\ known \in Int /\ known <= Unit
      /\ known + spare >= known
  BY <1>4, UnitFacts DEF Fractions
<1>7. Delivered(e, m) \in Fractions /\ (known = Unit => Delivered(e, m) = Unit)
  <2>1. CASE Unit <= known + spare
    <3>1. Min({Unit, known + spare}) = Unit
      BY <1>6, <2>1 DEF Min
    <3>2. QED
      BY <1>5, <3>1, UnitFacts
  <2>2. CASE ~ (Unit <= known + spare)
    <3>1. Min({Unit, known + spare}) = known + spare
      BY <1>6, <2>2 DEF Min
    <3>2. QED
      BY <1>5, <1>6, <2>2, <3>1 DEF Fractions
  <2>3. QED
    BY <2>1, <2>2
<1>8. Times(e.weight, Unit - Delivered(e, m)) \in Fractions
      /\ (Delivered(e, m) = Unit => Times(e.weight, Unit - Delivered(e, m)) = 0)
  <2>1. Unit - Delivered(e, m) \in Fractions
    BY <1>7, UnitFacts
  <2>2. Delivered(e, m) = Unit => Unit - Delivered(e, m) = 0
    BY <1>6
  <2>3. QED
    BY <1>1, <2>1, <2>2, TimesType
<1>9. Channel(e, m) \in Fractions /\ (known = Unit => Channel(e, m) = Unit)
  <2>1. Channel(e, m) \in Fractions
    BY <1>8, UnitFacts DEF Channel
  <2>2. known = Unit => Channel(e, m) = Unit - 0
    BY <1>7, <1>8 DEF Channel
  <2>3. QED
    BY <1>6, <2>1, <2>2
<1>10. Channel(e, m) < Unit => known < Unit
  <2>1. Channel(e, m) \in Int
    BY <1>9, UnitFacts
  <2>2. QED
    BY <1>6, <1>9, <2>1
<1>11. QED
  BY <1>9, <1>10 DEF known

\* The availability of a node is what the incident leaves it or that of a channel, and
\* at most any of them.
LEMMA LocalFacts ==
    ASSUME InputOK, NEW n \in Nodes, NEW m \in Memos
    PROVE  /\ Local(n, m) \in Fractions
           /\ \/ Local(n, m) = Unit - input.stress[n]
              \/ \E e \in Dependencies(Visible, n) : Local(n, m) = Channel(e, m)
           /\ Local(n, m) <= Unit - input.stress[n]
           /\ \A e \in Dependencies(Visible, n) : Local(n, m) <= Channel(e, m)
<1> DEFINE levels == {Unit - input.stress[n]}
                        \cup {Channel(e, m) : e \in Dependencies(Visible, n)}
<1>1. \A e \in Dependencies(Visible, n) : Channel(e, m) \in Fractions
  BY EdgeFacts, ChannelFacts
<1>2. Unit - input.stress[n] \in Fractions
  BY UnitFacts DEF InputOK
<1>3. levels \subseteq Fractions /\ levels # {}
  BY <1>1, <1>2
<1>4. levels \subseteq Nat /\ levels \subseteq Int
  BY <1>3 DEF Fractions
<1>5. PICK l \in levels : \A k \in levels : l <= k
  BY <1>3, <1>4, Least
<1>6. Local(n, m) = Min(levels)
  BY DEF Local
<1>7. Min(levels) = l
  <2> HIDE DEF levels
  <2>1. QED
    BY <1>4, <1>5, MinIsLeast
<1>8. QED
  BY <1>3, <1>5, <1>6, <1>7

\* The nodes that are asked on behalf of n.
Asked(n) == UNION {{e.to} \cup (e.subs \ Capabilities) : e \in Dependencies(Visible, n)}

\* Two memos that agree on those agree on what n can deliver.
LEMMA LocalDepends ==
    ASSUME InputOK, NEW n \in Nodes, NEW m \in Memos, NEW w \in Memos,
           \A a \in Asked(n) : Known(m, a) = Known(w, a)
    PROVE  /\ Local(n, m) = Local(n, w)
           /\ \A e \in Dependencies(Visible, n) : Channel(e, m) = Channel(e, w)
<1>1. ASSUME NEW e \in Dependencies(Visible, n)
      PROVE  Channel(e, m) = Channel(e, w)
  <2>1. e.to \in Asked(n) /\ e.subs \ Capabilities \subseteq Asked(n) /\ e.subs \in SUBSET Nodes
    BY EdgeFacts DEF Asked
  <2>2. ASSUME NEW s \in e.subs
        PROVE  Times(input.spare[s], Known(m, s)) = Times(input.spare[s], Known(w, s))
    <3>1. CASE s \in Capabilities
      <4>1. input.spare[s] = 0 /\ 0 \in Fractions
        BY <3>1, UnitFacts DEF InputOK
      <4>2. QED
        BY <4>1, KnownType, TimesType
    <3>2. CASE s \notin Capabilities
      BY <2>1, <3>2
    <3>3. QED
      BY <3>1, <3>2
  <2>3. {Times(input.spare[s], Known(m, s)) : s \in e.subs}
           = {Times(input.spare[s], Known(w, s)) : s \in e.subs}
    BY <2>2
  <2>4. SpareCapacity(e, m) = Most({Times(input.spare[s], Known(m, s)) : s \in e.subs})
        /\ SpareCapacity(e, w) = Most({Times(input.spare[s], Known(w, s)) : s \in e.subs})
    BY DEF SpareCapacity, Redundancy
  <2>5. Delivered(e, m) = Delivered(e, w)
    BY <2>1, <2>3, <2>4 DEF Delivered
  <2>6. QED
    BY <2>5 DEF Channel
<1>2. {Channel(e, m) : e \in Dependencies(Visible, n)}
         = {Channel(e, w) : e \in Dependencies(Visible, n)}
  BY <1>1
<1>3. QED
  BY <1>1, <1>2 DEF Local
-------------------------------------------------------------------------------
(* Whom the capacity flow asks *)

\* What a finite set is as a list.
LEMMA ListOfSet ==
    ASSUME NEW S, IsFiniteSet(S)
    PROVE  SetToSeq(S) \in Seq(S) /\ ToSet(SetToSeq(S)) = S
<1> DEFINE n == Cardinality(S)
<1>1. n \in Nat /\ ExistsBijection(1 .. n, S)
  BY FS_CardinalityType
<1>2. PICK f \in [1 .. n -> S] : IsInjective(f)
  BY <1>1 DEF ExistsBijection, Bijection, Injection
<1> DEFINE list == SetToSeq(S)
<1>3. list \in [1 .. n -> S] /\ IsInjective(list)
  BY <1>2 DEF SetToSeq
<1> HIDE DEF list, n
<1>4. list \in Seq(S)
  BY <1>1, <1>3, SeqDef
<1>5. list \in Surjection(1 .. n, S)
  <2>1. list \in Injection(1 .. n, S)
    BY <1>3 DEF Injection
  <2>2. Cardinality(1 .. n) = Cardinality(S)
    BY <1>1, FS_Interval DEF n
  <2>3. QED
    BY <2>1, <2>2, FS_Injection
<1>6. DOMAIN list = 1 .. n
  BY <1>3
<1>7. \A x \in S : \E i \in DOMAIN list : list[i] = x
  BY <1>5, <1>6 DEF Surjection
<1>8. ToSet(list) = S
  BY <1>3, <1>6, <1>7 DEF ToSet
<1>9. QED
  BY <1>4, <1>8 DEF list

LEMMA ToSetOfTwo ==
    ASSUME NEW V, NEW s \in Seq(V), NEW t \in Seq(V)
    PROVE  s \o t \in Seq(V) /\ ToSet(s \o t) = ToSet(s) \cup ToSet(t)
<1>1. /\ s \o t \in Seq(V) /\ Len(s \o t) = Len(s) + Len(t)
      /\ \A i \in 1 .. Len(s) + Len(t) :
            (s \o t)[i] = IF i <= Len(s) THEN s[i] ELSE t[i - Len(s)]
  BY ConcatProperties
<1>2. /\ Len(s) \in Nat /\ DOMAIN s = 1 .. Len(s) /\ Len(t) \in Nat /\ DOMAIN t = 1 .. Len(t)
      /\ DOMAIN (s \o t) = 1 .. Len(s \o t)
  BY <1>1, LenProperties
<1>3. ToSet(s \o t) \subseteq ToSet(s) \cup ToSet(t)
  <2> SUFFICES ASSUME NEW i \in 1 .. Len(s) + Len(t)
               PROVE  (s \o t)[i] \in ToSet(s) \cup ToSet(t)
    BY <1>1, <1>2 DEF ToSet
  <2>1. CASE i <= Len(s)
    <3>1. i \in DOMAIN s
      BY <1>2, <2>1
    <3>2. QED
      BY <1>1, <2>1, <3>1 DEF ToSet
  <2>2. CASE ~ (i <= Len(s))
    <3>1. i - Len(s) \in DOMAIN t
      BY <1>2, <2>2
    <3>2. QED
      BY <1>1, <2>2, <3>1 DEF ToSet
  <2>3. QED
    BY <2>1, <2>2
<1>4. ToSet(s) \subseteq ToSet(s \o t)
  <2> SUFFICES ASSUME NEW i \in 1 .. Len(s)
               PROVE  s[i] \in ToSet(s \o t)
    BY <1>2 DEF ToSet
  <2>1. i \in 1 .. Len(s) + Len(t) /\ i <= Len(s)
    BY <1>2
  <2>2. QED
    BY <1>1, <1>2, <2>1 DEF ToSet
<1>5. ToSet(t) \subseteq ToSet(s \o t)
  <2> SUFFICES ASSUME NEW i \in 1 .. Len(t)
               PROVE  t[i] \in ToSet(s \o t)
    BY <1>2 DEF ToSet
  <2>1. i + Len(s) \in 1 .. Len(s) + Len(t) /\ ~ (i + Len(s) <= Len(s))
        /\ i + Len(s) - Len(s) = i
    BY <1>2
  <2>2. (s \o t)[i + Len(s)] = t[i]
    BY <1>1, <2>1
  <2>3. QED
    BY <1>1, <1>2, <2>1, <2>2 DEF ToSet
<1>6. QED
  BY <1>1, <1>3, <1>4, <1>5

\* An edge with the greatest id of a finite set.
LEMMA LastOfIsOne ==
    ASSUME InputOK, NEW edges, edges \subseteq Visible, IsFiniteSet(edges), edges # {}
    PROVE  LastOf(edges) \in edges
<1> DEFINE id == [e \in edges |-> e.id]
<1>1. \A e \in edges : id[e] = e.id /\ id[e] \in Int
  BY EdgeFacts
<1> HIDE DEF id
<1>2. PICK m \in edges : \A e \in edges : id[e] <= id[m]
  BY <1>1, GreatestExists
<1>3. \E m1 \in edges : \A f \in edges : f.id <= m1.id
  BY <1>1, <1>2
<1>4. QED
  BY <1>3 DEF LastOf

\* The nodes an edge adds to those that are asked.
AskedFor(e) == <<e.to>> \o SetToSeq(e.subs \ Capabilities)

LEMMA AskedForType ==
    ASSUME InputOK, NEW e \in Visible
    PROVE  /\ AskedFor(e) \in Seq(Nodes)
           /\ ToSet(AskedFor(e)) = {e.to} \cup (e.subs \ Capabilities)
<1> DEFINE subs == e.subs \ Capabilities
<1>1. e.to \in Nodes /\ subs \in SUBSET Nodes /\ IsFiniteSet(subs)
  <2>1. e.to \in Nodes /\ subs \in SUBSET Nodes
    BY EdgeFacts
  <2>2. QED
    BY <2>1, FS_Subset, GraphAssumption
<1> HIDE DEF subs
<1>2. SetToSeq(subs) \in Seq(subs) /\ ToSet(SetToSeq(subs)) = subs
  BY <1>1, ListOfSet
<1>3. SetToSeq(subs) \in Seq(Nodes)
  BY <1>1, <1>2, SeqMonotonic
<1>4. <<e.to>> \in Seq(Nodes)
  BY <1>1
<1>5. ToSet(<<e.to>>) = {e.to}
  BY DEF ToSet
<1> DEFINE head == <<e.to>>
           tail == SetToSeq(subs)
<1>6. head \in Seq(Nodes) /\ tail \in Seq(Nodes)
  BY <1>3, <1>4
<1>7. AskedFor(e) = head \o tail
  BY DEF AskedFor, subs
<1>8. ToSet(head) = {e.to} /\ ToSet(tail) = e.subs \ Capabilities
  BY <1>2, <1>5 DEF subs
<1> HIDE DEF head, tail
<1>9. head \o tail \in Seq(Nodes) /\ ToSet(head \o tail) = ToSet(head) \cup ToSet(tail)
  BY <1>6, ToSetOfTwo
<1>10. QED
  BY <1>7, <1>8, <1>9

\* The code asks exactly the nodes Asked names.
LEMMA ConsultedIsAsked ==
    ASSUME InputOK, NEW n
    PROVE  Consulted(n) \in Seq(Nodes) /\ ToSet(Consulted(n)) = Asked(n)
<1> DEFINE D    == Dependencies(Visible, n)
           V    == Seq(Nodes)
           pick == [s \in SUBSET D |-> LastOf(s)]
           step == [x \in V \X D |-> x[1] \o AskedFor(x[2])]
           Fits(g) == g = [s \in SUBSET D |->
                             IF s = {} THEN << >> ELSE g[s \ {LastOf(s)}] \o AskedFor(LastOf(s))]
           fold == CHOOSE g : Fits(g)
           P    == {s \in SUBSET D : /\ fold[s] \in V
                                     /\ ToSet(fold[s]) = UNION {ToSet(AskedFor(e)) : e \in s}}
<1>1. IsFiniteSet(D) /\ D \subseteq Visible
  BY EdgeFacts
<1> HIDE DEF D
<1>2. \A s \in SUBSET D : pick[s] = LastOf(s) /\ (s # {} => LastOf(s) \in s /\ pick[s] \in s)
  BY <1>1, FS_Subset, LastOfIsOne
<1>3. \A e \in D : AskedFor(e) \in V
  BY <1>1, AskedForType
<1>4. step \in [V \X D -> V]
  <2>1. \A s \in V : \A e \in D : s \o AskedFor(e) \in V
    BY <1>3, ConcatProperties
  <2> HIDE DEF V
  <2>2. QED
    BY <2>1
<1>5. << >> \in V
  OBVIOUS
<1> HIDE DEF pick
<1>6. PICK g \in [SUBSET D -> V] : Folds(g, << >>, step, pick, SUBSET D)
  <2> HIDE DEF step, V
  <2>1. QED
    BY <1>1, <1>2, <1>4, <1>5, FoldExists
<1>7. \A s \in SUBSET D : g[s] = IF s = {} THEN << >>
                                 ELSE g[s \ {LastOf(s)}] \o AskedFor(LastOf(s))
  <2> TAKE s \in SUBSET D
  <2>1. CASE s = {}
    BY <1>6, <2>1 DEF Folds
  <2>2. CASE s # {}
    <3>1. LastOf(s) \in D /\ g[s \ {LastOf(s)}] \in V
      BY <1>2, <1>6, <2>2
    <3>2. g[s] = step[<<g[s \ {LastOf(s)}], LastOf(s)>>]
      BY <1>2, <1>6, <2>2 DEF Folds
    <3>3. QED
      BY <2>2, <3>1, <3>2
  <2>3. QED
    BY <2>1, <2>2
<1>8. Fits(g)
  BY <1>6, <1>7
<1>9. Fits(fold)
  BY <1>8
<1>10. Consulted(n) = fold[D]
  BY DEF Consulted, InOrder, MapThenFoldSet, AskedFor, D
<1> HIDE DEF fold
<1>11. \A s \in SUBSET D : fold[s] = IF s = {} THEN << >>
                                     ELSE fold[s \ {LastOf(s)}] \o AskedFor(LastOf(s))
  BY <1>9
<1>12. {} \in P
  <2>1. fold[{}] = << >> /\ {} \in SUBSET D
    BY <1>11
  <2>2. ToSet(<< >>) = {}
    BY DEF ToSet
  <2>3. QED
    BY <1>5, <2>1, <2>2
<1>13. ASSUME NEW s \in SUBSET D, s # {}, s \ {pick[s]} \in P PROVE s \in P
  <2> DEFINE last == LastOf(s)
             rest == s \ {last}
  <2>1. last \in D /\ last \in s /\ rest \in SUBSET D
    BY <1>2, <1>13
  <2>2. fold[rest] \in V /\ ToSet(fold[rest]) = UNION {ToSet(AskedFor(e)) : e \in rest}
    BY <1>2, <1>13
  <2>3. fold[s] = fold[rest] \o AskedFor(last)
    BY <1>11, <1>13
  <2>4. fold[s] \in V /\ ToSet(fold[s]) = ToSet(fold[rest]) \cup ToSet(AskedFor(last))
    <3> DEFINE front == fold[rest]
               back  == AskedFor(last)
    <3>1. front \in Seq(Nodes) /\ back \in Seq(Nodes) /\ fold[s] = front \o back
      BY <1>3, <2>1, <2>2, <2>3
    <3> HIDE DEF front, back
    <3>2. front \o back \in Seq(Nodes) /\ ToSet(front \o back) = ToSet(front) \cup ToSet(back)
      BY <3>1, ToSetOfTwo
    <3>3. QED
      BY <3>1, <3>2 DEF front, back
  <2>5. s = rest \cup {last}
    BY <2>1
  <2> HIDE DEF rest, last
  <2>6. UNION {ToSet(AskedFor(e)) : e \in s}
           = (UNION {ToSet(AskedFor(e)) : e \in rest}) \cup ToSet(AskedFor(last))
    BY <2>5
  <2>7. QED
    BY <2>2, <2>4, <2>6
<1>14. D \in P
  <2>1. \A s \in SUBSET D : s \in P
    <3> HIDE DEF P
    <3>1. IsFiniteSet(D)
      BY <1>1
    <3>2. \A s \in SUBSET D : s # {} => pick[s] \in s
      BY <1>2
    <3>3. QED
      BY <1>12, <1>13, <3>1, <3>2, SubsetInduction
  <2>2. QED
    BY <2>1
<1>15. \A e \in D : ToSet(AskedFor(e)) = {e.to} \cup (e.subs \ Capabilities)
  BY <1>1, AskedForType
<1>16. UNION {ToSet(AskedFor(e)) : e \in D} = Asked(n)
  BY <1>15 DEF Asked, D
<1>17. QED
  BY <1>10, <1>14, <1>16
-------------------------------------------------------------------------------
(* The recursion of the capacity flow *)

\* What holds at 0 and is kept by each of n steps holds all along.
LEMMA StepInduction ==
    ASSUME NEW n \in Nat, NEW P, 0 \in P, \A k \in 1 .. n : k - 1 \in P => k \in P
    PROVE  \A k \in 0 .. n : k \in P
<1> DEFINE wrong == {k \in 0 .. n : k \notin P}
<1>1. ASSUME wrong # {} PROVE FALSE
  <2>1. wrong \subseteq Nat
    OBVIOUS
  <2>2. PICK k \in wrong : \A j \in wrong : k <= j
    BY <1>1, <2>1, Least
  <2>3. k \in 1 .. n /\ k - 1 \in 0 .. n /\ ~ (k <= k - 1)
    OBVIOUS
  <2>4. k - 1 \in P
    BY <2>2, <2>3
  <2>5. QED
    BY <2>3, <2>4
<1>2. QED
  BY <1>1

\* What holds for a set of nodes if it holds for that set and any one node more, holds
\* for all sets of nodes.
LEMMA AboveInduction ==
    ASSUME NEW P,
           \A above \in SUBSET Nodes :
               (\A d \in Nodes \ above : above \cup {d} \in P) => above \in P
    PROVE  \A above \in SUBSET Nodes : above \in P
<1> DEFINE left == [above \in SUBSET Nodes |-> Cardinality(Nodes \ above)]
           wrong == {above \in SUBSET Nodes : above \notin P}
           sizes == {left[above] : above \in wrong}
<1>1. \A above \in SUBSET Nodes : left[above] \in Nat
  <2> TAKE above \in SUBSET Nodes
  <2>1. Nodes \ above \in SUBSET Nodes
    OBVIOUS
  <2>2. QED
    BY <2>1, GraphAssumption, FS_Subset, FS_CardinalityType
<1>2. \A above \in SUBSET Nodes : \A d \in Nodes \ above :
         above \cup {d} \in SUBSET Nodes /\ left[above \cup {d}] = left[above] - 1
  <2> TAKE above \in SUBSET Nodes
  <2> TAKE d \in Nodes \ above
  <2> DEFINE rest == Nodes \ above
  <2>1. IsFiniteSet(rest) /\ d \in rest
    BY GraphAssumption, FS_Subset
  <2>2. Cardinality(rest \ {d}) = Cardinality(rest) - 1
    BY <2>1, FS_RemoveElement
  <2>3. rest \ {d} = Nodes \ (above \cup {d})
    OBVIOUS
  <2>4. QED
    BY <2>2, <2>3
<1> HIDE DEF left
<1>3. ASSUME wrong # {} PROVE FALSE
  <2>1. sizes \subseteq Nat /\ sizes # {}
    BY <1>1, <1>3
  <2>2. PICK size \in sizes : \A s \in sizes : size <= s
    BY <2>1, Least
  <2>3. PICK above \in wrong : size = left[above]
    OBVIOUS
  <2>4. PICK d \in Nodes \ above : above \cup {d} \notin P
    BY <2>3
  <2> DEFINE more == above \cup {d}
  <2>5. more \in wrong /\ left[more] = left[above] - 1 /\ left[above] \in Int
    BY <1>1, <1>2, <2>3, <2>4
  <2>6. left[more] \in sizes
    BY <2>5
  <2> HIDE DEF sizes, more
  <2>7. left[above] <= left[more]
    BY <2>2, <2>3, <2>6
  <2>8. QED
    BY <2>5, <2>7
<1>4. QED
  BY <1>3

\* The visits of a list of nodes, one after the other.
Trail(trail, enter, known, nodes) ==
    /\ trail[0] = known
    /\ \A k \in 1 .. Len(nodes) : trail[k] = enter[nodes[k]][trail[k - 1]]

LEMMA AfterAllLoops ==
    ASSUME NEW enter, NEW known \in Memos, NEW nodes \in Seq(Nodes),
           \A c \in Nodes : \A m \in Memos : enter[c][m] \in Memos
    PROVE  \E trail \in [0 .. Len(nodes) -> Memos] :
              /\ Trail(trail, enter, known, nodes)
              /\ AfterAll(enter, known, nodes) = trail[Len(nodes)]
<1> DEFINE n    == Len(nodes)
           V    == Memos
           step == [x \in V \X (1 .. n) |-> enter[nodes[x[2]]][x[1]]]
           Fits(g) == g = [s \in SUBSET DOMAIN nodes |->
                             IF s = {} THEN known
                             ELSE enter[nodes[Max(s)]][g[s \ {Max(s)}]]]
           fold == CHOOSE g : Fits(g)
<1>1. n \in Nat /\ DOMAIN nodes = 1 .. n /\ \A k \in 1 .. n : nodes[k] \in Nodes
  BY LenProperties, ElementOfSeq
<1>2. step \in [V \X (1 .. n) -> V]
  <2>1. \A m \in V : \A k \in 1 .. n : enter[nodes[k]][m] \in V
    BY <1>1
  <2> HIDE DEF V, n
  <2>2. QED
    BY <2>1
<1>3. PICK g \in [SUBSET (1 .. n) -> V] : Turns(g, known, step, n)
  <2> HIDE DEF step, n
  <2>1. QED
    BY <1>1, <1>2, LoopExists
<1>4. ASSUME NEW s \in SUBSET (1 .. n)
      PROVE  g[s] = IF s = {} THEN known ELSE enter[nodes[Max(s)]][g[s \ {Max(s)}]]
  <2>1. CASE s = {}
    BY <1>3, <2>1 DEF Turns
  <2>2. CASE s # {}
    <3>1. Max(s) \in 1 .. n /\ g[s \ {Max(s)}] \in V
      BY <1>1, <1>3, <2>2, MaxIsGreatest
    <3>2. g[s] = step[<<g[s \ {Max(s)}], Max(s)>>]
      BY <1>3, <2>2 DEF Turns
    <3> HIDE DEF V
    <3>3. QED
      BY <2>2, <3>1, <3>2
  <2>3. QED
    BY <2>1, <2>2
<1>5. Fits(g)
  <2> HIDE DEF V
  <2>1. QED
    BY <1>1, <1>3, <1>4
<1>6. Fits(fold)
  BY <1>5
<1>7. AfterAll(enter, known, nodes) = fold[DOMAIN nodes]
  BY DEF AfterAll, FoldLeft, MapThenFoldSet
<1> HIDE DEF fold
<1>8. \A s \in SUBSET (1 .. n) :
         fold[s] = IF s = {} THEN known ELSE enter[nodes[Max(s)]][fold[s \ {Max(s)}]]
  BY <1>1, <1>6
<1> DEFINE trail == [k \in 0 .. n |-> fold[1 .. k]]
<1>9. trail[0] = known
  <2>1. 1 .. 0 = {} /\ 0 \in 0 .. n
    BY <1>1
  <2>2. QED
    BY <1>8, <2>1
<1>10. ASSUME NEW k \in 1 .. n PROVE trail[k] = enter[nodes[k]][trail[k - 1]]
  <2>1. k \in 0 .. n /\ k - 1 \in 0 .. n
    BY <1>1
  <2>2. fold[1 .. k] = enter[nodes[k]][fold[1 .. k - 1]]
    <3>1. /\ 1 .. k \in SUBSET (1 .. n) /\ 1 .. k # {}
          /\ Max(1 .. k) = k /\ (1 .. k) \ {k} = 1 .. k - 1
      BY <1>1, Unwinds
    <3> HIDE DEF n
    <3>2. QED
      BY <1>8, <3>1
  <2>3. QED
    BY <2>1, <2>2
<1>11. \A k \in 0 .. n : trail[k] \in V
  <2> DEFINE P == {k \in 0 .. n : trail[k] \in V}
  <2>1. 0 \in P
    BY <1>1, <1>9
  <2>2. ASSUME NEW k \in 1 .. n, k - 1 \in P PROVE k \in P
    <3>1. trail[k] = enter[nodes[k]][trail[k - 1]] /\ trail[k - 1] \in V
      BY <1>10, <2>2
    <3>2. k \in 0 .. n /\ nodes[k] \in Nodes
      BY <1>1
    <3> HIDE DEF trail
    <3>3. QED
      BY <3>1, <3>2
  <2> HIDE DEF P
  <2>3. \A k \in 0 .. n : k \in P
    <3> HIDE DEF n
    <3>1. QED
      BY <1>1, <2>1, <2>2, StepInduction
  <2>4. QED
    BY <2>3 DEF P
<1>12. trail[n] = fold[DOMAIN nodes]
  BY <1>1
<1>13. trail \in [0 .. n -> V]
  <2> HIDE DEF V
  <2>1. QED
    BY <1>11
<1> HIDE DEF trail
<1>14. QED
  BY <1>7, <1>9, <1>10, <1>12, <1>13 DEF Trail

\* Whatever holds of the memo before, and is kept by each visit, holds after all of them;
\* and each node of the list then has a value unless it is among those above.
LEMMA AfterAllKeeps ==
    ASSUME NEW enter, NEW known \in Memos, NEW nodes \in Seq(Nodes), NEW above,
           \A c \in Nodes : \A m \in Memos : enter[c][m] \in Memos,
           NEW J, known \in J,
           \A c \in ToSet(nodes) : \A m \in J \cap Memos :
              enter[c][m] \in J /\ DOMAIN m \cup {c} \subseteq DOMAIN enter[c][m] \cup above
    PROVE  /\ AfterAll(enter, known, nodes) \in J \cap Memos
           /\ ToSet(nodes) \subseteq DOMAIN AfterAll(enter, known, nodes) \cup above
<1> DEFINE n == Len(nodes)
<1>1. n \in Nat /\ DOMAIN nodes = 1 .. n /\ \A k \in 1 .. n : nodes[k] \in ToSet(nodes)
  BY LenProperties DEF ToSet
<1>2. PICK trail \in [0 .. n -> Memos] :
         Trail(trail, enter, known, nodes) /\ AfterAll(enter, known, nodes) = trail[n]
  BY AfterAllLoops
<1>3. /\ trail[0] = known
      /\ \A k \in 1 .. n : trail[k] = enter[nodes[k]][trail[k - 1]]
  BY <1>2 DEF Trail
<1>4. \A k \in 0 .. n : trail[k] \in Memos
  BY <1>2
<1> DEFINE P == {k \in 0 .. n : /\ trail[k] \in J
                                /\ \A i \in 1 .. k : nodes[i] \in DOMAIN trail[k] \cup above}
<1>5. 0 \in P
  BY <1>1, <1>3
<1>6. ASSUME NEW k \in 1 .. n, k - 1 \in P PROVE k \in P
  <2>1. k - 1 \in 0 .. n /\ k \in 0 .. n /\ nodes[k] \in ToSet(nodes)
    BY <1>1
  <2>2. trail[k - 1] \in J \cap Memos
    BY <1>4, <1>6, <2>1
  <2>3. /\ trail[k] \in J
        /\ DOMAIN trail[k - 1] \cup {nodes[k]} \subseteq DOMAIN trail[k] \cup above
    <3>1. trail[k] = enter[nodes[k]][trail[k - 1]]
      BY <1>3
    <3>2. QED
      BY <2>1, <2>2, <3>1
  <2>4. \A i \in 1 .. k : i = k \/ i \in 1 .. k - 1
    BY <2>1
  <2>5. \A i \in 1 .. k - 1 : nodes[i] \in DOMAIN trail[k - 1] \cup above
    BY <1>6
  <2>6. \A i \in 1 .. k : nodes[i] \in DOMAIN trail[k] \cup above
    BY <2>3, <2>4, <2>5
  <2>7. QED
    BY <2>1, <2>3, <2>6
<1>7. \A k \in 0 .. n : k \in P
  <2> HIDE DEF P, n
  <2>1. QED
    BY <1>1, <1>5, <1>6, StepInduction
<1>8. n \in P
  BY <1>1, <1>7
<1>9. ToSet(nodes) = {nodes[i] : i \in 1 .. n}
  BY <1>1 DEF ToSet
<1>10. QED
  BY <1>2, <1>4, <1>8, <1>9

Entered(d, after) == [c \in DOMAIN after \cup {d} |-> IF c = d THEN Local(d, after) ELSE after[c]]

\* One visit of d, where `enter` is how the nodes it asks are visited.
Entry(enter, d, above, known) ==
    IF d \in DOMAIN known \cup above THEN known
    ELSE Entered(d, AfterAll(enter, known, Consulted(d)))

Visits(visit, above) ==
    [d \in Nodes |-> [known \in Memos |-> Entry(visit[above \cup {d}], d, above, known)]]

LEMMA EnteredType ==
    ASSUME InputOK, NEW d \in Nodes, NEW after \in Memos
    PROVE  /\ Entered(d, after) \in Memos
           /\ DOMAIN Entered(d, after) = DOMAIN after \cup {d}
           /\ Entered(d, after)[d] = Local(d, after)
           /\ \A c \in DOMAIN after : c # d => Entered(d, after)[c] = after[c]
<1>1. Local(d, after) \in Fractions
  BY LocalFacts
<1>2. DOMAIN after \in SUBSET Nodes /\ \A c \in DOMAIN after : after[c] \in Fractions
  BY KnownType
<1>3. Entered(d, after) \in [DOMAIN after \cup {d} -> Fractions]
  BY <1>1, <1>2 DEF Entered
<1>4. DOMAIN after \cup {d} \in SUBSET Nodes
  BY <1>2
<1>5. Entered(d, after) \in Memos
  BY <1>3, <1>4 DEF Memos
<1>6. QED
  BY <1>5 DEF Entered

LEMMA EntryType ==
    ASSUME InputOK, NEW enter, NEW d \in Nodes, NEW above, NEW known \in Memos,
           \A c \in Nodes : \A m \in Memos : enter[c][m] \in Memos
    PROVE  /\ AfterAll(enter, known, Consulted(d)) \in Memos
           /\ Entry(enter, d, above, known) \in Memos
<1>1. Consulted(d) \in Seq(Nodes)
  BY ConsultedIsAsked
<1>2. PICK trail \in [0 .. Len(Consulted(d)) -> Memos] :
         AfterAll(enter, known, Consulted(d)) = trail[Len(Consulted(d))]
  BY <1>1, AfterAllLoops
<1>3. Len(Consulted(d)) \in 0 .. Len(Consulted(d))
  BY <1>1, LenProperties
<1>4. AfterAll(enter, known, Consulted(d)) \in Memos
  BY <1>2, <1>3
<1>5. QED
  BY <1>4, EnteredType DEF Entry

\* The recursion is defined: each visit only needs those with one more node above.
LEMMA VisitExists ==
    ASSUME InputOK
    PROVE  \E visit \in [SUBSET Nodes -> [Nodes -> [Memos -> Memos]]] :
              \A above \in SUBSET Nodes : visit[above] = Visits(visit, above)
<1> DEFINE V       == [Nodes -> [Memos -> Memos]]
           left    == [above \in SUBSET Nodes |-> Cardinality(Nodes \ above)]
           below   == [b \in Nat |-> {above \in SUBSET Nodes : left[above] < b}]
           Solves(v, b) == \A above \in below[b] : v[above] = Visits(v, above)
           missing == {b \in Nat : ~ \E v \in [below[b] -> V] : Solves(v, b)}
<1>1. \A above \in SUBSET Nodes : left[above] \in Nat
  <2> TAKE above \in SUBSET Nodes
  <2>1. Nodes \ above \in SUBSET Nodes
    OBVIOUS
  <2>2. QED
    BY <2>1, GraphAssumption, FS_Subset, FS_CardinalityType
<1>2. \A above \in SUBSET Nodes : \A d \in Nodes \ above :
         above \cup {d} \in SUBSET Nodes /\ left[above \cup {d}] = left[above] - 1
  <2> TAKE above \in SUBSET Nodes
  <2> TAKE d \in Nodes \ above
  <2> DEFINE rest == Nodes \ above
  <2>1. IsFiniteSet(rest) /\ d \in rest
    BY GraphAssumption, FS_Subset
  <2>2. Cardinality(rest \ {d}) = Cardinality(rest) - 1
    BY <2>1, FS_RemoveElement
  <2>3. rest \ {d} = Nodes \ (above \cup {d})
    OBVIOUS
  <2>4. QED
    BY <2>2, <2>3
<1> HIDE DEF left
<1>3. ASSUME missing # {} PROVE FALSE
  <2>1. PICK b \in missing : \A m \in missing : b <= m
    BY <1>3, Least
  <2>2. b # 0
    <3> SUFFICES ASSUME b = 0 PROVE FALSE
      OBVIOUS
    <3>1. below[0] = {}
      BY <1>1
    <3> DEFINE v == [above \in {} |-> 0]
    <3>2. v \in [below[0] -> V] /\ Solves(v, 0)
      BY <3>1
    <3>3. QED
      BY <2>1, <3>2
  <2>3. b \in Nat /\ b - 1 \in Nat
    BY <2>2
  <2>4. b - 1 \notin missing
    <3> HIDE DEF missing
    <3>1. QED
      BY <2>1, <2>3
  <2>5. PICK v \in [below[b - 1] -> V] : Solves(v, b - 1)
    BY <2>3, <2>4
  <2> DEFINE next == [above \in below[b] |-> Visits(v, above)]
  <2>6. \A above \in below[b] : above \in SUBSET Nodes /\ \A d \in Nodes \ above :
           above \cup {d} \in below[b - 1] /\ above \cup {d} \in below[b]
    <3> TAKE above \in below[b]
    <3>1. above \in SUBSET Nodes /\ left[above] < b
      BY <2>3
    <3>2. ASSUME NEW d \in Nodes \ above
          PROVE  above \cup {d} \in below[b - 1] /\ above \cup {d} \in below[b]
      <4> DEFINE more == above \cup {d}
      <4>1. more \in SUBSET Nodes /\ left[more] = left[above] - 1 /\ left[above] \in Nat
        BY <1>1, <1>2, <3>1
      <4> HIDE DEF more
      <4>2. left[more] < b - 1 /\ left[more] < b
        BY <2>3, <3>1, <4>1
      <4>3. more \in below[b - 1] /\ more \in below[b]
        BY <2>3, <4>1, <4>2
      <4>4. QED
        BY <4>3 DEF more
    <3>3. QED
      BY <3>1, <3>2
  <2>7. next \in [below[b] -> V]
    <3>1. ASSUME NEW above \in below[b], NEW d \in Nodes, NEW known \in Memos
          PROVE  Entry(v[above \cup {d}], d, above, known) \in Memos
      <4>1. CASE d \in above
        BY <4>1 DEF Entry
      <4>2. CASE d \notin above
        <5>1. v[above \cup {d}] \in V
          BY <2>5, <2>6, <4>2
        <5> DEFINE w == v[above \cup {d}]
        <5>2. w \in [Nodes -> [Memos -> Memos]]
          BY <5>1
        <5> HIDE DEF w, V, below
        <5>3. \A c \in Nodes : w[c] \in [Memos -> Memos]
          BY <5>2
        <5>4. \A c \in Nodes : \A m \in Memos : w[c][m] \in Memos
          BY <5>3
        <5>5. Entry(w, d, above, known) \in Memos
          BY <5>4, EntryType
        <5>6. QED
          BY <5>5 DEF w
      <4>3. QED
        BY <4>1, <4>2
    <3>2. \A above \in below[b] : Visits(v, above) \in V
      <4> HIDE DEF below
      <4>1. QED
        BY <3>1 DEF Visits
    <3> HIDE DEF below, V
    <3>3. QED
      BY <3>2
  <2>8. Solves(next, b)
    <3> SUFFICES ASSUME NEW above \in below[b]
                 PROVE  next[above] = Visits(next, above)
      OBVIOUS
    <3>1. \A d \in Nodes \ above : next[above \cup {d}] = v[above \cup {d}]
      <4> TAKE d \in Nodes \ above
      <4>1. above \cup {d} \in below[b - 1] /\ above \cup {d} \in below[b]
        BY <2>6
      <4>2. v[above \cup {d}] = Visits(v, above \cup {d})
        BY <2>5, <4>1
      <4> HIDE DEF below
      <4>3. QED
        BY <4>1, <4>2
    <3>2. ASSUME NEW d \in Nodes, NEW known \in Memos
          PROVE  Entry(next[above \cup {d}], d, above, known)
                    = Entry(v[above \cup {d}], d, above, known)
      <4>1. CASE d \in above
        BY <4>1 DEF Entry
      <4>2. CASE d \notin above
        <5> HIDE DEF next
        <5>1. QED
          BY <3>1, <4>2
      <4>3. QED
        BY <4>1, <4>2
    <3>3. next[above] = Visits(v, above)
      <4> HIDE DEF below
      <4>1. QED
        OBVIOUS
    <3> HIDE DEF next
    <3>4. Visits(next, above) = Visits(v, above)
      BY <3>2 DEF Visits
    <3>5. QED
      BY <3>3, <3>4
  <2> HIDE DEF Solves, next, below, V
  <2>9. QED
    BY <2>1, <2>7, <2>8
<1> DEFINE N == Cardinality(Nodes) + 1
<1>4. N \in Nat /\ below[N] = SUBSET Nodes
  <2>1. Cardinality(Nodes) \in Nat
    BY GraphAssumption, FS_CardinalityType
  <2>2. \A above \in SUBSET Nodes : left[above] <= Cardinality(Nodes)
    <3> TAKE above \in SUBSET Nodes
    <3>1. Nodes \ above \in SUBSET Nodes
      OBVIOUS
    <3>2. QED
      BY <3>1, GraphAssumption, FS_Subset DEF left
  <2>3. \A above \in SUBSET Nodes : left[above] < Cardinality(Nodes) + 1
    BY <1>1, <2>1, <2>2
  <2>4. QED
    BY <2>1, <2>3
<1>5. N \notin missing
  BY <1>3, <1>4
<1>6. PICK v \in [below[N] -> V] : Solves(v, N)
  BY <1>4, <1>5
<1>7. QED
  BY <1>4, <1>6

Extends(w, m) == DOMAIN m \subseteq DOMAIN w /\ \A c \in DOMAIN m : w[c] = m[c]

\* The targets and whatever depends on a node of R are in R.
Shut(R) == Targets \subseteq R /\ \A e \in Visible : e.to \in R => e.from \in R

\* Whoever is not fully available is in R.
Within(m, R) == \A n \in DOMAIN m : m[n] < Unit => n \in R

\* The memo solves the equations, for whoever it names.
Solution(m) == \A n \in DOMAIN m : m[n] = Local(n, m) /\ Asked(n) \subseteq DOMAIN m

\* The nodes above wait for each other or for d.
Waits(above, d) ==
    \A s \in above : \E t \in above \cup {d} : <<s, t>> \in ArcsWithSubstitutes(Visible)

LEMMA AskedFacts ==
    ASSUME InputOK, NEW n, NEW a \in Asked(n)
    PROVE  a \in Nodes /\ <<n, a>> \in ArcsWithSubstitutes(Visible)
<1>1. PICK e \in Dependencies(Visible, n) : a = e.to \/ a \in e.subs
  BY DEF Asked
<1>2. e \in Visible /\ e.from = n /\ e.to \in Nodes /\ e.subs \in SUBSET Nodes
  BY <1>1, EdgeFacts
<1>3. a \in Nodes
  BY <1>1, <1>2
<1>4. CASE a = e.to
  BY <1>2, <1>3, <1>4 DEF ArcsWithSubstitutes, Arcs
<1>5. CASE a \in e.subs
  BY <1>2, <1>3, <1>5 DEF ArcsWithSubstitutes
<1>6. QED
  BY <1>1, <1>3, <1>4, <1>5

\* Without circles nobody who is asked is waiting already.
LEMMA AskedAreBelow ==
    ASSUME InputOK, Acyclic(ArcsWithSubstitutes(Visible)), NEW above \in SUBSET Nodes,
           NEW d \in Nodes, Waits(above, d)
    PROVE  /\ \A a \in Asked(d) : a \notin above \cup {d}
           /\ \A a \in Asked(d) : Waits(above \cup {d}, a)
<1> DEFINE up == above \cup {d}
<1>1. ASSUME NEW a \in Asked(d), a \in up PROVE FALSE
  <2>1. up \in (SUBSET Nodes) \ {{}}
    OBVIOUS
  <2>2. PICK n \in up : \A m \in up : <<n, m>> \notin ArcsWithSubstitutes(Visible)
    BY <2>1 DEF Acyclic
  <2>3. CASE n = d
    BY <1>1, <2>2, <2>3, AskedFacts
  <2>4. CASE n \in above
    BY <2>2, <2>4 DEF Waits
  <2>5. QED
    BY <2>3, <2>4
<1>2. ASSUME NEW a \in Asked(d) PROVE Waits(up, a)
  <2> SUFFICES ASSUME NEW s \in up
               PROVE  \E t \in up \cup {a} : <<s, t>> \in ArcsWithSubstitutes(Visible)
    BY DEF Waits
  <2>1. CASE s = d
    BY <2>1, AskedFacts
  <2>2. CASE s \in above
    BY <2>2 DEF Waits
  <2>3. QED
    BY <2>1, <2>2
<1>3. QED
  BY <1>1, <1>2

\* What is computed for d, once all it asks have been visited.
LEMMA EnteredWithin ==
    ASSUME InputOK, NEW R, Shut(R), NEW d \in Nodes, NEW after \in Memos,
           d \notin DOMAIN after, Within(after, R)
    PROVE  Within(Entered(d, after), R)
<1> DEFINE w == Entered(d, after)
<1>1. /\ DOMAIN w = DOMAIN after \cup {d} /\ w[d] = Local(d, after)
      /\ \A c \in DOMAIN after : w[c] = after[c]
  BY EnteredType
<1>2. ASSUME Local(d, after) < Unit PROVE d \in R
  <2>1. CASE Local(d, after) = Unit - input.stress[d]
    <3>1. input.stress[d] \in Nat /\ Unit \in Nat
      BY UnitFacts DEF InputOK, Fractions
    <3>2. input.stress[d] > 0
      BY <1>2, <2>1, <3>1
    <3>3. QED
      BY <3>2 DEF Shut, Targets
  <2>2. CASE \E e \in Dependencies(Visible, d) : Local(d, after) = Channel(e, after)
    <3>1. PICK e \in Dependencies(Visible, d) : Local(d, after) = Channel(e, after)
      BY <2>2
    <3>2. e \in Visible /\ e.from = d
      BY EdgeFacts
    <3>3. Known(after, e.to) < Unit
      BY <1>2, <3>1, <3>2, ChannelFacts
    <3>4. ~ (Unit < Unit)
      BY UnitFacts
    <3>5. e.to \in DOMAIN after /\ after[e.to] < Unit
      BY <3>3, <3>4 DEF Known
    <3>6. QED
      BY <3>2, <3>5 DEF Within, Shut
  <2>3. QED
    BY <2>1, <2>2, LocalFacts
<1> HIDE DEF w
<1>3. Within(w, R)
  BY <1>1, <1>2 DEF Within
<1>4. QED
  BY <1>3 DEF w

LEMMA EnteredSolves ==
    ASSUME InputOK, NEW d \in Nodes, NEW after \in Memos,
           d \notin DOMAIN after, Asked(d) \subseteq DOMAIN after, Solution(after)
    PROVE  Solution(Entered(d, after))
<1> DEFINE w == Entered(d, after)
<1>1. /\ w \in Memos /\ DOMAIN w = DOMAIN after \cup {d} /\ w[d] = Local(d, after)
      /\ \A c \in DOMAIN after : w[c] = after[c]
  BY EnteredType
<1> HIDE DEF w
<1>2. \A a \in DOMAIN after : Known(w, a) = Known(after, a)
  BY <1>1 DEF Known
<1>3. \A n \in DOMAIN w : n \in Nodes /\ Asked(n) \subseteq DOMAIN after
  <2>1. DOMAIN after \in SUBSET Nodes
    BY KnownType
  <2>2. QED
    BY <1>1, <2>1 DEF Solution
<1>4. \A n \in DOMAIN w : Local(n, w) = Local(n, after)
  <2> TAKE n \in DOMAIN w
  <2>1. \A a \in Asked(n) : Known(w, a) = Known(after, a)
    BY <1>2, <1>3
  <2>2. QED
    BY <1>1, <1>3, <2>1, LocalDepends
<1>5. \A n \in DOMAIN w : w[n] = Local(n, after)
  BY <1>1 DEF Solution
<1>6. Solution(w)
  BY <1>1, <1>3, <1>4, <1>5 DEF Solution
<1>7. QED
  BY <1>6 DEF w

\* What a visit of d makes of the memo: it adds values and changes none, adds nothing for
\* those above, and keeps the damage within R and the equations solved.
Promises(w, known, above, d, R) ==
    /\ w \in Memos /\ Extends(w, known)
    /\ DOMAIN w \cap above \subseteq DOMAIN known /\ d \in DOMAIN w \cup above
    /\ Within(known, R) => Within(w, R)
    /\ Acyclic(ArcsWithSubstitutes(Visible)) /\ Waits(above, d) /\ Solution(known)
          => Solution(w)

LEMMA EntryKeepsPromises ==
    ASSUME InputOK, NEW R, Shut(R), NEW above \in SUBSET Nodes, NEW d \in Nodes,
           NEW known \in Memos, NEW enter,
           \A c \in Nodes : \A m \in Memos : d \notin above =>
               Promises(enter[c][m], m, above \cup {d}, c, R)
    PROVE  Promises(Entry(enter, d, above, known), known, above, d, R)
<1>1. CASE d \in DOMAIN known \cup above
  <2>1. Entry(enter, d, above, known) = known
    BY <1>1 DEF Entry
  <2>2. QED
    BY <1>1, <2>1 DEF Promises, Extends
<1>2. CASE d \notin DOMAIN known \cup above
  <2> DEFINE up    == above \cup {d}
             after == AfterAll(enter, known, Consulted(d))
             Sound == /\ Acyclic(ArcsWithSubstitutes(Visible))
                      /\ Waits(above, d) /\ Solution(known)
             J     == {m \in Memos : /\ Extends(m, known)
                                     /\ DOMAIN m \cap up \subseteq DOMAIN known
                                     /\ Within(known, R) => Within(m, R)
                                     /\ Sound => Solution(m)}
  <2>1. \A c \in Nodes : \A m \in Memos : Promises(enter[c][m], m, up, c, R)
    BY <1>2
  <2>2. Consulted(d) \in Seq(Nodes) /\ ToSet(Consulted(d)) = Asked(d)
    BY ConsultedIsAsked
  <2>3. known \in J
    BY DEF Extends
  <2>4. ASSUME NEW c \in Asked(d), NEW m \in J
        PROVE  enter[c][m] \in J /\ DOMAIN m \cup {c} \subseteq DOMAIN enter[c][m] \cup up
    <3> DEFINE w == enter[c][m]
    <3>1. c \in Nodes /\ Promises(w, m, up, c, R)
      BY <2>1, AskedFacts
    <3> HIDE DEF w
    <3>2. w \in Memos /\ Extends(w, m) /\ DOMAIN w \cap up \subseteq DOMAIN m
          /\ c \in DOMAIN w \cup up
      BY <3>1 DEF Promises
    <3>3. Extends(w, known) /\ DOMAIN w \cap up \subseteq DOMAIN known
      BY <3>2 DEF Extends
    <3>4. Within(known, R) => Within(w, R)
      BY <3>1 DEF Promises
    <3>5. ASSUME Sound PROVE Solution(w)
      <4>1. Waits(up, c) /\ Solution(m)
        BY <3>5, AskedAreBelow
      <4>2. QED
        BY <3>1, <3>5, <4>1 DEF Promises
    <3>6. w \in J
      BY <3>2, <3>3, <3>4, <3>5
    <3>7. DOMAIN m \cup {c} \subseteq DOMAIN w \cup up
      BY <3>2 DEF Extends
    <3>8. QED
      BY <3>6, <3>7 DEF w
  <2>5. \A c \in Nodes : \A m \in Memos : enter[c][m] \in Memos
    BY <2>1 DEF Promises
  <2>6. after \in J \cap Memos /\ Asked(d) \subseteq DOMAIN after \cup up
    <3> DEFINE nodes == Consulted(d)
    <3>1. nodes \in Seq(Nodes) /\ ToSet(nodes) = Asked(d)
      BY <2>2
    <3>2. \A c \in ToSet(nodes) : \A m \in J \cap Memos :
             enter[c][m] \in J /\ DOMAIN m \cup {c} \subseteq DOMAIN enter[c][m] \cup up
      BY <2>4, <3>1
    <3> HIDE DEF J, nodes, up
    <3>3. /\ AfterAll(enter, known, nodes) \in J \cap Memos
          /\ ToSet(nodes) \subseteq DOMAIN AfterAll(enter, known, nodes) \cup up
      BY <2>3, <2>5, <3>1, <3>2, AfterAllKeeps
    <3>4. QED
      BY <3>1, <3>3 DEF nodes
  <2>7. d \notin DOMAIN after
    BY <1>2, <2>6
  <2> DEFINE w == Entered(d, after)
  <2>8. Entry(enter, d, above, known) = w
    BY <1>2 DEF Entry
  <2>9. /\ after \in Memos /\ Extends(after, known)
        /\ DOMAIN after \cap up \subseteq DOMAIN known
        /\ Within(known, R) => Within(after, R)
        /\ Sound => Solution(after)
    BY <2>6
  <2> HIDE DEF J, after
  <2>10. /\ w \in Memos /\ DOMAIN w = DOMAIN after \cup {d}
         /\ \A c \in DOMAIN after : w[c] = after[c]
    BY <2>7, <2>9, EnteredType
  <2>11. Within(known, R) => Within(w, R)
    BY <2>7, <2>9, EnteredWithin
  <2>12. ASSUME Sound PROVE Solution(w)
    <3>1. Asked(d) \subseteq DOMAIN after
      BY <2>6, <2>12, AskedAreBelow
    <3>2. QED
      BY <2>7, <2>9, <2>12, <3>1, EnteredSolves
  <2> HIDE DEF w
  <2>13. Extends(w, known)
    BY <2>9, <2>10 DEF Extends
  <2>14. DOMAIN w \cap above \subseteq DOMAIN known /\ d \in DOMAIN w
    BY <1>2, <2>9, <2>10
  <2>15. QED
    BY <2>8, <2>10, <2>11, <2>12, <2>13, <2>14 DEF Promises
<1>3. QED
  BY <1>1, <1>2

LEMMA VisitsKeepPromises ==
    ASSUME InputOK, NEW R, Shut(R), NEW visit,
           \A above \in SUBSET Nodes : visit[above] = Visits(visit, above)
    PROVE  \A above \in SUBSET Nodes : \A d \in Nodes : \A known \in Memos :
              Promises(visit[above][d][known], known, above, d, R)
<1> DEFINE Kept(above) == \A d \in Nodes : \A known \in Memos :
                             Promises(visit[above][d][known], known, above, d, R)
           P == {above \in SUBSET Nodes : Kept(above)}
<1>1. ASSUME NEW above \in SUBSET Nodes, \A d \in Nodes \ above : above \cup {d} \in P
      PROVE  above \in P
  <2> SUFFICES ASSUME NEW d \in Nodes, NEW known \in Memos
               PROVE  Promises(visit[above][d][known], known, above, d, R)
    OBVIOUS
  <2>1. visit[above][d][known] = Entry(visit[above \cup {d}], d, above, known)
    <3>1. Visits(visit, above)[d][known] = Entry(visit[above \cup {d}], d, above, known)
      BY DEF Visits
    <3>2. visit[above] = Visits(visit, above)
      OBVIOUS
    <3>3. QED
      BY <3>1, <3>2
  <2>2. ASSUME NEW c \in Nodes, NEW m \in Memos, d \notin above
        PROVE  Promises(visit[above \cup {d}][c][m], m, above \cup {d}, c, R)
    <3>1. Kept(above \cup {d})
      BY <1>1, <2>2
    <3>2. QED
      BY <3>1
  <2> DEFINE enter == visit[above \cup {d}]
  <2>3. \A c \in Nodes : \A m \in Memos : d \notin above =>
           Promises(enter[c][m], m, above \cup {d}, c, R)
    BY <2>2
  <2> HIDE DEF enter
  <2>4. Promises(Entry(enter, d, above, known), known, above, d, R)
    BY <2>3, EntryKeepsPromises
  <2>5. QED
    BY <2>1, <2>4 DEF enter
<1>2. \A above \in SUBSET Nodes : above \in P
  <2> HIDE DEF P
  <2>1. QED
    BY <1>1, AboveInduction
<1>3. QED
  BY <1>2

\* So does the visit of a capability, with nobody above.
LEMMA VisitKeepsPromises ==
    ASSUME InputOK, NEW R, Shut(R), NEW n \in Nodes, NEW m \in Memos
    PROVE  Promises(Visit(n, {}, m), m, {}, n, R)
<1> DEFINE Is(v) == v = [above \in SUBSET Nodes |->
                           [d \in Nodes |-> [known \in Memos |->
                              Entry(v[above \cup {d}], d, above, known)]]]
           visit == CHOOSE v : Is(v)
<1>1. PICK v \in [SUBSET Nodes -> [Nodes -> [Memos -> Memos]]] :
         \A above \in SUBSET Nodes : v[above] = Visits(v, above)
  BY VisitExists
<1>2. v = [above \in SUBSET Nodes |-> Visits(v, above)]
  BY <1>1
<1>3. Is(v)
  BY <1>2 DEF Visits
<1>4. Is(visit)
  BY <1>3
<1>5. Visit(n, {}, m) = visit[{}][n][m]
  BY DEF Visit, Entry, Entered
<1> HIDE DEF visit
<1>6. \A above \in SUBSET Nodes : visit[above] = Visits(visit, above)
  BY <1>4 DEF Visits
<1>7. \A above \in SUBSET Nodes : \A d \in Nodes : \A known \in Memos :
         Promises(visit[above][d][known], known, above, d, R)
  BY <1>6, VisitsKeepPromises
<1>8. QED
  BY <1>5, <1>7
-------------------------------------------------------------------------------
(* The blast radius *)

Closer(edges, S) == S \cup {e.from : e \in {f \in edges : f.to \in S}}

\* The nodes that depend on targets, in rounds.
Rounds(within, edges, targets) ==
    /\ within[0] = targets
    /\ \A d \in 1 .. Cardinality(Nodes) : within[d] = Closer(edges, within[d - 1])

LEMMA DependentsRounds ==
    ASSUME NEW edges, \A e \in edges : e.from \in Nodes, NEW targets \in SUBSET Nodes
    PROVE  \E within \in [0 .. Cardinality(Nodes) -> SUBSET Nodes] :
              /\ Rounds(within, edges, targets)
              /\ Dependents(edges, targets) = within[Cardinality(Nodes)]
<1> DEFINE N    == Cardinality(Nodes)
           V    == SUBSET Nodes
           step == [x \in V \X (1 .. N) |-> Closer(edges, x[1])]
           Is(w) == w = [d \in 0 .. N |-> IF d = 0 THEN targets ELSE Closer(edges, w[d - 1])]
<1>1. N \in Nat
  BY GraphAssumption, FS_CardinalityType
<1>2. \A S \in V : Closer(edges, S) \in V
  BY DEF Closer
<1>3. step \in [V \X (1 .. N) -> V] /\ targets \in V
  <2> HIDE DEF V, N
  <2>1. QED
    BY <1>2 DEF V
<1>4. PICK g \in [SUBSET (1 .. N) -> V] : Turns(g, targets, step, N)
  <2> HIDE DEF step, N, V
  <2>1. QED
    BY <1>1, <1>3, LoopExists
<1> DEFINE w == [d \in 0 .. N |-> g[1 .. d]]
<1>5. \A d \in 0 .. N : w[d] \in V
  <2> TAKE d \in 0 .. N
  <2>1. 1 .. d \in SUBSET (1 .. N)
    BY <1>1
  <2> HIDE DEF V
  <2>2. QED
    BY <1>4, <2>1
<1>6. w[0] = targets
  <2>1. 1 .. 0 = {} /\ 0 \in 0 .. N
    BY <1>1
  <2>2. QED
    BY <1>4, <2>1 DEF Turns
<1>7. ASSUME NEW d \in 1 .. N PROVE w[d] = Closer(edges, w[d - 1])
  <2>1. d \in 0 .. N /\ d - 1 \in 0 .. N
    BY <1>1
  <2>2. /\ 1 .. d \in SUBSET (1 .. N) /\ 1 .. d # {}
        /\ Max(1 .. d) = d /\ (1 .. d) \ {d} = 1 .. d - 1
    <3> HIDE DEF N
    <3>1. QED
      BY <1>1, Unwinds
  <2>3. g[1 .. d] = step[<<g[1 .. d - 1], d>>]
    <3> HIDE DEF step, N
    <3>1. QED
      BY <1>4, <2>2 DEF Turns
  <2>4. g[1 .. d - 1] \in V
    BY <1>5, <2>1
  <2>5. step[<<g[1 .. d - 1], d>>] = Closer(edges, g[1 .. d - 1])
    <3> HIDE DEF V, N
    <3>1. QED
      BY <2>4
  <2>6. QED
    BY <2>1, <2>3, <2>5
<1> HIDE DEF w
<1>8. \A d \in 0 .. N : d # 0 => d \in 1 .. N
  BY <1>1
<1>9. Is(w)
  <2>1. \A d \in 0 .. N : w[d] = IF d = 0 THEN targets ELSE Closer(edges, w[d - 1])
    BY <1>6, <1>7, <1>8
  <2>2. w = [d \in 0 .. N |-> w[d]]
    BY DEF w
  <2>3. QED
    BY <2>1, <2>2
<1> DEFINE within == CHOOSE v : Is(v)
<1>10. Is(within)
  BY <1>9
<1>11. Dependents(edges, targets) = within[N]
  BY DEF Dependents, Closer
<1> HIDE DEF within
<1>12. \A d \in 0 .. N : within[d] = IF d = 0 THEN targets ELSE Closer(edges, within[d - 1])
  BY <1>10
<1>13. within[0] = targets /\ \A d \in 1 .. N : within[d] = Closer(edges, within[d - 1])
  <2>1. 0 \in 0 .. N /\ \A d \in 1 .. N : d \in 0 .. N /\ d # 0
    BY <1>1
  <2>2. QED
    BY <1>12, <2>1
<1>14. \A d \in 0 .. N : within[d] \in V
  <2> DEFINE P == {d \in 0 .. N : within[d] \in V}
  <2>1. 0 \in P
    BY <1>1, <1>3, <1>13
  <2>2. ASSUME NEW d \in 1 .. N, d - 1 \in P PROVE d \in P
    <3>1. d \in 0 .. N /\ within[d] = Closer(edges, within[d - 1]) /\ within[d - 1] \in V
      BY <1>1, <1>13, <2>2
    <3>2. QED
      BY <1>2, <3>1
  <2> HIDE DEF P
  <2>3. \A d \in 0 .. N : d \in P
    <3> HIDE DEF N
    <3>1. QED
      BY <1>1, <2>1, <2>2, StepInduction
  <2>4. QED
    BY <2>3 DEF P
<1>15. within \in [0 .. N -> V]
  <2>1. within = [d \in 0 .. N |-> within[d]]
    BY <1>10
  <2> HIDE DEF V, N
  <2>2. QED
    BY <1>14, <2>1
<1>16. QED
  BY <1>11, <1>13, <1>15 DEF Rounds

\* They are the least set of nodes that holds the targets and all that depends on it.
LEMMA DependentsFacts ==
    ASSUME InputOK
    PROVE  /\ Dependents(Visible, Targets) \in SUBSET Nodes
           /\ Shut(Dependents(Visible, Targets))
           /\ \A S : Shut(S) => Dependents(Visible, Targets) \subseteq S
<1> DEFINE N == Cardinality(Nodes)
<1>1. N \in Nat
  BY GraphAssumption, FS_CardinalityType
<1>2. Targets \in SUBSET Nodes /\ \A e \in Visible : e.from \in Nodes
  BY EdgeFacts DEF Targets
<1>3. PICK within \in [0 .. N -> SUBSET Nodes] :
         Rounds(within, Visible, Targets) /\ Dependents(Visible, Targets) = within[N]
  BY <1>2, DependentsRounds
<1>4. within[0] = Targets /\ \A d \in 1 .. N : within[d] = Closer(Visible, within[d - 1])
  BY <1>3 DEF Rounds
<1>5. \A d \in 0 .. N : /\ within[d] \in SUBSET Nodes /\ IsFiniteSet(within[d])
                        /\ Cardinality(within[d]) \in Nat /\ Cardinality(within[d]) <= N
  <2> TAKE d \in 0 .. N
  <2>1. within[d] \in SUBSET Nodes
    BY <1>3
  <2>2. QED
    BY <2>1, GraphAssumption, FS_Subset, FS_CardinalityType
<1>6. \A d \in 1 .. N : d \in 0 .. N /\ d - 1 \in 0 .. N
  BY <1>1
<1> DEFINE Still(S) == Closer(Visible, S) = S
           P == {d \in 0 .. N : /\ Targets \subseteq within[d]
                                /\ Still(within[d]) \/ Cardinality(within[d]) > d}
<1>7. 0 \in P
  <2>1. CASE Targets = {}
    <3>1. Still({})
      BY DEF Closer
    <3>2. within[0] = {} /\ Targets \subseteq within[0] /\ 0 \in 0 .. N
      BY <1>1, <1>4, <2>1
    <3> HIDE DEF Still
    <3>3. Still(within[0])
      BY <3>1, <3>2
    <3>4. QED
      BY <3>2, <3>3
  <2>2. CASE Targets # {}
    <3>1. Cardinality(Targets) # 0 /\ Cardinality(Targets) \in Nat
      BY <1>1, <1>4, <1>5, <2>2, FS_EmptySet
    <3>2. QED
      BY <1>1, <1>4, <3>1
  <2>3. QED
    BY <2>1, <2>2
<1>8. ASSUME NEW d \in 1 .. N, d - 1 \in P PROVE d \in P
  <2> DEFINE S == within[d - 1]
             T == within[d]
  <2>1. T = Closer(Visible, S) /\ S \subseteq T
    BY <1>4 DEF Closer
  <2>2. Targets \subseteq T
    BY <1>8, <2>1
  <2>3. CASE Still(S)
    <3>1. Still(T)
      BY <2>1, <2>3
    <3>2. QED
      BY <1>6, <2>2, <3>1
  <2>4. CASE ~ Still(S)
    <3>1. S # T /\ Cardinality(S) > d - 1
      BY <1>8, <2>1, <2>4
    <3>2. /\ IsFiniteSet(T) /\ Cardinality(S) \in Nat /\ Cardinality(T) \in Nat
      BY <1>5, <1>6
    <3>3. Cardinality(S) <= Cardinality(T) /\ Cardinality(S) # Cardinality(T)
      BY <2>1, <3>1, <3>2, FS_Subset
    <3>4. Cardinality(T) > d
      BY <1>1, <3>1, <3>2, <3>3
    <3>5. QED
      BY <1>6, <2>2, <3>4
  <2>5. QED
    BY <2>3, <2>4
<1>9. \A d \in 0 .. N : d \in P
  <2> HIDE DEF P, N
  <2>1. QED
    BY <1>1, <1>7, <1>8, StepInduction
<1>10. Targets \subseteq within[N] /\ Still(within[N])
  <2>1. N \in P /\ N \in 0 .. N
    BY <1>1, <1>9
  <2>2. Cardinality(within[N]) \in Nat /\ Cardinality(within[N]) <= N
    BY <1>5, <2>1
  <2> HIDE DEF N
  <2>3. ~ (Cardinality(within[N]) > N)
    BY <1>1, <2>2
  <2>4. QED
    BY <2>1, <2>3
<1>11. Shut(within[N])
  BY <1>10 DEF Shut, Closer
<1>12. ASSUME NEW S, Shut(S) PROVE within[N] \subseteq S
  <2> DEFINE Q == {d \in 0 .. N : within[d] \subseteq S}
  <2>1. 0 \in Q
    BY <1>1, <1>4, <1>12 DEF Shut
  <2>2. ASSUME NEW d \in 1 .. N, d - 1 \in Q PROVE d \in Q
    BY <1>4, <1>6, <1>12, <2>2 DEF Closer, Shut
  <2>3. \A d \in 0 .. N : d \in Q
    <3> HIDE DEF Q, N
    <3>1. QED
      BY <1>1, <2>1, <2>2, StepInduction
  <2>4. N \in 0 .. N
    BY <1>1
  <2>5. QED
    BY <2>3, <2>4
<1>13. QED
  BY <1>1, <1>3, <1>11, <1>12
-------------------------------------------------------------------------------
(* The incident that is run *)

\* The direct stress of a node is that of its component, none if it has none.
LEMMA StressType ==
    ASSUME NEW signals \in Seq(SignalRecords)
    PROVE  Stress(Components(signals)) \in [Nodes -> Fractions]
<1> DEFINE components == Components(signals)
           worth(c) == IF c.latency THEN Times(c.severity, LatencyShare) ELSE c.severity
<1>1. \A c \in components : c \in ComponentRecords
  <2>1. WinnersMapped(components, signals, Len(signals))
    BY ComponentsAreWinners
  <2>2. ASSUME NEW n \in Nodes, NEW j \in 1 .. Len(signals)
        PROVE  Component(n, signals[j]) \in ComponentRecords
    BY SignalFacts DEF Component, ComponentRecords
  <2>3. \A c \in components : \E n \in Nodes : \E j \in 1 .. Len(signals) :
           c = Component(n, signals[j])
    BY <2>1 DEF WinnersMapped
  <2>4. QED
    BY <2>2, <2>3
<1> HIDE DEF components
<1>2. \A c \in components : worth(c) \in Fractions
  <2> TAKE c \in components
  <2>1. c.severity \in Fractions /\ LatencyShare \in Fractions
    BY <1>1, MappingAssumption DEF ComponentRecords
  <2>2. QED
    BY <2>1, TimesType
<1>3. ASSUME NEW n \in Nodes
      PROVE  Most({worth(c) : c \in {d \in components : d.target = n}}) \in Fractions
  <2>1. {worth(c) : c \in {d \in components : d.target = n}} \subseteq Fractions
    BY <1>2
  <2> HIDE DEF worth
  <2>2. QED
    BY <2>1, MostType
<1>4. Stress(components) \in [Nodes -> Fractions]
  BY <1>3 DEF Stress
<1>5. QED
  BY <1>4 DEF components

\* The layers found so far: all they depend on was found before them.
SearchOK ==
    /\ frontier \subseteq reached /\ Targets \subseteq reached
    /\ reached \subseteq Dependents(Visible, Targets)
    /\ \A e \in Visible : e.to \in reached \ frontier => e.from \in reached
    /\ phase \notin {"validate", "rejected", "reach"} => frontier = {}

MemoOK ==
    /\ memo \in Memos
    /\ Within(memo, Dependents(Visible, Targets))
    /\ Acyclic(ArcsWithSubstitutes(Visible)) => Solution(memo)

StructuralIInv == InputOK /\ SearchOK /\ MemoOK

LEMMA InitStructural == Init => StructuralIInv
<1> SUFFICES ASSUME Init PROVE StructuralIInv
  OBVIOUS
<1>1. /\ case \in Cases /\ net = case.net /\ phase = "validate"
      /\ input = [listed |-> case.listed, hidden |-> case.hidden, spare |-> Spare,
                  stress |-> Stress(Components(case.signals))]
      /\ frontier = Targets /\ reached = Targets /\ memo = [n \in {} |-> Unit]
  BY DEF Init, StructuralInit
<1>2. case.net \subseteq EdgeOf(Nat, Nat) /\ IsFiniteSet(case.net)
      /\ case.signals \in Seq(SignalRecords)
  BY <1>1, RunAssumption
<1>3. Stress(Components(case.signals)) \in [Nodes -> Fractions]
  BY <1>2, StressType
<1>4. InputOK
  BY <1>1, <1>2, <1>3, RunAssumption DEF InputOK
<1>5. SearchOK
  BY <1>1, <1>4, DependentsFacts DEF SearchOK, Shut
<1>6. MemoOK
  <2>1. memo \in [{} -> Fractions] /\ {} \in SUBSET Nodes
    BY <1>1
  <2>2. memo \in Memos
    BY <2>1 DEF Memos
  <2>3. DOMAIN memo = {}
    BY <1>1
  <2>4. QED
    BY <2>2, <2>3 DEF MemoOK, Within, Solution
<1>7. QED
  BY <1>4, <1>5, <1>6 DEF StructuralIInv

\* One layer more.
LEMMA SearchGoesOn ==
    ASSUME InputOK, SearchOK, Search
    PROVE  SearchOK'
<1> DEFINE R == Dependents(Visible, Targets)
<1>1. Visible' = Visible /\ Targets' = Targets /\ R' = R
  BY DEF Search, Visible, Targets
<1>2. phase' = "reach" /\ frontier' = Layer /\ reached' = reached \cup Layer
  BY DEF Search
<1>3. Layer \subseteq R
  <2>1. \A e \in Visible : e.to \in R => e.from \in R
    BY DependentsFacts DEF Shut
  <2>2. frontier \subseteq R
    BY DEF SearchOK
  <2> HIDE DEF R
  <2>3. QED
    BY <2>1, <2>2 DEF Layer
<1>4. \A e \in Visible : e.to \in reached' \ frontier' => e.from \in reached'
  <2> TAKE e \in Visible
  <2> HAVE e.to \in reached' \ frontier'
  <2>1. e.to \in reached
    BY <1>2
  <2>2. CASE e.to \in frontier
    BY <1>2, <2>2 DEF Layer
  <2>3. CASE e.to \notin frontier
    BY <1>2, <2>1, <2>3 DEF SearchOK
  <2>4. QED
    BY <2>2, <2>3
<1>5. frontier' \subseteq reached' /\ Targets \subseteq reached' /\ reached' \subseteq R
  BY <1>2, <1>3 DEF SearchOK
<1>6. QED
  BY <1>1, <1>2, <1>4, <1>5 DEF SearchOK

\* What solves the equations still does after a step that leaves graph and incident alone.
LEMMA SolutionStays ==
    ASSUME net' = net, input' = input, NEW w, memo' = w, Solution(w)
    PROVE  Solution(memo)'
<1>1. \A e : Channel(e, memo)' = Channel(e, w)
  BY DEF Channel, Delivered, SpareCapacity, Known
<1>2. \A n : Dependencies(Visible, n)' = Dependencies(Visible, n)
  BY DEF Visible
<1>3. \A n : {Channel(e, memo)' : e \in Dependencies(Visible, n)'}
                = {Channel(e, w) : e \in Dependencies(Visible, n)}
  BY <1>1, <1>2
<1>4. \A n : Local(n, memo)' = Local(n, w)
  BY <1>3 DEF Local
<1>5. \A n : Asked(n)' = Asked(n)
  BY <1>2 DEF Asked
<1>6. QED
  BY <1>4, <1>5 DEF Solution

\* One capability more.
LEMMA FlowGoesOn ==
    ASSUME InputOK, MemoOK, NEW c \in Capabilities, Flow(c)
    PROVE  MemoOK'
<1> DEFINE R == Dependents(Visible, Targets)
<1>1. net' = net /\ input' = input
  BY DEF Flow
<1>2. Visible' = Visible /\ Targets' = Targets
  BY <1>1 DEF Visible, Targets
<1>3. PICK w : w = Visit(c, {}, memo)
  OBVIOUS
<1>4. memo' = w
  BY <1>3 DEF Flow
<1>5. Promises(w, memo, {}, c, R)
  <2>1. c \in Nodes
    BY StructuralAssumption
  <2>2. Shut(R)
    BY DependentsFacts
  <2> HIDE DEF R
  <2>3. QED
    BY <1>3, <2>1, <2>2, VisitKeepsPromises DEF MemoOK
<1>6. w \in Memos /\ Within(w, R)
  BY <1>5 DEF Promises, MemoOK
<1>7. Acyclic(ArcsWithSubstitutes(Visible)) => Solution(w)
  <2>1. Waits({}, c)
    BY DEF Waits
  <2>2. QED
    BY <1>5, <2>1 DEF Promises, MemoOK
<1>8. Solution(w) => Solution(memo)'
  BY <1>1, <1>4, SolutionStays
<1>9. Within(memo, R)'
  BY <1>2, <1>4, <1>6 DEF Within
<1>10. QED
  BY <1>2, <1>4, <1>6, <1>7, <1>8, <1>9 DEF MemoOK

LEMMA NextStructural == StructuralIInv /\ [Next]_vars => StructuralIInv'
<1> SUFFICES ASSUME StructuralIInv, [Next]_vars PROVE StructuralIInv'
  OBVIOUS
<1> USE DEF StructuralIInv
<1>1. UNCHANGED <<net, input>>
  <2>1. CASE StructuralNext
    BY <2>1 DEF StructuralNext, KahnStep, Accept, Reject, Search, SearchEnds, Flow, FlowEnds
  <2>2. CASE UNCHANGED vars
    <3>1. UNCHANGED structuralVars
      BY <2>2 DEF vars
    <3>2. QED
      BY <3>1 DEF structuralVars
  <2>3. CASE Next /\ ~ StructuralNext
    BY <2>3 DEF Next, Optimize, GreedyRound, GreedyEnds, Assess, structuralVars
  <2>4. QED
    BY <2>1, <2>2, <2>3
<1>2. Visible' = Visible /\ Targets' = Targets
  BY <1>1 DEF Visible, Targets
<1>3. InputOK'
  BY <1>1 DEF InputOK
<1>4. ASSUME UNCHANGED search,
             phase' \notin {"validate", "rejected", "reach"} =>
                 phase \notin {"validate", "rejected", "reach"} \/ frontier = {}
      PROVE  SearchOK'
  BY <1>2, <1>4 DEF SearchOK, search
<1>5. ASSUME UNCHANGED memo PROVE MemoOK'
  <2>1. Within(memo, Dependents(Visible, Targets))'
    BY <1>2, <1>5 DEF MemoOK, Within
  <2>2. Solution(memo) => Solution(memo)'
    <3>1. PICK w : w = memo
      OBVIOUS
    <3>2. Solution(memo) => Solution(w)
      BY <3>1 DEF Solution
    <3>3. memo' = w
      BY <1>5, <3>1
    <3>4. QED
      BY <1>1, <3>2, <3>3, SolutionStays
  <2>3. QED
    BY <1>2, <1>5, <2>1, <2>2 DEF MemoOK
<1>6. CASE (\E n \in Nodes : KahnStep(n)) \/ Accept \/ Reject
  BY <1>3, <1>4, <1>5, <1>6 DEF KahnStep, Accept, Reject, search
<1>7. CASE Search
  BY <1>3, <1>5, <1>7, SearchGoesOn DEF Search
<1>8. CASE SearchEnds
  BY <1>3, <1>4, <1>5, <1>8 DEF SearchEnds
<1>9. CASE \E c \in Capabilities : Flow(c)
  <2>1. MemoOK'
    BY <1>9, FlowGoesOn
  <2>2. UNCHANGED <<search, phase>>
    BY <1>9 DEF Flow
  <2>3. QED
    BY <1>3, <1>4, <2>1, <2>2
<1>10. CASE FlowEnds
  BY <1>3, <1>4, <1>5, <1>10 DEF FlowEnds
<1>11. CASE Optimize \/ GreedyEnds
  BY <1>3, <1>4, <1>5, <1>11 DEF Optimize, GreedyEnds
<1>12. CASE GreedyRound
  BY <1>3, <1>4, <1>5, <1>12 DEF GreedyRound, structuralVars, search
<1>13. CASE \E onPathway \in SUBSET Affected : Assess(onPathway)
  BY <1>3, <1>4, <1>5, <1>13 DEF Assess
<1>14. CASE UNCHANGED vars
  <2>1. UNCHANGED structuralVars
    BY <1>14 DEF vars
  <2>2. UNCHANGED <<search, phase, memo>>
    BY <2>1 DEF structuralVars, search
  <2>3. QED
    BY <1>3, <1>4, <1>5, <2>2
<1>15. QED
  BY <1>6, <1>7, <1>8, <1>9, <1>10, <1>11, <1>12, <1>13, <1>14 DEF Next, StructuralNext

\* For any graph and incident, the blast radius is exactly what depends on a target over
\* edges that are shown (reachability.py), and whoever the steady state degrades lies in
\* it, wherever the recursion falls back on its guard (capacity_flow.py).
THEOREM RadiusIsTrue == Spec => []RadiusIsExact
<1>1. StructuralIInv => RadiusIsExact
  <2> SUFFICES ASSUME StructuralIInv, phase \notin {"validate", "rejected", "reach"}
               PROVE  /\ reached = Dependents(Visible, Targets)
                      /\ \A n \in DOMAIN memo : memo[n] < Unit => n \in reached
    BY DEF RadiusIsExact, Visible
  <2> USE DEF StructuralIInv
  <2>1. Shut(reached)
    BY DEF SearchOK, Shut
  <2>2. reached = Dependents(Visible, Targets)
    BY <2>1, DependentsFacts DEF SearchOK
  <2>3. QED
    BY <2>2 DEF MemoOK, Within
<1>2. QED
  BY InitStructural, NextStructural, <1>1, PTL DEF Spec
-------------------------------------------------------------------------------
(* Bottleneck chains *)

\* There is no circle among fewer arcs either.
LEMMA FewerArcs ==
    ASSUME NEW some, NEW all, some \subseteq all, Acyclic(all)
    PROVE  Acyclic(some)
BY DEF Acyclic

\* The edge a bottleneck chain goes on with.
Limit(n) == AnyOf(Worst(n))

LEMMA LimitFacts ==
    ASSUME InputOK, NEW n \in Nodes, Worst(n) # {}
    PROVE  /\ Limit(n) \in Visible /\ Limit(n) \in Dependencies(Visible, n)
           /\ Limit(n).to \in Nodes
           /\ <<n, Limit(n).to>> \in Arcs(Visible)
           /\ Channel(Limit(n), memo) = memo[n]
<1>1. Limit(n) \in Worst(n)
  BY AnyOfIsOne DEF Limit
<1>2. Limit(n) \in Dependencies(Visible, n) /\ Channel(Limit(n), memo) = memo[n]
  BY <1>1 DEF Worst
<1>3. Limit(n) \in Visible /\ Limit(n).from = n /\ Limit(n).to \in Nodes
  BY <1>2, EdgeFacts
<1>4. QED
  BY <1>2, <1>3 DEF Arcs

Chains(g, D) ==
    \A n \in D : /\ Worst(n) = {} => g[n] = << >>
                 /\ Worst(n) # {} => g[n] = <<Limit(n)>> \o g[Limit(n).to]

\* Without circles the chains are defined: as long as some node has none, there is one
\* whose chain goes on at a node that has.
LEMMA ChainsExist ==
    ASSUME InputOK, Acyclic(Arcs(Visible))
    PROVE  \E g \in [Nodes -> Seq(Visible)] : Chains(g, Nodes)
<1> DEFINE V == Seq(Visible)
           Good(D) == /\ \A n \in D : Worst(n) # {} => Limit(n).to \in D
                      /\ \E g \in [D -> V] : Chains(g, D)
           left  == [D \in SUBSET Nodes |-> Cardinality(Nodes \ D)]
           sizes == {left[D] : D \in {E \in SUBSET Nodes : Good(E)}}
<1>1. \A D \in SUBSET Nodes : IsFiniteSet(Nodes \ D) /\ left[D] \in Nat
  <2> TAKE D \in SUBSET Nodes
  <2>1. Nodes \ D \in SUBSET Nodes
    OBVIOUS
  <2>2. QED
    BY <2>1, GraphAssumption, FS_Subset, FS_CardinalityType
<1>2. Good({})
  <2> DEFINE none == [n \in {} |-> << >>]
  <2>1. none \in [{} -> V] /\ Chains(none, {})
    BY DEF Chains
  <2>2. QED
    BY <2>1
<1>3. sizes \subseteq Nat /\ sizes # {}
  <2> HIDE DEF Good, left
  <2>1. QED
    BY <1>1, <1>2
<1>4. PICK size \in sizes : \A s \in sizes : size <= s
  BY <1>3, Least
<1>5. PICK D \in SUBSET Nodes : Good(D) /\ left[D] = size
  <2> HIDE DEF Good, left
  <2>1. QED
    OBVIOUS
<1>6. ASSUME D # Nodes PROVE FALSE
  <2>1. Nodes \ D \in (SUBSET Nodes) \ {{}}
    BY <1>6
  <2>2. PICK n \in Nodes \ D : \A m \in Nodes \ D : <<n, m>> \notin Arcs(Visible)
    BY <2>1 DEF Acyclic
  <2>3. Worst(n) # {} => Limit(n).to \in D
    BY <2>2, LimitFacts
  <2>4. PICK g \in [D -> V] : Chains(g, D)
    BY <1>5
  <2> DEFINE E == D \cup {n}
             value == IF Worst(n) = {} THEN << >> ELSE <<Limit(n)>> \o g[Limit(n).to]
             h == [m \in E |-> IF m = n THEN value ELSE g[m]]
  <2>5. value \in V
    <3>1. CASE Worst(n) = {}
      BY <3>1
    <3>2. CASE Worst(n) # {}
      <4>1. <<Limit(n)>> \in V
        <5>1. Limit(n) \in Visible
          BY <3>2, LimitFacts
        <5>2. QED
          BY <5>1
      <4>2. g[Limit(n).to] \in V
        <5> HIDE DEF V
        <5>1. QED
          BY <2>3, <2>4, <3>2
      <4>3. <<Limit(n)>> \o g[Limit(n).to] \in V
        BY <4>1, <4>2, ConcatProperties
      <4>4. QED
        BY <3>2, <4>3
    <3>3. QED
      BY <3>1, <3>2
  <2>6. h \in [E -> V]
    <3> HIDE DEF value, V
    <3>1. QED
      BY <2>4, <2>5
  <2>7. h[n] = value /\ \A m \in D : h[m] = g[m]
    BY <2>2
  <2>8. \A m \in D : Worst(m) # {} => Limit(m).to \in D
    BY <1>5
  <2> HIDE DEF h
  <2>9. Chains(h, E)
    <3> SUFFICES ASSUME NEW m \in E
                 PROVE  /\ Worst(m) = {} => h[m] = << >>
                        /\ Worst(m) # {} => h[m] = <<Limit(m)>> \o h[Limit(m).to]
      BY DEF Chains
    <3>1. CASE m = n
      BY <2>3, <2>7, <3>1
    <3>2. CASE m # n
      <4>1. m \in D /\ h[m] = g[m]
        BY <2>7, <3>2
      <4>2. Worst(m) # {} => h[Limit(m).to] = g[Limit(m).to]
        BY <2>7, <2>8, <4>1
      <4>3. QED
        BY <2>4, <4>1, <4>2 DEF Chains
    <3>3. QED
      BY <3>1, <3>2
  <2>10. Good(E)
    <3>1. \A m \in E : Worst(m) # {} => Limit(m).to \in E
      BY <2>3, <2>8
    <3>2. QED
      BY <2>6, <2>9, <3>1
  <2>11. E \in SUBSET Nodes
    BY <2>2
  <2>12. left[E] = left[D] - 1
    <3> DEFINE rest == Nodes \ D
    <3>1. IsFiniteSet(rest) /\ n \in rest
      BY <1>1, <2>2
    <3>2. Cardinality(rest \ {n}) = Cardinality(rest) - 1
      BY <3>1, FS_RemoveElement
    <3>3. rest \ {n} = Nodes \ E
      OBVIOUS
    <3>4. QED
      BY <2>11, <3>2, <3>3
  <2> HIDE DEF E, Good, left
  <2>13. left[E] \in sizes /\ left[D] \in Nat
    BY <1>1, <2>10, <2>11
  <2> HIDE DEF sizes
  <2>14. left[D] <= left[E]
    BY <1>4, <1>5, <2>13
  <2>15. QED
    BY <2>12, <2>13, <2>14
<1>7. QED
  BY <1>5, <1>6

LEMMA BottleneckChains ==
    ASSUME InputOK, Acyclic(Arcs(Visible))
    PROVE  \E chain : /\ Chains(chain, Nodes)
                      /\ \A n \in Nodes : Bottleneck(n) = chain[n] /\ chain[n] \in Seq(Visible)
<1> DEFINE Is(g) == g = [m \in Nodes |->
                           IF Worst(m) = {} THEN << >>
                           ELSE <<AnyOf(Worst(m))>> \o g[AnyOf(Worst(m)).to]]
           chain == CHOOSE g : Is(g)
<1>1. PICK g \in [Nodes -> Seq(Visible)] : Chains(g, Nodes)
  BY ChainsExist
<1>2. \A m \in Nodes : g[m] = IF Worst(m) = {} THEN << >>
                              ELSE <<AnyOf(Worst(m))>> \o g[AnyOf(Worst(m)).to]
  BY <1>1 DEF Chains, Limit
<1>3. Is(g)
  BY <1>1, <1>2
<1>4. Is(chain)
  BY <1>3
<1>5. \A n \in Nodes : Bottleneck(n) = chain[n]
  BY DEF Bottleneck, AnyOf
<1> HIDE DEF chain
<1>6. \A m \in Nodes : chain[m] = IF Worst(m) = {} THEN << >>
                                  ELSE <<AnyOf(Worst(m))>> \o chain[AnyOf(Worst(m)).to]
  BY <1>4
<1>7. Chains(chain, Nodes)
  BY <1>6 DEF Chains, Limit
<1>8. \A n \in Nodes : chain[n] \in Seq(Visible)
  <2> DEFINE wrong == {n \in Nodes : chain[n] \notin Seq(Visible)}
  <2>1. ASSUME wrong # {} PROVE FALSE
    <3>1. wrong \in (SUBSET Nodes) \ {{}}
      BY <2>1
    <3>2. PICK n \in wrong : \A m \in wrong : <<n, m>> \notin Arcs(Visible)
      BY <3>1 DEF Acyclic
    <3>3. CASE Worst(n) = {}
      <4>1. chain[n] = << >>
        BY <1>7, <3>2, <3>3 DEF Chains
      <4>2. << >> \in Seq(Visible)
        BY EmptySeq
      <4>3. QED
        BY <3>2, <4>1, <4>2
    <3>4. CASE Worst(n) # {}
      <4>1. Limit(n) \in Visible /\ Limit(n).to \in Nodes /\ Limit(n).to \notin wrong
        BY <3>2, <3>4, LimitFacts
      <4>2. <<Limit(n)>> \in Seq(Visible) /\ chain[Limit(n).to] \in Seq(Visible)
        BY <4>1
      <4>3. <<Limit(n)>> \o chain[Limit(n).to] \in Seq(Visible)
        BY <4>2, ConcatProperties
      <4>4. chain[n] = <<Limit(n)>> \o chain[Limit(n).to]
        BY <1>7, <3>4 DEF Chains
      <4>5. QED
        BY <4>3, <4>4
    <3>5. QED
      BY <3>3, <3>4
  <2>2. QED
    BY <2>1
<1>9. QED
  BY <1>5, <1>7, <1>8

\* A node that is worse off than its own stress has a worst channel.
LEMMA WorstExists ==
    ASSUME InputOK, memo \in Memos, Solution(memo), NEW n \in DOMAIN memo, Worst(n) = {}
    PROVE  memo[n] = Unit - input.stress[n]
<1> DEFINE limiting == {e \in Dependencies(Visible, n) :
                           Channel(e, memo) = memo[n] /\ memo[n] < Unit - input.stress[n]}
<1>1. n \in Nodes /\ memo[n] = Local(n, memo)
  BY KnownType DEF Solution
<1>2. memo[n] \in Int /\ Unit - input.stress[n] \in Int /\ memo[n] <= Unit - input.stress[n]
  BY <1>1, LocalFacts, UnitFacts DEF InputOK
<1>3. SUFFICES ASSUME memo[n] # Unit - input.stress[n] PROVE FALSE
  OBVIOUS
<1>4. memo[n] < Unit - input.stress[n]
  BY <1>2, <1>3
<1>5. PICK e \in Dependencies(Visible, n) : memo[n] = Channel(e, memo)
  BY <1>1, <1>3, LocalFacts
<1>6. limiting # {} /\ limiting \in SUBSET Dependencies(Visible, n)
  BY <1>4, <1>5
<1>7. \A f \in limiting : f.id \in Nat
  BY <1>6, EdgeFacts
<1> DEFINE ids == {f.id : f \in limiting}
<1>8. ids \subseteq Nat /\ ids # {}
  BY <1>6, <1>7
<1>9. PICK i \in ids : \A j \in ids : i <= j
  BY <1>8, Least
<1>10. PICK f \in limiting : f.id = i
  OBVIOUS
<1>11. \A h \in limiting : f.id <= h.id
  BY <1>9, <1>10
<1>12. f \in Worst(n)
  BY <1>10, <1>11 DEF Worst
<1>13. QED
  BY <1>12

\* The chain of whoever is degraded ends at a target: each of its nodes is degraded, and
\* the last one by its own stress alone.
LEMMA RootIsHit ==
    ASSUME InputOK, memo \in Memos, Solution(memo), Acyclic(Arcs(Visible)),
           NEW c \in DOMAIN memo, memo[c] < Unit
    PROVE  Root(c) \in Targets
<1>1. PICK chain : /\ Chains(chain, Nodes)
                   /\ \A n \in Nodes : Bottleneck(n) = chain[n] /\ chain[n] \in Seq(Visible)
  BY BottleneckChains
<1> DEFINE End(n) == IF chain[n] = << >> THEN n ELSE Last(chain[n]).to
           wrong  == {n \in DOMAIN memo : memo[n] < Unit /\ End(n) \notin Targets}
<1>2. DOMAIN memo \in SUBSET Nodes /\ \A n \in DOMAIN memo : memo[n] \in Fractions
  BY KnownType
<1>3. ASSUME NEW n \in DOMAIN memo, memo[n] < Unit, Worst(n) = {}
      PROVE  End(n) \in Targets
  <2>1. n \in Nodes /\ chain[n] = << >>
    BY <1>1, <1>2, <1>3 DEF Chains
  <2>2. memo[n] = Unit - input.stress[n]
    BY <1>3, WorstExists
  <2>3. input.stress[n] \in Nat /\ Unit \in Nat
    BY <2>1, UnitFacts DEF InputOK, Fractions
  <2>4. input.stress[n] > 0
    BY <1>3, <2>2, <2>3
  <2>5. QED
    BY <2>1, <2>4 DEF Targets
<1>4. ASSUME NEW n \in DOMAIN memo, memo[n] < Unit, Worst(n) # {}
      PROVE  LET m == Limit(n).to
             IN  m \in DOMAIN memo /\ memo[m] < Unit /\ End(n) = End(m)
                 /\ <<n, m>> \in Arcs(Visible)
  <2> DEFINE m == Limit(n).to
  <2>1. /\ n \in Nodes /\ Limit(n) \in Visible /\ m \in Nodes
        /\ <<n, m>> \in Arcs(Visible) /\ Channel(Limit(n), memo) = memo[n]
    BY <1>2, <1>4, LimitFacts
  <2>2. Known(memo, m) < Unit
    BY <1>4, <2>1, ChannelFacts
  <2>3. ~ (Unit < Unit)
    BY UnitFacts
  <2>4. m \in DOMAIN memo /\ memo[m] < Unit
    BY <2>2, <2>3 DEF Known
  <2> DEFINE s == <<Limit(n)>>
             t == chain[m]
  <2>5. chain[n] = s \o t
    BY <1>1, <1>4, <2>1 DEF Chains
  <2>6. s \in Seq(Visible) /\ t \in Seq(Visible) /\ Len(s) = 1 /\ s[1] = Limit(n)
    BY <1>1, <2>1
  <2> HIDE DEF s, t
  <2>7. /\ s \o t \in Seq(Visible) /\ Len(s \o t) = Len(s) + Len(t)
        /\ \A i \in 1 .. Len(s) + Len(t) :
              (s \o t)[i] = IF i <= Len(s) THEN s[i] ELSE t[i - Len(s)]
    BY <2>6, ConcatProperties
  <2>8. Len(t) \in Nat /\ (t = << >> <=> Len(t) = 0)
    BY <2>6, EmptySeq, LenProperties
  <2>9. s \o t # << >> /\ Last(s \o t) = (s \o t)[1 + Len(t)]
    BY <2>6, <2>7, <2>8, EmptySeq DEF Last
  <2>10. CASE t = << >>
    <3>1. Last(s \o t) = Limit(n)
      BY <2>6, <2>7, <2>8, <2>9, <2>10
    <3>2. End(n) = m /\ End(m) = m
      BY <2>5, <2>9, <2>10, <3>1 DEF t
    <3>3. QED
      BY <2>1, <2>4, <3>2
  <2>11. CASE t # << >>
    <3>1. Last(s \o t) = t[Len(t)]
      BY <2>6, <2>7, <2>8, <2>9, <2>11
    <3>2. Last(t) = t[Len(t)]
      BY DEF Last
    <3>3. End(n) = End(m)
      BY <2>5, <2>9, <2>11, <3>1, <3>2 DEF t
    <3>4. QED
      BY <2>1, <2>4, <3>3
  <2>12. QED
    BY <2>10, <2>11
<1>5. wrong = {}
  <2> SUFFICES ASSUME wrong # {} PROVE FALSE
    OBVIOUS
  <2>1. wrong \in (SUBSET Nodes) \ {{}}
    BY <1>2
  <2>2. PICK n \in wrong : \A m \in wrong : <<n, m>> \notin Arcs(Visible)
    BY <2>1 DEF Acyclic
  <2>3. CASE Worst(n) = {}
    BY <1>3, <2>3
  <2>4. CASE Worst(n) # {}
    <3> HIDE DEF End
    <3>1. QED
      BY <1>4, <2>2, <2>4
  <2>5. QED
    BY <2>3, <2>4
<1>6. c \in Nodes /\ Root(c) = End(c)
  BY <1>1, <1>2 DEF Root
<1>7. QED
  BY <1>5, <1>6

\* For any graph whose substitutes lead back in no circle, whatever is computed solves the
\* equations the model documents, in whatever order the capabilities come, and the chain
\* of a degraded one ends at a node the incident hit (capacity_flow.py).
THEOREM FlowIsSolved == Spec => []FlowSolvesEquations
<1>1. StructuralIInv => FlowSolvesEquations
  <2> SUFFICES ASSUME StructuralIInv, Acyclic(ArcsWithSubstitutes(Visible))
               PROVE  /\ \A n \in DOMAIN memo : memo[n] = Local(n, memo)
                      /\ \A c \in Capabilities \cap DOMAIN memo :
                            memo[c] < Unit => Root(c) \in Targets
    BY DEF FlowSolvesEquations, Visible
  <2>1. InputOK /\ memo \in Memos /\ Solution(memo)
    BY DEF StructuralIInv, MemoOK
  <2>2. Acyclic(Arcs(Visible))
    BY FewerArcs DEF ArcsWithSubstitutes
  <2>3. QED
    BY <2>1, <2>2, RootIsHit DEF Solution
<1>2. QED
  BY InitStructural, NextStructural, <1>1, PTL DEF Spec
-------------------------------------------------------------------------------
(* Differences in hundredths *)

\* The greater and the lesser of two numbers.
LEMMA TwoFacts ==
    ASSUME NEW a \in Int, NEW b \in Int
    PROVE  /\ Max({a, b}) \in {a, b} /\ a <= Max({a, b}) /\ b <= Max({a, b})
           /\ Min({a, b}) \in {a, b} /\ Min({a, b}) <= a /\ Min({a, b}) <= b
<1>1. \E m \in {a, b} : \A n \in {a, b} : m >= n
  BY DEF Max
<1>2. \E m \in {a, b} : \A n \in {a, b} : m <= n
  OBVIOUS
<1>3. /\ Max({a, b}) \in {a, b} /\ \A n \in {a, b} : Max({a, b}) >= n
      /\ Min({a, b}) \in {a, b} /\ \A n \in {a, b} : Min({a, b}) <= n
  BY <1>1, <1>2 DEF Max, Min
<1>4. QED
  BY <1>3

\* A quotient is no less if what is divided is no less.
LEMMA DivMonotone ==
    ASSUME NEW a \in Int, NEW b \in Int, NEW c \in Nat \ {0}, a <= b
    PROVE  a \div c \in Int /\ b \div c \in Int /\ a \div c <= b \div c
BY Z3

\* A share of a whole, in hundredths.
LEMMA PercentFacts ==
    ASSUME NEW a \in Nat, NEW w \in Nat \ {0}
    PROVE  /\ Percent(a, w) \in Nat
           /\ a <= w => Percent(a, w) <= 100
           /\ a < w => Percent(a, w) < 100
<1>1. (100 * a) \div w \in Nat
  BY Z3
<1>2. a <= w => (100 * a) \div w <= 100
  BY Z3
<1>3. a < w => (100 * a) \div w < 100
  BY Z3
<1>4. QED
  BY <1>1, <1>2, <1>3 DEF Percent

\* What a result may say: a number, or none.
Figures == Nat \cup {None}

\* The difference of two figures is in hundredths of the scale.
LEMMA DiffType ==
    ASSUME NEW a \in Figures, NEW b \in Figures, NEW scale \in Nat \ {0}
    PROVE  NormalizedDiff(a, b, scale) \in 0 .. 100
<1>1. CASE a = None /\ b = None
  BY <1>1 DEF NormalizedDiff
<1>2. CASE (a = None) # (b = None)
  BY <1>2 DEF NormalizedDiff
<1>3. CASE a # None /\ b # None
  <2>1. a \in Nat /\ b \in Nat
    BY <1>3 DEF Figures
  <2>2. a - b \in Int /\ b - a \in Int
    BY <2>1
  <2>3. Max({a - b, b - a}) \in Nat
    <3>1. /\ Max({a - b, b - a}) \in {a - b, b - a}
          /\ a - b <= Max({a - b, b - a}) /\ b - a <= Max({a - b, b - a})
      BY <2>2, TwoFacts
    <3>2. QED
      BY <2>1, <3>1
  <2> DEFINE p == Percent(Max({a - b, b - a}), scale)
  <2>4. p \in Nat
    BY <2>3, PercentFacts
  <2> HIDE DEF p
  <2>5. Min({100, p}) \in {100, p} /\ Min({100, p}) <= 100
    BY <2>4, TwoFacts
  <2>6. NormalizedDiff(a, b, scale) = Min({100, p})
    BY <1>3 DEF NormalizedDiff, p
  <2>7. QED
    BY <2>4, <2>5, <2>6
<1>4. QED
  BY <1>1, <1>2, <1>3

\* What two models disagree in, in hundredths of the whole.
LEMMA DiffCounts ==
    ASSUME NEW a \in Fractions, NEW b \in Fractions
    PROVE  /\ Percent(a - b, Unit) \in Int
           /\ Percent(a - b, Unit) <= NormalizedDiff(a, b, Unit)
<1>1. /\ a \in Nat /\ b \in Nat /\ a <= Unit /\ b <= Unit /\ Unit \in Nat \ {0}
      /\ a # None /\ b # None
  BY GraphAssumption, AssessmentAssumption DEF Fractions
<1>2. a - b \in Int /\ b - a \in Int
  BY <1>1
<1> DEFINE d == Max({a - b, b - a})
<1>3. d \in {a - b, b - a} /\ a - b <= d /\ b - a <= d
  BY <1>2, TwoFacts
<1>4. d \in Nat /\ d <= Unit
  <2> HIDE DEF d
  <2>1. QED
    BY <1>1, <1>3
<1> HIDE DEF d
<1>5. Percent(d, Unit) \in Nat /\ Percent(d, Unit) <= 100
  BY <1>1, <1>4, PercentFacts
<1>6. Percent(a - b, Unit) \in Int /\ Percent(a - b, Unit) <= Percent(d, Unit)
  <2>1. 100 * (a - b) \in Int /\ 100 * d \in Int /\ 100 * (a - b) <= 100 * d
    BY <1>1, <1>3, <1>4
  <2>2. QED
    BY <1>1, <2>1, DivMonotone DEF Percent
<1>7. Min({100, Percent(d, Unit)}) = Percent(d, Unit)
  BY <1>5, TwoFacts
<1>8. NormalizedDiff(a, b, Unit) = Min({100, Percent(d, Unit)})
  BY <1>1 DEF NormalizedDiff, d
<1>9. QED
  BY <1>6, <1>7, <1>8

\* Sets of nodes that are not the same differ in their share.
LEMMA JaccardFacts ==
    ASSUME NEW a \in SUBSET Nodes, NEW b \in SUBSET Nodes
    PROVE  Jaccard(a, b) \in 0 .. 100 /\ (a # b => Jaccard(a, b) > 0)
<1> DEFINE both == Cardinality(a \cap b)
           any  == Cardinality(a \cup b)
<1>1. IsFiniteSet(a \cup b) /\ a \cap b \in SUBSET (a \cup b)
  <2>1. a \cup b \in SUBSET Nodes
    OBVIOUS
  <2>2. QED
    BY <2>1, GraphAssumption, FS_Subset
<1>2. both \in Nat /\ any \in Nat /\ both <= any
  BY <1>1, FS_Subset, FS_CardinalityType
<1>3. a # b => both < any
  <2>1. a # b => a \cap b # a \cup b
    OBVIOUS
  <2>2. a \cap b # a \cup b => both # any
    BY <1>1, FS_Subset
  <2>3. QED
    BY <1>2, <2>1, <2>2
<1>4. CASE a \cup b = {}
  BY <1>4 DEF Jaccard
<1>5. CASE a \cup b # {}
  <2>1. any # 0
    BY <1>1, <1>5, FS_EmptySet
  <2>2. Jaccard(a, b) = 100 - Percent(both, any)
    BY <1>5 DEF Jaccard
  <2> HIDE DEF both, any
  <2>3. Percent(both, any) \in Nat /\ Percent(both, any) <= 100
        /\ (a # b => Percent(both, any) < 100)
    BY <1>2, <1>3, <2>1, PercentFacts
  <2>4. QED
    BY <2>2, <2>3
<1>6. QED
  BY <1>4, <1>5

\* What a model may find.
ResultRecords == [degradation : Fractions \cup {None}, floor : Figures, recovery : Figures,
                  affected : SUBSET Nodes]

\* The greatest of some hundredths is one of them or 0.
LEMMA MostOfScores ==
    ASSUME NEW S, S \subseteq 0 .. 100
    PROVE  Most(S) \in 0 .. 100 /\ \A x \in S : x \in Int /\ x <= Most(S)
<1>1. 100 \in Nat /\ \A x \in S : x \in Int
  OBVIOUS
<1>2. QED
  BY <1>1, MostIsGreatest

\* The areas of disagreement are scores, and each pair of models counts in them.
LEMMA AreasFacts ==
    ASSUME NEW results, \A m \in DOMAIN results : results[m] \in ResultRecords
    PROVE  LET areas == Areas(results) IN
           /\ DOMAIN areas = Metrics \cup {"affected"}
           /\ \A metric \in Metrics \cup {"affected"} : areas[metric] \in 0 .. 100
           /\ \A m, n \in Quantified(results) :
                 Percent(results[m].degradation - results[n].degradation, Unit)
                   <= areas["degradation"]
           /\ \A m, n \in Quantified(results), metric \in {"floor", "recovery"} :
                 (results[m][metric] = None) # (results[n][metric] = None) => areas[metric] = 100
           /\ \A m, n \in DOMAIN results :
                 results[m].affected # results[n].affected => areas["affected"] > 0
<1> DEFINE areas == Areas(results)
           nodes == {Jaccard(results[m].affected, results[n].affected) :
                       m \in DOMAIN results, n \in DOMAIN results}
           diffs(metric) == {NormalizedDiff(results[m][metric], results[n][metric], Scale[metric]) :
                       m \in Quantified(results), n \in Quantified(results)}
<1>1. \A r \in ResultRecords :
         /\ r.degradation \in Fractions \cup {None} /\ r.degradation \in Figures
         /\ r.floor \in Figures /\ r.recovery \in Figures /\ r.affected \in SUBSET Nodes
  BY GraphAssumption DEF ResultRecords, Figures, Fractions
<1>2. nodes \subseteq 0 .. 100
  BY <1>1, JaccardFacts
<1>3. \A metric \in Metrics : Scale[metric] \in Nat \ {0}
  BY GraphAssumption, AssessmentAssumption DEF Metrics, Scale
<1>4. ASSUME NEW metric \in Metrics PROVE diffs(metric) \subseteq 0 .. 100
  <2>1. \A m \in Quantified(results) : results[m][metric] \in Figures
    BY <1>1 DEF Quantified, Metrics
  <2>2. QED
    BY <1>3, <2>1, DiffType
<1>5. /\ DOMAIN areas = Metrics \cup {"affected"}
      /\ areas["affected"] = Most(nodes)
      /\ \A metric \in Metrics : areas[metric] = Most(diffs(metric))
  BY DEF Areas, Metrics
<1>6. \A metric \in Metrics \cup {"affected"} : areas[metric] \in 0 .. 100
  <2> HIDE DEF areas, nodes, diffs
  <2>1. areas["affected"] \in 0 .. 100
    BY <1>2, <1>5, MostOfScores
  <2>2. \A metric \in Metrics : areas[metric] \in 0 .. 100
    BY <1>4, <1>5, MostOfScores
  <2>3. QED
    BY <2>1, <2>2
<1>7. ASSUME NEW m \in Quantified(results), NEW n \in Quantified(results)
      PROVE  Percent(results[m].degradation - results[n].degradation, Unit)
               <= areas["degradation"]
  <2> DEFINE a == results[m].degradation
             b == results[n].degradation
  <2>1. a \in Fractions /\ b \in Fractions
    BY <1>1 DEF Quantified
  <2>2. "degradation" \in Metrics /\ Scale["degradation"] = Unit
    BY DEF Metrics, Scale
  <2>3. NormalizedDiff(a, b, Unit) \in diffs("degradation")
    BY <2>2
  <2> HIDE DEF diffs, areas, a, b
  <2>4. NormalizedDiff(a, b, Unit) <= Most(diffs("degradation"))
        /\ NormalizedDiff(a, b, Unit) \in Int /\ Most(diffs("degradation")) \in Int
    <3>1. diffs("degradation") \subseteq 0 .. 100 
      BY <1>4, <2>2
    <3>2. QED
      BY <2>3, <3>1, MostOfScores
  <2>5. Percent(a - b, Unit) \in Int /\ Percent(a - b, Unit) <= NormalizedDiff(a, b, Unit)
    BY <2>1, DiffCounts
  <2>6. areas["degradation"] = Most(diffs("degradation"))
    BY <1>5, <2>2
  <2>7. Percent(a - b, Unit) <= areas["degradation"]
    BY <2>4, <2>5, <2>6
  <2>8. QED
    BY <2>7 DEF a, b
<1>10. ASSUME NEW m \in Quantified(results), NEW n \in Quantified(results),
              NEW metric \in {"floor", "recovery"},
              (results[m][metric] = None) # (results[n][metric] = None)
       PROVE  areas[metric] = 100
  <2>1. metric \in Metrics
    BY DEF Metrics
  <2>2. 100 \in diffs(metric)
    BY <1>10, <2>1 DEF NormalizedDiff
  <2> HIDE DEF diffs, areas
  <2>3. diffs(metric) \subseteq 0 .. 100
    BY <1>4, <2>1
  <2>4. 100 <= Most(diffs(metric)) /\ Most(diffs(metric)) \in 0 .. 100
    BY <2>2, <2>3, MostOfScores
  <2>5. areas[metric] = Most(diffs(metric))
    BY <1>5, <2>1
  <2>6. QED
    BY <2>4, <2>5
<1>8. ASSUME NEW m \in DOMAIN results, NEW n \in DOMAIN results,
             results[m].affected # results[n].affected
      PROVE  areas["affected"] > 0
  <2> DEFINE j == Jaccard(results[m].affected, results[n].affected)
  <2>1. j \in nodes /\ j \in Int /\ j > 0
    BY <1>1, <1>8, JaccardFacts
  <2> HIDE DEF j, nodes
  <2>2. j <= Most(nodes) /\ Most(nodes) \in Int
    BY <1>2, <2>1, MostOfScores
  <2>3. QED
    BY <1>5, <2>1, <2>2
<1>9. QED
  BY <1>5, <1>6, <1>7, <1>8, <1>10

\* There are four areas.
LEMMA AreasAreFinite == IsFiniteSet(Metrics \cup {"affected"})
<1> DEFINE figures == {"degradation"} \cup {"floor"}
           others  == {"recovery"} \cup {"affected"}
<1>1. Metrics \cup {"affected"} = figures \cup others
  BY DEF Metrics
<1>2. /\ IsFiniteSet({"degradation"}) /\ IsFiniteSet({"floor"})
      /\ IsFiniteSet({"recovery"}) /\ IsFiniteSet({"affected"})
  BY FS_Singleton
<1>3. IsFiniteSet(figures) /\ IsFiniteSet(others)
  BY <1>2, FS_Union
<1> HIDE DEF figures, others
<1>4. IsFiniteSet(figures \cup others)
  BY <1>3, FS_Union
<1>5. QED
  BY <1>1, <1>4

\* What is reported overall is the largest of the areas.
LEMMA OverallFacts ==
    ASSUME NEW areas, DOMAIN areas = Metrics \cup {"affected"},
           \A metric \in Metrics \cup {"affected"} : areas[metric] \in 0 .. 100
    PROVE  Overall(areas) \in 0 .. 100
           /\ \A metric \in Metrics \cup {"affected"} : areas[metric] <= Overall(areas)
<1> DEFINE S == DOMAIN areas
<1>1. IsFiniteSet(S) /\ S # {}
  BY AreasAreFinite
<1>2. \A x \in S : areas[x] \in Int
  OBVIOUS
<1>3. \E m \in S : Max({areas[x] : x \in S}) = areas[m] /\ \A x \in S : areas[x] <= areas[m]
  <2> HIDE DEF S
  <2>1. QED
    BY <1>1, <1>2, MaxOfValues
<1>4. QED
  BY <1>3 DEF Overall
-------------------------------------------------------------------------------
(* Quantiles *)

\* Values of replications: finitely many are given, and those are numbers.
Measured(values) ==
    /\ IsFiniteSet(Given(values)) /\ Given(values) # {}
    /\ \A k \in Given(values) : values[k] \in Nat

\* The k-th smallest value is one of them, and a later one is no smaller.
LEMMA NthFacts ==
    ASSUME NEW values, Measured(values)
    PROVE  LET n == Cardinality(Given(values)) IN
           /\ n \in Nat \ {0}
           /\ \A k \in 1 .. n : \E i \in Given(values) : Nth(values, k) = values[i]
           /\ \A j, k \in 1 .. n : j <= k => Nth(values, j) <= Nth(values, k)
<1> DEFINE G == Given(values)
           n == Cardinality(G)
           Below(i) == {j \in G : values[j] <= values[i]}
           late(k)  == {values[i] : i \in {j \in G : Cardinality(Below(j)) >= k}}
<1>1. IsFiniteSet(G) /\ G # {} /\ \A i \in G : values[i] \in Nat
  BY DEF Measured
<1>2. n \in Nat \ {0}
  BY <1>1, FS_CardinalityType, FS_EmptySet
<1>3. PICK m \in G : \A i \in G : values[i] <= values[m]
  <2>1. \A i \in G : values[i] \in Int
    BY <1>1
  <2>2. QED
    BY <1>1, <2>1, GreatestExists
<1>4. \A i \in G : Cardinality(Below(i)) \in Nat
  <2>1. \A i \in G : Below(i) \in SUBSET G
    OBVIOUS
  <2>2. QED
    BY <1>1, <2>1, FS_Subset, FS_CardinalityType
<1>5. \A k \in 1 .. n : late(k) \subseteq Nat /\ values[m] \in late(k)
  <2> TAKE k \in 1 .. n
  <2>1. Below(m) = G
    BY <1>3
  <2>2. Cardinality(Below(m)) >= k
    BY <1>2, <2>1
  <2> HIDE DEF Below, G
  <2>3. values[m] \in late(k)
    BY <2>2
  <2>4. late(k) \subseteq Nat
    BY <1>1
  <2>5. QED
    BY <2>3, <2>4
<1>6. ASSUME NEW k \in 1 .. n
      PROVE  Nth(values, k) \in late(k) /\ \A v \in late(k) : Nth(values, k) <= v
  <2>1. Nth(values, k) = Min(late(k))
    BY DEF Nth
  <2> DEFINE S == late(k)
  <2>2. S \subseteq Nat /\ values[m] \in S
    BY <1>5
  <2> HIDE DEF S
  <2>3. S \subseteq Int
    BY <2>2
  <2>4. PICK v \in S : \A w \in S : v <= w
    BY <2>2, Least
  <2>5. Min(S) = v
    BY <2>3, <2>4, MinIsLeast
  <2>6. Min(S) \in S /\ \A w \in S : Min(S) <= w
    BY <2>4, <2>5
  <2>7. QED
    BY <2>1, <2>6 DEF S
<1>7. \A j, k \in 1 .. n : j <= k => late(k) \subseteq late(j)
  BY <1>2, <1>4
<1> HIDE DEF n
<1>8. \A j, k \in 1 .. n : j <= k => Nth(values, j) <= Nth(values, k)
  BY <1>6, <1>7
<1>9. \A k \in 1 .. n : \E i \in G : Nth(values, k) = values[i]
  BY <1>6
<1>10. QED
  BY <1>2, <1>8, <1>9 DEF n

\* What lies between two values, in hundredths of their distance.
Between(low, high, share) == (low * (100 - share) + high * share) \div 100

\* What is interpolated lies between, and goes up with the share.
LEMMA BetweenFacts ==
    ASSUME NEW low \in Nat, NEW high \in Nat, low <= high, NEW share \in 0 .. 100
    PROVE  /\ Between(low, high, share) \in Nat
           /\ low <= Between(low, high, share) /\ Between(low, high, share) <= high
           /\ \A more \in share .. 100 : Between(low, high, share) <= Between(low, high, more)
<1> DEFINE d == high - low
           sum(s) == low * (100 - s) + high * s
<1>1. d \in Nat /\ high = low + d
  OBVIOUS
<1>2. ASSUME NEW s \in 0 .. 100 PROVE sum(s) = 100 * low + d * s
  <2>1. (low + d) * s = low * s + d * s /\ low * (100 - s) = 100 * low - low * s
    BY <1>1, Z3
  <2>2. QED
    BY <1>1, <2>1
<1>3. \A s \in 0 .. 100 : d * s \in Nat /\ d * s <= 100 * d
  BY <1>1, Z3
<1>4. \A s \in share .. 100 : s \in 0 .. 100 /\ d * share <= d * s
  BY <1>1, Z3
<1> HIDE DEF d, sum
<1>5. \A s \in 0 .. 100 : sum(s) \in Nat /\ 100 * low <= sum(s) /\ sum(s) <= 100 * high
  BY <1>1, <1>2, <1>3
<1>6. \A s \in share .. 100 : sum(s) \in Nat /\ sum(share) <= sum(s)
  <2> TAKE s \in share .. 100
  <2>1. s \in 0 .. 100 /\ d * share <= d * s /\ d * share \in Nat /\ d * s \in Nat
    BY <1>3, <1>4
  <2>2. sum(share) = 100 * low + d * share /\ sum(s) = 100 * low + d * s
    BY <1>2, <2>1
  <2>3. QED
    BY <2>1, <2>2
<1>7. \A x \in Nat : (100 * low <= x /\ x <= 100 * high)
                      => x \div 100 \in Nat /\ low <= x \div 100 /\ x \div 100 <= high
  OBVIOUS
<1>8. \A x, y \in Nat : x <= y => x \div 100 <= y \div 100
  OBVIOUS
<1>9. \A s : Between(low, high, s) = sum(s) \div 100
  BY DEF Between, sum
<1>10. QED
  BY <1>5, <1>6, <1>7, <1>8, <1>9

\* Where a quantile is looked up.
LEMMA PositionFacts ==
    ASSUME NEW last \in Nat, NEW q \in 0 .. 100, NEW r \in q .. 100
    PROVE  /\ (q * last) \div 100 \in 0 .. last /\ (q * last) % 100 \in 0 .. 99
           /\ (q * last) \div 100 <= (r * last) \div 100
           /\ (q * last) \div 100 = (r * last) \div 100 => (q * last) % 100 <= (r * last) % 100
<1>1. /\ q * last \in Nat /\ r * last \in Nat
      /\ q * last <= 100 * last /\ q * last <= r * last
  BY Z3
<1> DEFINE x == q * last
           y == r * last
<1> HIDE DEF x, y
<1>2. x \in Nat /\ y \in Nat /\ x <= 100 * last /\ x <= y
  BY <1>1 DEF x, y
<1>3. /\ x \div 100 \in 0 .. last /\ x % 100 \in 0 .. 99
      /\ x \div 100 <= y \div 100
      /\ x \div 100 = y \div 100 => x % 100 <= y % 100
  BY <1>2
<1>4. QED
  BY <1>3 DEF x, y

\* A quantile is at most the greatest value, and a higher one is no smaller.
LEMMA QuantileFacts ==
    ASSUME NEW values, Measured(values), NEW q \in 0 .. 100, NEW r \in q .. 100
    PROVE  /\ Quantile(values, q) \in Nat /\ Quantile(values, q) <= Quantile(values, r)
           /\ \A u \in Nat : (\A k \in Given(values) : values[k] <= u)
                                => Quantile(values, q) <= u
<1> DEFINE n == Cardinality(Given(values))
           position(p) == (p * (n - 1)) \div 100
           share(p) == (p * (n - 1)) % 100
           low(p)  == Nth(values, position(p) + 1)
           high(p) == Nth(values, Min({position(p) + 2, n - 1 + 1}))
<1>1. n \in Nat \ {0} /\ n - 1 \in Nat /\ n - 1 + 1 = n
  BY NthFacts
<1>2. \A k \in 1 .. n : \E i \in Given(values) : Nth(values, k) = values[i]
  BY NthFacts
<1>3. \A j, k \in 1 .. n : j <= k => Nth(values, j) <= Nth(values, k)
  BY NthFacts
<1>4. \A k \in 1 .. n : Nth(values, k) \in Nat
  BY <1>2 DEF Measured
<1>5. \A p \in {q, r} : Quantile(values, p) = Between(low(p), high(p), share(p))
  BY DEF Quantile, Between
<1>6. \A p \in {q, r} : position(p) \in 0 .. n - 1 /\ share(p) \in 0 .. 99
  <2> DEFINE last == n - 1
  <2>1. last \in Nat
    BY <1>1
  <2>2. r \in 0 .. 100 /\ r \in r .. 100
    <3>1. q \in Int /\ r \in Int /\ 0 <= q /\ q <= r /\ r <= 100
      BY ONLY q \in 0 .. 100, r \in q .. 100
    <3>2. QED
      BY ONLY <3>1
  <2> HIDE DEF last
  <2>3. (q * last) \div 100 \in 0 .. last /\ (q * last) % 100 \in 0 .. 99
    BY <2>1, PositionFacts
  <2>4. (r * last) \div 100 \in 0 .. last /\ (r * last) % 100 \in 0 .. 99
    BY <2>1, <2>2, PositionFacts
  <2>5. QED
    BY <2>3, <2>4 DEF last
<1>7. /\ position(q) <= position(r)
      /\ position(q) = position(r) => share(q) <= share(r)
  <2> HIDE DEF n
  <2>1. QED
    BY <1>1, PositionFacts
<1> HIDE DEF n, position, share
<1>8. ASSUME NEW p \in {q, r}
      PROVE  LET next == Min({position(p) + 2, n - 1 + 1}) IN
             /\ position(p) + 1 \in 1 .. n /\ next \in 1 .. n
             /\ position(p) + 1 <= next /\ next <= position(p) + 2
  <2>1. position(p) + 2 \in Int /\ n - 1 + 1 \in Int
    BY <1>1, <1>6
  <2> DEFINE a == position(p) + 2
             b == n - 1 + 1
  <2>2. Min({a, b}) \in {a, b} /\ Min({a, b}) <= a /\ Min({a, b}) <= b
    <3> HIDE DEF a, b
    <3>1. QED
      BY <2>1, TwoFacts DEF a, b
  <2>3. position(p) \in 0 .. n - 1 /\ n \in Nat \ {0} /\ b = n
    BY <1>1, <1>6
  <2> DEFINE next == Min({a, b})
  <2>4. next \in {a, b} /\ next <= a /\ next <= b
    BY <2>2
  <2> HIDE DEF next, b
  <2>5. position(p) + 1 \in 1 .. n /\ next \in 1 .. n /\ position(p) + 1 <= next /\ next <= a
    BY <2>3, <2>4
  <2>6. QED
    BY <2>5 DEF next, b
<1>9. \A p \in {q, r} : low(p) \in Nat /\ high(p) \in Nat /\ low(p) <= high(p)
  BY <1>3, <1>4, <1>8
<1>10. position(q) < position(r) => high(q) <= low(r)
  <2> DEFINE next == Min({position(q) + 2, n - 1 + 1})
  <2>1. position(r) + 1 \in 1 .. n /\ next \in 1 .. n /\ next <= position(q) + 2
    BY <1>8
  <2> HIDE DEF next
  <2>2. position(q) < position(r) => next <= position(r) + 1
    BY <1>6, <2>1
  <2>3. position(q) < position(r) => Nth(values, next) <= Nth(values, position(r) + 1)
    BY <1>3, <2>1, <2>2
  <2>4. QED
    BY <2>3 DEF next
<1>11. position(q) = position(r) => low(q) = low(r) /\ high(q) = high(r)
  OBVIOUS
<1>12. \A k \in 1 .. n : \A u \in Nat :
          (\A i \in Given(values) : values[i] <= u) => Nth(values, k) <= u
  BY <1>2
<1>13. \A u \in Nat : (\A k \in Given(values) : values[k] <= u) => high(q) <= u
  BY <1>8, <1>12
<1> HIDE DEF low, high
<1>14. \A p \in {q, r} : /\ Quantile(values, p) \in Nat
                         /\ low(p) <= Quantile(values, p) /\ Quantile(values, p) <= high(p)
  <2> TAKE p \in {q, r}
  <2> DEFINE a == low(p)
             b == high(p)
             s == share(p)
  <2>1. a \in Nat /\ b \in Nat /\ a <= b /\ s \in 0 .. 100
    BY <1>6, <1>9
  <2>2. Quantile(values, p) = Between(a, b, s)
    BY <1>5
  <2> HIDE DEF a, b, s
  <2>3. Between(a, b, s) \in Nat /\ a <= Between(a, b, s) /\ Between(a, b, s) <= b
    BY <2>1, BetweenFacts
  <2>4. QED
    BY <2>2, <2>3 DEF a, b
<1>15. Quantile(values, q) <= Quantile(values, r)
  <2>1. CASE position(q) < position(r)
    BY <1>9, <1>10, <1>14, <2>1
  <2>2. CASE position(q) = position(r)
    <3>1. share(q) \in 0 .. 100 /\ share(r) \in share(q) .. 100
      BY <1>6, <1>7, <2>2
    <3>2. Between(low(q), high(q), share(q)) <= Between(low(q), high(q), share(r))
      BY <1>9, <3>1, BetweenFacts
    <3>3. QED
      BY <1>5, <1>11, <2>2, <3>2
  <2>3. QED
    BY <1>6, <1>7, <2>1, <2>2
<1>16. ASSUME NEW u \in Nat, \A k \in Given(values) : values[k] <= u
       PROVE  Quantile(values, q) <= u
  BY <1>9, <1>13, <1>14, <1>16
<1>17. QED
  BY <1>14, <1>15, <1>16
-------------------------------------------------------------------------------
(* The results of the models *)

\* What the replications say of a metric.
LEMMA ColumnFacts ==
    ASSUME NEW replications, IsFiniteSet(DOMAIN replications), NEW metric,
           \A k \in DOMAIN replications : replications[k][metric] \in Figures
    PROVE  LET values == Column(replications, metric) IN
           /\ Given(values) # {} => Measured(values)
           /\ \A k \in Given(values) : k \in DOMAIN replications /\ values[k] # None
                                       /\ values[k] = replications[k][metric]
<1> DEFINE values == Column(replications, metric)
<1>1. /\ DOMAIN values = DOMAIN replications
      /\ \A k \in DOMAIN replications : values[k] = replications[k][metric]
  BY DEF Column
<1>2. Given(values) \in SUBSET DOMAIN replications
  BY <1>1 DEF Given
<1>3. IsFiniteSet(Given(values))
  BY <1>2, FS_Subset
<1>4. \A k \in Given(values) : values[k] \in Nat
  BY <1>1, <1>2 DEF Given, Figures
<1>5. QED
  BY <1>1, <1>2, <1>3, <1>4 DEF Measured, Given

\* A median is a figure like the others, and no greater.
LEMMA MedianFacts ==
    ASSUME NEW replications, IsFiniteSet(DOMAIN replications), NEW metric,
           \A k \in DOMAIN replications : replications[k][metric] \in Figures
    PROVE  /\ Median(replications, metric) \in Figures
           /\ \A u \in Nat :
                 (\A k \in DOMAIN replications : replications[k][metric] \in (0 .. u) \cup {None})
                 => Median(replications, metric) \in (0 .. u) \cup {None}
<1> DEFINE values == Column(replications, metric)
           middle == Quantile(values, 50)
<1>1. Median(replications, metric) = None
      \/ (Given(values) # {} /\ Median(replications, metric) = middle)
  BY DEF Median, Aggregate
<1>2. /\ Given(values) # {} => Measured(values)
      /\ \A k \in Given(values) : k \in DOMAIN replications /\ values[k] # None
                                  /\ values[k] = replications[k][metric]
  BY ColumnFacts
<1> HIDE DEF values
<1>3. ASSUME Given(values) # {}
      PROVE  middle \in Nat /\ \A u \in Nat : (\A k \in Given(values) : values[k] <= u)
                                                  => middle <= u
  <2>1. 50 \in 0 .. 100 /\ 50 \in 50 .. 100
    OBVIOUS
  <2>2. QED
    BY <1>2, <1>3, <2>1, QuantileFacts
<1>4. ASSUME NEW u \in Nat, Given(values) # {},
             \A k \in DOMAIN replications : replications[k][metric] \in (0 .. u) \cup {None}
      PROVE  middle \in 0 .. u
  <2>1. \A k \in Given(values) : values[k] <= u
    BY <1>2, <1>4
  <2> HIDE DEF middle
  <2>2. QED
    BY <1>3, <1>4, <2>1
<1> HIDE DEF middle
<1>5. QED
  BY <1>1, <1>3, <1>4 DEF Figures

\* The order of an interval of the clock.
InOrderOf(interval) == interval.low <= interval.median /\ interval.median <= interval.high

\* An interval the clock shows is in order.
LEMMA IntervalFacts ==
    ASSUME NEW replications, IsFiniteSet(DOMAIN replications), NEW metric,
           \A k \in DOMAIN replications : replications[k][metric] \in Figures,
           NEW det, det # None => det[metric] \in Figures,
           Interval(replications, det, metric) # None
    PROVE  InOrderOf(Interval(replications, det, metric))
<1> DEFINE values == Column(replications, metric)
           aggregate == Aggregate(values)
           point == [low |-> det[metric], median |-> det[metric], high |-> det[metric]]
<1>1. CASE aggregate # None
  <2>1. Interval(replications, det, metric) = aggregate
    BY <1>1 DEF Interval
  <2>2. Given(values) # {}
        /\ aggregate = [low |-> Quantile(values, 10), median |-> Quantile(values, 50),
                        high |-> Quantile(values, 90)]
    BY <1>1 DEF Aggregate
  <2>3. Measured(values)
    BY <2>2, ColumnFacts
  <2> HIDE DEF values
  <2>4. 10 \in 0 .. 100 /\ 50 \in 10 .. 100 /\ 50 \in 0 .. 100 /\ 90 \in 50 .. 100
    OBVIOUS
  <2>5. Quantile(values, 10) <= Quantile(values, 50) /\ Quantile(values, 50) <= Quantile(values, 90)
    BY <2>3, <2>4, QuantileFacts
  <2>6. QED
    BY <2>1, <2>2, <2>5 DEF InOrderOf
<1>2. CASE aggregate = None
  <2>1. det # None /\ det[metric] # None /\ Interval(replications, det, metric) = point
    BY <1>2 DEF Interval
  <2>2. det[metric] \in Nat
    BY <2>1 DEF Figures
  <2>3. QED
    BY <2>1, <2>2 DEF InOrderOf
<1>3. QED
  BY <1>1, <1>2

\* What a run of the propagation engine gives the comparison.
LEMMA SimulatedFacts ==
    ASSUME reached \in SUBSET Nodes, NEW outcome \in Outcomes
    PROVE  /\ Simulated(outcome) \in ResultRecords
           /\ Simulated(outcome).degradation \in Fractions
           /\ \A metric \in Metrics : Simulated(outcome)[metric] \in Figures
<1> DEFINE affected == reached \ outcome.spared
           hit      == Capability \in affected /\ outcome.degradation > 0
           harm     == IF hit THEN outcome.degradation ELSE 0
           breach   == IF hit /\ outcome.degradation > Tolerated THEN outcome.floor ELSE None
           recovered == IF hit THEN outcome.recovery ELSE None
           damaged  == IF hit THEN affected ELSE affected \ {Capability}
<1>1. outcome.degradation \in Fractions /\ outcome.floor \in Nat /\ outcome.recovery \in Nat
  BY DEF Outcomes
<1>2. harm \in Fractions /\ breach \in Figures /\ recovered \in Figures /\ damaged \in SUBSET Nodes
  BY <1>1, UnitFacts DEF Figures
<1>3. Simulated(outcome) = [degradation |-> harm, floor |-> breach, recovery |-> recovered,
                            affected |-> damaged]
  BY DEF Simulated
<1> HIDE DEF harm, breach, recovered, damaged
<1>4. harm \in Figures
  BY <1>2, GraphAssumption DEF Figures, Fractions
<1>5. \A metric \in Metrics : Simulated(outcome)[metric] \in Figures
  BY <1>2, <1>3, <1>4 DEF Metrics
<1>6. QED
  BY <1>2, <1>3, <1>5 DEF ResultRecords

\* Adding up naturals in a loop gives a natural.
LEMMA LoopIsNat ==
    ASSUME NEW n \in Nat, NEW f, \A k \in 1 .. n : f[k] \in Nat, NEW g,
           \A s \in SUBSET (1 .. n) : g[s] = IF s = {} THEN 0 ELSE g[s \ {Max(s)}] + f[Max(s)]
    PROVE  g[1 .. n] \in Nat
<1> DEFINE S    == 1 .. n
           pick == [s \in SUBSET S |-> Max(s)]
           P    == {s \in SUBSET S : g[s] \in Nat}
<1>1. \A s \in SUBSET S : s # {} => pick[s] \in s /\ pick[s] = Max(s)
  BY MaxIsGreatest
<1>2. {} \in P
  <2>1. g[{}] = 0
    OBVIOUS
  <2>2. QED
    BY <2>1
<1>3. ASSUME NEW s \in SUBSET S, s # {}, s \ {pick[s]} \in P PROVE s \in P
  <2>1. pick[s] \in S /\ pick[s] = Max(s)
    BY <1>1, <1>3
  <2> HIDE DEF pick
  <2>2. f[Max(s)] \in Nat /\ g[s \ {Max(s)}] \in Nat
    BY <1>3, <2>1
  <2>3. g[s] = g[s \ {Max(s)}] + f[Max(s)]
    BY <1>3
  <2>4. QED
    BY <2>2, <2>3
<1>4. IsFiniteSet(S)
  <2>1. 1 \in Int /\ n \in Int
    OBVIOUS
  <2>2. QED
    BY <2>1, FS_Interval
<1>5. \A s \in SUBSET S : s \in P
  <2>1. \A s \in SUBSET S : s # {} => pick[s] \in s
    BY <1>1
  <2> HIDE DEF S, P, pick
  <2>2. QED
    BY <1>2, <1>3, <1>4, <2>1, SubsetInduction
<1>6. QED
  BY <1>5

\* The minutes along a chain are a number.
LEMMA LagIsNat ==
    ASSUME NEW chain \in Seq(EdgeOf(Nat, Nat))
    PROVE  ChainLag(chain) \in Nat
<1> DEFINE n    == Len(chain)
           step == [x \in Nat \X (1 .. n) |-> x[1] + chain[x[2]].lag]
           Fits(g) == g = [s \in SUBSET DOMAIN chain |->
                             IF s = {} THEN 0 ELSE g[s \ {Max(s)}] + chain[Max(s)].lag]
           fold == CHOOSE g : Fits(g)
           lag  == [k \in 1 .. n |-> chain[k].lag]
<1>1. n \in Nat /\ DOMAIN chain = 1 .. n /\ \A k \in 1 .. n : chain[k].lag \in Nat
  <2>1. n \in Nat /\ DOMAIN chain = 1 .. n /\ \A k \in 1 .. n : chain[k] \in EdgeOf(Nat, Nat)
    BY LenProperties, ElementOfSeq
  <2>2. \A e \in EdgeOf(Nat, Nat) : e.lag \in Nat
    BY DEF EdgeOf
  <2>3. QED
    BY <2>1, <2>2
<1>2. step \in [Nat \X (1 .. n) -> Nat]
  <2> HIDE DEF n
  <2>1. QED
    BY <1>1
<1>3. \A s \in SUBSET (1 .. n) : s # {} => Max(s) \in s
  BY <1>1, MaxIsGreatest
<1>4. \E g : Fits(g)
  <2>1. PICK g \in [SUBSET (1 .. n) -> Nat] : Turns(g, 0, step, n)
    <3> HIDE DEF step, n
    <3>1. QED
      BY <1>1, <1>2, LoopExists
  <2> HIDE DEF n
  <2>2. ASSUME NEW s \in SUBSET (1 .. n)
        PROVE  g[s] = IF s = {} THEN 0 ELSE g[s \ {Max(s)}] + chain[Max(s)].lag
    <3>1. CASE s = {}
      BY <2>1, <3>1 DEF Turns
    <3>2. CASE s # {}
      <4>1. Max(s) \in 1 .. n /\ g[s \ {Max(s)}] \in Nat
        BY <1>3, <2>1, <3>2
      <4>2. g[s] = step[<<g[s \ {Max(s)}], Max(s)>>]
        BY <2>1, <3>2 DEF Turns
      <4>3. QED
        BY <3>2, <4>1, <4>2
    <3>3. QED
      BY <3>1, <3>2
  <2>3. g = [s \in SUBSET (1 .. n) |-> g[s]]
    BY <2>1
  <2>4. Fits(g)
    BY <1>1, <2>2, <2>3
  <2>5. QED
    BY <2>4
<1>5. Fits(fold)
  BY <1>4
<1> HIDE DEF n
<1>6. ChainLag(chain) = fold[DOMAIN chain]
  BY DEF ChainLag, FoldLeft, MapThenFoldSet
<1> HIDE DEF fold
<1>7. \A s \in SUBSET (1 .. n) :
         fold[s] = IF s = {} THEN 0 ELSE fold[s \ {Max(s)}] + chain[Max(s)].lag
  BY <1>1, <1>5
<1>8. \A k \in 1 .. n : lag[k] = chain[k].lag /\ lag[k] \in Nat
  BY <1>1
<1> HIDE DEF lag
<1>9. \A s \in SUBSET (1 .. n) :
         fold[s] = IF s = {} THEN 0 ELSE fold[s \ {Max(s)}] + lag[Max(s)]
  BY <1>3, <1>7, <1>8
<1>10. fold[1 .. n] \in Nat
  BY <1>1, <1>8, <1>9, LoopIsNat
<1>11. QED
  BY <1>1, <1>6, <1>10

\* What the assessment starts from.
Settled ==
    /\ CaseKept /\ InputOK
    /\ reached \in SUBSET Nodes
    /\ memo \in Memos /\ Capability \in DOMAIN memo
    /\ Acyclic(Arcs(Visible))

\* The results of the four models are of their types.
LEMMA DeterministicFacts ==
    ASSUME Settled
    PROVE  /\ "deterministic" \in case.models => Deterministic \in ResultRecords
           /\ Deterministic # None =>
                 /\ Deterministic.degradation \in Fractions
                 /\ Deterministic.affected \in SUBSET Nodes
                 /\ \A metric \in Metrics : Deterministic[metric] \in Figures
<1>1. reached \in SUBSET Nodes /\ case.det \in Outcomes
  BY RunAssumption DEF Settled, CaseKept
<1>2. /\ Simulated(case.det) \in ResultRecords /\ Simulated(case.det).degradation \in Fractions
      /\ \A metric \in Metrics : Simulated(case.det)[metric] \in Figures
  BY <1>1, SimulatedFacts
<1>3. Simulated(case.det).affected \in SUBSET Nodes
  BY <1>2 DEF ResultRecords
<1>4. Deterministic = IF "deterministic" \in case.models THEN Simulated(case.det) ELSE None
  BY DEF Deterministic
<1>5. QED
  BY <1>2, <1>3, <1>4

LEMMA ReplicationFacts ==
    ASSUME Settled
    PROVE  /\ IsFiniteSet(DOMAIN Replications)
           /\ \A k \in DOMAIN Replications :
                 /\ Replications[k].degradation \in Fractions
                 /\ \A metric \in Metrics : Replications[k][metric] \in Figures
<1> DEFINE list == case.replications
<1>1. reached \in SUBSET Nodes /\ list \in Seq(Outcomes)
  BY RunAssumption DEF Settled, CaseKept
<1>2. /\ Len(list) \in Nat /\ DOMAIN list = 1 .. Len(list)
      /\ \A k \in DOMAIN list : list[k] \in Outcomes
  BY <1>1, LenProperties, ElementOfSeq
<1>3. IsFiniteSet(DOMAIN list) /\ IsFiniteSet(DOMAIN << >>)
  <2> DEFINE n == Len(list)
  <2>1. 1 \in Int /\ n \in Int /\ 0 \in Int /\ DOMAIN << >> = 1 .. 0
    BY <1>2
  <2> HIDE DEF n
  <2>2. IsFiniteSet(1 .. n) /\ IsFiniteSet(1 .. 0)
    BY <2>1, FS_Interval
  <2>3. QED
    BY <1>2, <2>1, <2>2 DEF n
<1>4. \A k \in DOMAIN list : /\ Simulated(list[k]).degradation \in Fractions
                             /\ \A metric \in Metrics : Simulated(list[k])[metric] \in Figures
  BY <1>1, <1>2, SimulatedFacts
<1> HIDE DEF list
<1>5. Replications = IF "monte carlo" \in case.models
                     THEN [k \in DOMAIN list |-> Simulated(list[k])] ELSE << >>
  BY DEF Replications, list
<1>6. CASE "monte carlo" \in case.models
  BY <1>3, <1>4, <1>5, <1>6
<1>7. CASE "monte carlo" \notin case.models
  <2>1. Replications = << >>
    BY <1>5, <1>7
  <2>2. \A k : k \notin DOMAIN << >>
    OBVIOUS
  <2>3. QED
    BY <1>3, <2>1, <2>2
<1>8. QED
  BY <1>6, <1>7

LEMMA CapacityFlowType ==
    ASSUME Settled
    PROVE  CapacityFlow \in ResultRecords
<1> DEFINE lost    == Unit - memo[Capability]
           breach  == IF lost > Tolerated THEN ChainLag(Bottleneck(Capability)) ELSE None
           recover == IF Targets = {} THEN None ELSE IncidentEnd + Recovery[Root(Capability)]
           damaged == {n \in DOMAIN memo : 20 * memo[n] < 19 * Unit}
<1>1. InputOK /\ memo \in Memos /\ Acyclic(Arcs(Visible)) /\ Capability \in DOMAIN memo
      /\ Capability \in Nodes
  BY RunAssumption, StructuralAssumption DEF Settled
<1>2. DOMAIN memo \in SUBSET Nodes /\ memo[Capability] \in Fractions
  BY <1>1, KnownType
<1>3. lost \in Fractions /\ damaged \in SUBSET Nodes
  BY <1>2, UnitFacts
<1>4. Bottleneck(Capability) \in Seq(Visible)
  BY <1>1, BottleneckChains
<1>5. Visible \subseteq EdgeOf(Nat, Nat)
  BY <1>1 DEF InputOK, Visible
<1>6. ChainLag(Bottleneck(Capability)) \in Nat
  <2>1. Bottleneck(Capability) \in Seq(EdgeOf(Nat, Nat))
    BY <1>4, <1>5, SeqMonotonic
  <2>2. QED
    BY <2>1, LagIsNat
<1>7. Root(Capability) \in Nodes
  <2>1. CASE Bottleneck(Capability) = << >>
    BY <1>1, <2>1 DEF Root
  <2>2. CASE Bottleneck(Capability) # << >>
    <3> DEFINE chain == Bottleneck(Capability)
    <3>1. Len(chain) \in 1 .. Len(chain) /\ Last(chain) = chain[Len(chain)]
      BY <1>4, <2>2, LenProperties, EmptySeq DEF Last
    <3>2. Last(chain) \in Visible
      BY <1>4, <3>1, ElementOfSeq
    <3>3. Last(chain).to \in Nodes
      BY <1>1, <3>2, EdgeFacts
    <3>4. QED
      BY <2>2, <3>3 DEF Root
  <2>3. QED
    BY <2>1, <2>2
<1>8. breach \in Figures
  BY <1>6 DEF Figures
<1>9. recover \in Figures
  <2>1. IncidentEnd \in Nat /\ Recovery[Root(Capability)] \in Nat
    BY <1>7, RunAssumption
  <2>2. QED
    BY <2>1 DEF Figures
<1>10. CapacityFlow = [degradation |-> lost, floor |-> breach, recovery |-> recover,
                       affected |-> damaged]
  BY DEF CapacityFlow
<1> HIDE DEF lost, breach, recover, damaged
<1>11. QED
  BY <1>3, <1>8, <1>9, <1>10 DEF ResultRecords

\* Every model gives figures or none, and nodes.
LEMMA ResultType ==
    ASSUME Settled, NEW model \in case.models
    PROVE  Result(model) \in ResultRecords
<1>1. model \in {"deterministic", "monte carlo", "capacity flow", "reachability"}
  BY RunAssumption DEF Settled, CaseKept
<1>2. CASE model = "deterministic"
  BY <1>2, DeterministicFacts DEF Result
<1>3. CASE model = "monte carlo"
  <2> DEFINE median(metric) == Median(Replications, metric)
             nodes == {n \in Nodes :
                2 * Cardinality({k \in DOMAIN Replications : n \in Replications[k].affected})
                  >= Len(Replications)}
  <2>1. Result(model) = [degradation |-> median("degradation"), floor |-> median("floor"),
                         recovery |-> median("recovery"), affected |-> nodes]
    BY <1>3 DEF Result, MonteCarlo
  <2>2. \A metric \in Metrics : median(metric) \in Figures
    BY ReplicationFacts, MedianFacts
  <2>3. median("degradation") \in Fractions \cup {None}
    <3>1. Unit \in Nat /\ Fractions = 0 .. Unit /\ "degradation" \in Metrics
      BY GraphAssumption DEF Fractions, Metrics
    <3>2. \A k \in DOMAIN Replications :
             /\ Replications[k]["degradation"] \in Figures
             /\ Replications[k]["degradation"] \in (0 .. Unit) \cup {None}
      BY <3>1, ReplicationFacts
    <3>3. median("degradation") \in (0 .. Unit) \cup {None}
      BY <3>1, <3>2, ReplicationFacts, MedianFacts
    <3>4. QED
      BY <3>1, <3>3
  <2> HIDE DEF median, nodes
  <2>4. median("floor") \in Figures /\ median("recovery") \in Figures
    BY <2>2 DEF Metrics
  <2>5. nodes \in SUBSET Nodes
    BY DEF nodes
  <2>6. QED
    BY <2>1, <2>3, <2>4, <2>5 DEF ResultRecords
<1>4. CASE model = "capacity flow"
  BY <1>4, CapacityFlowType DEF Result
<1>5. CASE model = "reachability"
  <2>1. Result(model) = Reachability
    BY <1>5 DEF Result
  <2>2. QED
    BY <2>1 DEF Settled, Reachability, ResultRecords, Figures
<1>6. QED
  BY <1>1, <1>2, <1>3, <1>4, <1>5
-------------------------------------------------------------------------------
(* What is not known, and what is asked *)

\* A finite set has finitely many images.
LEMMA ImageIsFinite ==
    ASSUME NEW S, IsFiniteSet(S), NEW f
    PROVE  IsFiniteSet({f[x] : x \in S})
<1> DEFINE g == [x \in S |-> f[x]]
           T == {f[x] : x \in S}
<1>1. g \in Surjection(S, T)
  <2>1. g \in [S -> T] /\ \A t \in T : \E x \in S : g[x] = t
    OBVIOUS
  <2> HIDE DEF g, T
  <2>2. QED
    BY <2>1 DEF Surjection
<1>2. QED
  BY <1>1, FS_Surjection

\* Of what kind an unknown is.
Kinds == {"undisclosed", "inferred edge", "low confidence", "low observability"}

\* What is not known is finite, and of four kinds; something hidden is one of them.
LEMMA UnknownsFacts ==
    ASSUME NEW edges, IsFiniteSet(edges), NEW hidden \in SUBSET edges,
           NEW affected \in SUBSET Nodes
    PROVE  LET unknowns == Unknowns(edges, hidden, affected) IN
           /\ IsFiniteSet(unknowns) /\ \A u \in unknowns : u.kind \in Kinds
           /\ hidden # {} => Unknown("undisclosed", None) \in unknowns
<1> DEFINE inferred == {f \in edges \ hidden : Standing[f.id] = "inferred"}
           weak == {f \in edges \ hidden : Standing[f.id] # "inferred" /\ f.id \in Doubtful}
           dim == {m \in affected \cap DOMAIN Observability : Observability[m] < 60}
           F1 == [h \in hidden |-> Unknown("undisclosed", None)]
           F2 == [e \in inferred |-> Unknown("inferred edge", e.id)]
           F3 == [e \in weak |-> Unknown("low confidence", e.id)]
           F4 == [n \in dim |-> Unknown("low observability", n)]
           U1 == {Unknown("undisclosed", None) : h \in hidden}
           U2 == {Unknown("inferred edge", e.id) : e \in inferred}
           U3 == {Unknown("low confidence", e.id) : e \in weak}
           U4 == {Unknown("low observability", n) : n \in dim}
<1>0. \A kind, subject : Unknown(kind, subject).kind = kind
  BY DEF Unknown
<1>1. Unknowns(edges, hidden, affected) = U1 \cup U2 \cup U3 \cup U4
  BY DEF Unknowns
<1>2. IsFiniteSet(hidden) /\ IsFiniteSet(inferred) /\ IsFiniteSet(weak) /\ IsFiniteSet(dim)
  <2>1. inferred \in SUBSET edges /\ weak \in SUBSET edges /\ dim \in SUBSET Nodes
    OBVIOUS
  <2> HIDE DEF inferred, weak, dim
  <2>2. QED
    BY <2>1, GraphAssumption, FS_Subset
<1>3. /\ U1 = {F1[h] : h \in hidden} /\ U2 = {F2[e] : e \in inferred}
      /\ U3 = {F3[e] : e \in weak} /\ U4 = {F4[n] : n \in dim}
  <2> HIDE DEF inferred, weak, dim
  <2>1. QED
    OBVIOUS
<1>4. \A u \in U1 \cup U2 \cup U3 \cup U4 : u.kind \in Kinds
  <2> HIDE DEF inferred, weak, dim, F1, F2, F3, F4
  <2>1. \A u \in U1 : u.kind = "undisclosed"
    BY <1>0
  <2>2. \A u \in U2 : u.kind = "inferred edge"
    BY <1>0
  <2>3. \A u \in U3 : u.kind = "low confidence"
    BY <1>0
  <2>4. \A u \in U4 : u.kind = "low observability"
    BY <1>0
  <2> HIDE DEF U1, U2, U3, U4
  <2>5. QED
    BY <2>1, <2>2, <2>3, <2>4 DEF Kinds
<1>5. hidden # {} => Unknown("undisclosed", None) \in U1
  OBVIOUS
<1> HIDE DEF inferred, weak, dim, F1, F2, F3, F4, U1, U2, U3, U4
<1>6. IsFiniteSet(U1) /\ IsFiniteSet(U2) /\ IsFiniteSet(U3) /\ IsFiniteSet(U4)
  BY <1>2, <1>3, ImageIsFinite
<1>7. IsFiniteSet(U1 \cup U2 \cup U3 \cup U4)
  BY <1>6, FS_Union
<1>8. QED
  BY <1>1, <1>4, <1>5, <1>7

\* Half of a worth is no less than half of it, rounded down.
LEMMA HalfWorth ==
    ASSUME NEW w \in Nat, NEW s \in {w, w \div 2}
    PROVE  s \in Int /\ 2 * s >= w - 1
<1>1. w \div 2 \in Int /\ 2 * (w \div 2) >= w - 1 /\ w \in Int /\ 2 * w >= w - 1
  OBVIOUS
<1>2. QED
  BY <1>1

LEMMA WorthFacts ==
    /\ DOMAIN Worth = {"inferred edge", "undisclosed", "low observability"}
    /\ \A k \in DOMAIN Worth : Worth[k] \in Nat
<1>1. DOMAIN Worth = {"inferred edge", "undisclosed", "low observability"}
  BY DEF Worth
<1>2. Worth["inferred edge"] \in Nat
  BY DEF Worth
<1>3. Worth["undisclosed"] \in Nat
  BY DEF Worth
<1>4. Worth["low observability"] \in Nat
  BY DEF Worth
<1>5. QED
  BY <1>1, <1>2, <1>3, <1>4

\* A request is finite in number, has a whole score, and there is one for every unknown
\* but an edge of low confidence.
LEMMA RequestsFacts ==
    ASSUME NEW edges, NEW unknowns, IsFiniteSet(unknowns), \A u \in unknowns : u.kind \in Kinds,
           NEW areas, IsFiniteSet(DOMAIN areas), \A metric \in DOMAIN areas : areas[metric] \in Int,
           NEW onPathway
    PROVE  LET requests == Requests(edges, unknowns, areas, onPathway) IN
           /\ IsFiniteSet(requests) /\ \A r \in requests : r.score \in Int
           /\ \A u \in unknowns : u.kind # "low confidence" =>
                 /\ Worth[u.kind] \in Int
                 /\ \E r \in requests : r.subject = u /\ 2 * r.score >= Worth[u.kind] - 1
<1> DEFINE score(v) == IF About(edges, v) \in onPathway THEN Worth[v.kind] ELSE Worth[v.kind] \div 2
           about == {v \in unknowns : v.kind \in DOMAIN Worth}
           open  == {m \in DOMAIN areas : areas[m] >= 15}
           mine(v) == [subject |-> v, score |-> score(v)]
           theirs(m) == [subject |-> Unknown("disagreement", m), score |-> areas[m]]
           F1 == [v \in about |-> mine(v)]
           F2 == [m \in open |-> theirs(m)]
           R1 == {mine(v) : v \in about}
           R2 == {theirs(m) : m \in open}
           requests == Requests(edges, unknowns, areas, onPathway)
<1>1. requests = R1 \cup R2
  BY DEF Requests
<1>2. IsFiniteSet(about) /\ IsFiniteSet(open) /\ open \subseteq DOMAIN areas
  <2>1. about \in SUBSET unknowns /\ open \in SUBSET DOMAIN areas
    OBVIOUS
  <2> HIDE DEF about, open
  <2>2. QED
    BY <2>1, FS_Subset
<1>3. /\ DOMAIN Worth = {"inferred edge", "undisclosed", "low observability"}
      /\ \A k \in DOMAIN Worth : Worth[k] \in Nat
  BY WorthFacts
<1>4. \A u \in unknowns : u.kind # "low confidence" => u \in about
  BY <1>3 DEF Kinds
<1>5. \A v \in about : Worth[v.kind] \in Nat /\ score(v) \in {Worth[v.kind], Worth[v.kind] \div 2}
  BY <1>3
<1>6. /\ \A v : mine(v).subject = v /\ mine(v).score = score(v)
      /\ \A m : theirs(m).score = areas[m]
  OBVIOUS
<1> HIDE DEF score, mine, theirs, about, open, requests
<1>7. \A v \in about :
         score(v) \in Int /\ 2 * score(v) >= Worth[v.kind] - 1 /\ Worth[v.kind] \in Int
  <2> TAKE v \in about
  <2> DEFINE w == Worth[v.kind]
             s == score(v)
  <2>1. w \in Nat /\ s \in {w, w \div 2}
    BY <1>5
  <2> HIDE DEF w, s
  <2>2. s \in Int /\ 2 * s >= w - 1
    BY <2>1, HalfWorth
  <2>3. QED
    BY <2>1, <2>2 DEF w, s
<1>8. IsFiniteSet(requests)
  <2>1. R1 = {F1[v] : v \in about} /\ R2 = {F2[m] : m \in open}
    OBVIOUS
  <2> HIDE DEF F1, F2, R1, R2
  <2>2. IsFiniteSet(R1) /\ IsFiniteSet(R2)
    BY <1>2, <2>1, ImageIsFinite
  <2>3. QED
    BY <1>1, <2>2, FS_Union
<1>9. \A r \in requests : r.score \in Int
  <2>1. \A r \in R1 : r.score \in Int
    BY <1>6, <1>7
  <2>2. \A r \in R2 : r.score \in Int
    BY <1>2, <1>6
  <2> HIDE DEF R1, R2
  <2>3. QED
    BY <1>1, <2>1, <2>2
<1>10. \A u \in about : mine(u) \in requests
  BY <1>1
<1>11. \A u \in unknowns : u.kind # "low confidence" =>
         /\ Worth[u.kind] \in Int
         /\ \E r \in requests : r.subject = u /\ 2 * r.score >= Worth[u.kind] - 1
  BY <1>4, <1>6, <1>7, <1>10
<1>12. QED
  BY <1>8, <1>9, <1>11 DEF requests

\* What is shown of the requests is as many as may be, and no other is worth more.
LEMMA LeadingFacts ==
    ASSUME NEW requests, IsFiniteSet(requests), NEW asked \in Leading(requests),
           NEW mine \in requests, mine \notin asked
    PROVE  /\ asked \subseteq requests /\ Cardinality(asked) = MaxRequests
           /\ \A p \in asked : p.score >= mine.score
<1>1. /\ asked \in SUBSET requests
      /\ Cardinality(asked) = Min({MaxRequests, Cardinality(requests)})
      /\ \A p \in asked, q \in requests \ asked : p.score >= q.score
  BY DEF Leading
<1>2. Cardinality(asked) # Cardinality(requests)
  BY <1>1, FS_Subset
<1>3. Cardinality(requests) \in Int /\ MaxRequests \in Int
  BY FS_CardinalityType, AssessmentAssumption
<1>4. Min({MaxRequests, Cardinality(requests)}) \in {MaxRequests, Cardinality(requests)}
  BY <1>3, TwoFacts
<1>5. Cardinality(asked) = MaxRequests
  BY <1>1, <1>2, <1>4
<1>6. QED
  BY <1>1, <1>5

\* A request that beats another is worth what the other is.
LEMMA Outbid ==
    ASSUME NEW w \in Int, NEW s \in Int, NEW r \in Int, 2 * s >= w - 1, r >= s
    PROVE  2 * r >= w - 1
OBVIOUS

\* Of what is not known, only the best requests are shown; the others are worth no more.
LEMMA AskedOrOutbid ==
    ASSUME NEW requests, IsFiniteSet(requests), \A r \in requests : r.score \in Int,
           NEW asked \in Leading(requests), NEW u, NEW w \in Int,
           \E r \in requests : r.subject = u /\ 2 * r.score >= w - 1
    PROVE  \/ \E request \in asked : request.subject = u
           \/ /\ Cardinality(asked) = MaxRequests
              /\ \A request \in asked : 2 * request.score >= w - 1
<1>1. PICK mine \in requests : mine.subject = u /\ 2 * mine.score >= w - 1
  OBVIOUS
<1>2. CASE mine \in asked
  BY <1>1, <1>2
<1>3. CASE mine \notin asked
  <2>1. /\ asked \subseteq requests /\ Cardinality(asked) = MaxRequests
        /\ \A p \in asked : p.score >= mine.score
    BY <1>3, LeadingFacts
  <2>2. \A request \in asked : 2 * request.score >= w - 1
    <3> TAKE request \in asked
    <3>1. request.score \in Int /\ mine.score \in Int /\ request.score >= mine.score
      BY <2>1
    <3>2. QED
      BY <1>1, <3>1, Outbid
  <2>3. QED
    BY <2>1, <2>2
<1>4. QED
  BY <1>2, <1>3
-------------------------------------------------------------------------------
(* Hidden edges *)

\* A count that grows by 30 or more is no less in hundredths, and more in a graph of at
\* most 30 edges, up to the greatest figure.
LEMMA FigureGrows ==
    ASSUME NEW n \in Nat \ {0}, NEW a \in Nat, NEW b \in Nat, a + 30 <= b
    PROVE  /\ a \div n \in Int /\ b \div n \in Int
           /\ 15 + a \div n <= 15 + b \div n
           /\ n <= 30 => 15 + a \div n < 15 + b \div n
<1>1. a \div n \in Int /\ b \div n \in Int /\ a \div n <= b \div n
  BY DivMonotone
<1>2. (a + n) \div n = a \div n + 1
  BY Z3
<1>3. ASSUME n <= 30 PROVE a \div n < b \div n
  <2>1. a + n \in Int /\ b \in Int /\ a + n <= b
    BY <1>3
  <2>2. (a + n) \div n <= b \div n
    BY <2>1, DivMonotone
  <2>3. QED
    BY <1>1, <1>2, <2>2
<1>4. QED
  BY <1>1, <1>3

\* The same of what is no greater than 100.
LEMMA CappedGrows ==
    ASSUME NEW a \in Int, NEW b \in Int, a <= b
    PROVE  /\ Min({100, a}) \in Int /\ Min({100, b}) \in Int /\ Min({100, a}) <= Min({100, b})
           /\ a < b => Min({100, a}) < Min({100, b}) \/ Min({100, a}) = 100
<1>1. 100 \in Int
  OBVIOUS
<1>2. /\ Min({100, a}) \in {100, a} /\ Min({100, a}) <= 100 /\ Min({100, a}) <= a
      /\ Min({100, b}) \in {100, b} /\ Min({100, b}) <= 100 /\ Min({100, b}) <= b
  BY <1>1, TwoFacts
<1>3. QED
  BY <1>2

\* A graph is reported as less known the more of its edges are hidden: every edge
\* disclosed is at most one more that is not observed.
LEMMA EpistemicGrows ==
    ASSUME NEW edges, IsFiniteSet(edges), NEW hidden \in SUBSET edges,
           NEW fewer \in SUBSET hidden, fewer # hidden
    PROVE  /\ Epistemic(edges, fewer) \in Int /\ Epistemic(edges, hidden) \in Int
           /\ Epistemic(edges, fewer) <= Epistemic(edges, hidden)
           /\ \/ Epistemic(edges, fewer) < Epistemic(edges, hidden)
              \/ Epistemic(edges, fewer) = 100 \/ Cardinality(edges) > 30
<1> DEFINE F == {e \in edges \ hidden : Standing[e.id] # "observed"}
           M == {e \in edges \ fewer : Standing[e.id] # "observed"}
           D == hidden \ fewer
<1>1. /\ F \in SUBSET edges /\ M \in SUBSET edges /\ D \in SUBSET edges /\ D # {}
      /\ fewer \in SUBSET edges /\ M \in SUBSET (F \cup D) /\ hidden = fewer \cup D
      /\ fewer \cap D = {}
  OBVIOUS
<1> HIDE DEF F, M, D
<1>2. /\ IsFiniteSet(F) /\ IsFiniteSet(M) /\ IsFiniteSet(D) /\ IsFiniteSet(fewer)
      /\ IsFiniteSet(hidden)
  BY <1>1, FS_Subset
<1>3. /\ Cardinality(F) \in Nat /\ Cardinality(M) \in Nat /\ Cardinality(D) \in Nat
      /\ Cardinality(fewer) \in Nat /\ Cardinality(hidden) \in Nat /\ Cardinality(edges) \in Nat
  BY <1>2, FS_CardinalityType
<1>4. Cardinality(hidden) = Cardinality(fewer) + Cardinality(D)
  <2>1. Cardinality(fewer \cup D) = Cardinality(fewer) + Cardinality(D) - Cardinality(fewer \cap D)
    BY <1>2, FS_Union
  <2>2. Cardinality(fewer \cap D) = 0
    BY <1>1, FS_EmptySet
  <2>3. QED
    BY <1>1, <1>3, <2>1, <2>2
<1>5. Cardinality(M) <= Cardinality(F) + Cardinality(D)
  <2>1. IsFiniteSet(F \cup D) /\ IsFiniteSet(F \cap D)
        /\ Cardinality(F \cup D) = Cardinality(F) + Cardinality(D) - Cardinality(F \cap D)
    <3>1. F \cap D \in SUBSET F
      OBVIOUS
    <3>2. QED
      BY <1>2, <3>1, FS_Union, FS_Subset
  <2>2. Cardinality(F \cup D) \in Nat /\ Cardinality(F \cap D) \in Nat
    BY <2>1, FS_CardinalityType
  <2>3. Cardinality(M) <= Cardinality(F \cup D)
    BY <1>1, <2>1, FS_Subset
  <2>4. QED
    BY <1>3, <2>1, <2>2, <2>3
<1>6. Cardinality(D) # 0 /\ Cardinality(edges) # 0
  <2>1. edges # {}
    BY <1>1
  <2>2. QED
    BY <1>1, <1>2, <2>1, FS_EmptySet
<1> DEFINE f == Cardinality(F)
           m == Cardinality(M)
           d == Cardinality(D)
           p == Cardinality(fewer)
           h == Cardinality(hidden)
           n == Cardinality(edges)
           known == 90 * p + 60 * m
           mine  == 90 * h + 60 * f
<1>7. /\ f \in Nat /\ m \in Nat /\ d \in Nat /\ p \in Nat /\ h \in Nat
      /\ h = p + d /\ m <= f + d /\ d # 0 /\ n \in Nat /\ n # 0
  BY <1>3, <1>4, <1>5, <1>6
<1>8. Max({1, n}) = n
  <2> HIDE DEF f, m, d, p, h, n
  <2>1. 1 \in Int /\ n \in Int /\ 1 <= n
    BY <1>7
  <2>2. Max({1, n}) \in {1, n} /\ n <= Max({1, n})
    BY <2>1, TwoFacts
  <2>3. QED
    BY <2>1, <2>2
<1>9. /\ Epistemic(edges, fewer) = Min({100, 15 + known \div n})
      /\ Epistemic(edges, hidden) = Min({100, 15 + mine \div n})
  BY <1>8 DEF Epistemic, F, M
<1> HIDE DEF f, m, d, p, h, n
<1>10. known \in Nat /\ mine \in Nat /\ known + 30 <= mine
  BY <1>7
<1> HIDE DEF known, mine
<1> DEFINE a == 15 + known \div n
           b == 15 + mine \div n
<1>11. a \in Int /\ b \in Int /\ a <= b /\ (n <= 30 => a < b)
  <2>1. n \in Nat \ {0} /\ known \in Nat /\ mine \in Nat /\ known + 30 <= mine
    BY <1>7, <1>10
  <2>2. /\ known \div n \in Int /\ mine \div n \in Int /\ 15 + known \div n <= 15 + mine \div n
        /\ n <= 30 => 15 + known \div n < 15 + mine \div n
    BY ONLY <2>1, FigureGrows
  <2>3. QED
    BY <2>2
<1>12. n <= 30 \/ n > 30
  BY <1>7
<1> HIDE DEF a, b
<1>13. /\ Min({100, a}) \in Int /\ Min({100, b}) \in Int /\ Min({100, a}) <= Min({100, b})
       /\ a < b => Min({100, a}) < Min({100, b}) \/ Min({100, a}) = 100
  BY <1>11, CappedGrows
<1>14. QED
  BY <1>9, <1>11, <1>12, <1>13 DEF a, b, n

\* The greatest of three numbers.
LEMMA ThreeFacts ==
    ASSUME NEW a \in Int, NEW b \in Int, NEW c \in Int
    PROVE  /\ Max({a, b, c}) \in {a, b, c}
           /\ a <= Max({a, b, c}) /\ b <= Max({a, b, c}) /\ c <= Max({a, b, c})
<1>1. \E m \in {a, b, c} : \A n \in {a, b, c} : m >= n
  OBVIOUS
<1>2. Max({a, b, c}) \in {a, b, c} /\ \A n \in {a, b, c} : Max({a, b, c}) >= n
  BY <1>1 DEF Max
<1>3. QED
  BY <1>2

\* What is less known is no more reliable.
LEMMA ReliabilityFalls ==
    ASSUME NEW known \in Int, NEW epistemic \in Int, known <= epistemic,
           NEW overall \in Int, NEW seen \in Int
    PROVE  Reliability(epistemic, overall, seen) >= Reliability(known, overall, seen)
<1> DEFINE s == 100 - seen
           a == Max({known, overall, s})
           b == Max({epistemic, overall, s})
<1>1. s \in Int
  OBVIOUS
<1> HIDE DEF s
<1>2. /\ a \in {known, overall, s}
      /\ b \in {epistemic, overall, s} /\ epistemic <= b /\ overall <= b /\ s <= b
  BY <1>1, ThreeFacts
<1>3. a \in Int /\ b \in Int /\ a <= b
  <2> HIDE DEF a, b
  <2>1. QED
    BY <1>1, <1>2
<1>4. /\ Reliability(epistemic, overall, seen) = IF b < 20 THEN 0 ELSE IF b < 45 THEN 1 ELSE 2
      /\ Reliability(known, overall, seen) = IF a < 20 THEN 0 ELSE IF a < 45 THEN 1 ELSE 2
  BY DEF Reliability, s
<1> HIDE DEF a, b
<1>5. QED
  BY <1>3, <1>4

\* The mean observability of some nodes is a number.
LEMMA SeenIsInt ==
    ASSUME NEW affected \in SUBSET Nodes
    PROVE  Seen(affected) \in Int
<1> DEFINE S == affected \cap DOMAIN Observability
           f == [n \in S |-> Observability[n]]
           Fits(g) == g = [s \in SUBSET S |->
                             IF s = {} THEN 0
                             ELSE Observability[CHOOSE x \in s : TRUE]
                                    + g[s \ {CHOOSE x \in s : TRUE}]]
           sum == CHOOSE g : Fits(g)
<1>1. IsFiniteSet(S) /\ \A n \in S : f[n] \in Nat /\ f[n] = Observability[n]
  <2>1. S \in SUBSET Nodes /\ \A n \in S : Observability[n] \in Nat
    BY AssessmentAssumption
  <2>2. IsFiniteSet(S)
    BY <2>1, GraphAssumption, FS_Subset
  <2>3. QED
    BY <2>1, <2>2
<1>2. Seen(affected) = IF S = {} THEN 100 ELSE sum[S] \div Cardinality(S)
  BY DEF Seen, MapThenSumSet, MapThenFoldSet
<1> HIDE DEF S
<1>3. \A s \in SUBSET S : s # {} => AnyOf(s) \in S
  BY DEF AnyOf
<1>4. ASSUME NEW g PROVE Fits(g) <=> Adds(f, g, SUBSET S)
  <2> DEFINE mine == [s \in SUBSET S |-> IF s = {} THEN 0
                        ELSE Observability[AnyOf(s)] + g[s \ {AnyOf(s)}]]
             other == [s \in SUBSET S |-> IF s = {} THEN 0
                        ELSE f[AnyOf(s)] + g[s \ {AnyOf(s)}]]
  <2>1. \A s \in SUBSET S : mine[s] = other[s]
    BY <1>1, <1>3
  <2>2. mine = [s \in SUBSET S |-> mine[s]] /\ other = [s \in SUBSET S |-> other[s]]
    OBVIOUS
  <2> HIDE DEF mine, other
  <2>3. mine = other
    BY <2>1, <2>2
  <2>4. Fits(g) <=> g = mine
    BY DEF AnyOf, mine
  <2>5. Adds(f, g, SUBSET S) <=> g = other
    BY DEF Adds, other
  <2>6. QED
    BY <2>3, <2>4, <2>5
<1> HIDE DEF f, Fits
<1>5. PICK g : Fits(g)
  BY <1>1, <1>4, SumExists
<1>6. Fits(sum)
  BY <1>5
<1> HIDE DEF sum
<1>7. Adds(f, sum, SUBSET S)
  BY <1>4, <1>6
<1>8. sum[S] \in Nat
  BY <1>1, <1>7, SumsAreNat
<1>9. S # {} => Cardinality(S) \in Nat \ {0}
  BY <1>1, FS_EmptySet, FS_CardinalityType
<1>10. S # {} => sum[S] \div Cardinality(S) \in Int
  BY <1>8, <1>9
<1>11. QED
  BY <1>2, <1>10
-------------------------------------------------------------------------------
(* The case *)

\* Containment begins once the capacity flow was asked for every capability.
MemoFull == phase \in {"done", "contained", "reported"} => Capabilities \subseteq DOMAIN memo

LEMMA InitMemoFull == Init => MemoFull
BY DEF Init, StructuralInit, MemoFull

LEMMA NextMemoFull == MemoFull /\ [Next]_vars => MemoFull'
<1> SUFFICES ASSUME MemoFull, [Next]_vars PROVE MemoFull'
  OBVIOUS
<1> USE DEF MemoFull
<1>1. CASE (\E n \in Nodes : KahnStep(n)) \/ Accept \/ Reject \/ Search \/ SearchEnds
  BY <1>1 DEF KahnStep, Accept, Reject, Search, SearchEnds
<1>2. CASE (\E c \in Capabilities : Flow(c)) \/ FlowEnds
  BY <1>2 DEF Flow, FlowEnds
<1>3. CASE Optimize \/ GreedyRound \/ GreedyEnds
  BY <1>3 DEF Optimize, GreedyRound, GreedyEnds, structuralVars
<1>4. CASE \E onPathway \in SUBSET Affected : Assess(onPathway)
  BY <1>4 DEF Assess
<1>5. CASE UNCHANGED vars
  BY <1>5 DEF vars, structuralVars
<1>6. QED
  BY <1>1, <1>2, <1>3, <1>4, <1>5 DEF Next, StructuralNext

\* All that holds of a run.
RunIInv == ValidationIInv /\ StructuralIInv /\ ContainmentIInv /\ MemoFull

LEMMA InitRun == Init => RunIInv
BY InitValidation, InitStructural, InitContainment, InitMemoFull DEF RunIInv

LEMMA NextRun == RunIInv /\ [Next]_vars => RunIInv'
BY NextValidation, NextStructural, NextContainment, NextMemoFull DEF RunIInv

\* When the assessment starts, all it starts from is settled.
LEMMA RunIsSettled ==
    ASSUME RunIInv, phase = "contained"
    PROVE  Settled /\ IsFiniteSet(net) /\ input.hidden \in SUBSET net
<1>1. CaseKept /\ InputOK
  BY DEF RunIInv, ContainmentIInv, StructuralIInv
<1>2. reached \in SUBSET Nodes
  BY <1>1, DependentsFacts DEF RunIInv, StructuralIInv, SearchOK
<1>3. memo \in Memos
  BY DEF RunIInv, StructuralIInv, MemoOK
<1>4. Capability \in DOMAIN memo
  BY RunAssumption DEF RunIInv, MemoFull
<1>5. Acyclic(Arcs(Visible))
  <2>1. Acyclic(Arcs(net))
    BY DEF RunIInv, ValidationIInv, ValidationIsExact
  <2>2. Arcs(Visible) \subseteq Arcs(net)
    BY DEF Arcs, Visible
  <2>3. QED
    BY <2>1, <2>2, FewerArcs
<1>6. IsFiniteSet(net) /\ input.hidden \in SUBSET net
  BY <1>1, RunAssumption DEF CaseKept, InputOK
<1>7. QED
  BY <1>1, <1>2, <1>3, <1>4, <1>5, <1>6 DEF Settled

\* Only an assessment reports, and nothing happens after it.
LEMMA OnlyAssessReports ==
    ASSUME [Next]_vars, Reported'
    PROVE  (\E onPathway \in SUBSET Affected : Assess(onPathway)) \/ UNCHANGED vars
<1> USE DEF Reported
<1>1. CASE (\E n \in Nodes : KahnStep(n)) \/ Accept \/ Reject \/ Search \/ SearchEnds
  BY <1>1 DEF KahnStep, Accept, Reject, Search, SearchEnds
<1>2. CASE (\E c \in Capabilities : Flow(c)) \/ FlowEnds
  BY <1>2 DEF Flow, FlowEnds
<1>3. CASE Optimize \/ GreedyRound \/ GreedyEnds
  BY <1>3 DEF Optimize, GreedyRound, GreedyEnds, structuralVars
<1>4. QED
  BY <1>1, <1>2, <1>3 DEF Next, StructuralNext

\* The nodes affected are the same before and after.
LEMMA AffectedStays ==
    ASSUME reached' = reached, case' = case
    PROVE  Affected' = Affected
<1>1. Simulated(case.det)' = Simulated(case.det)
  BY DEF Simulated
<1>2. Deterministic' = Deterministic
  BY <1>1 DEF Deterministic
<1>3. QED
  BY <1>2 DEF Affected

LEMMA AffectedType ==
    ASSUME Settled
    PROVE  Affected \in SUBSET Nodes
BY DeterministicFacts DEF Affected

\* What Assess writes, part by part.
LEMMA Assessed ==
    ASSUME NEW onPathway, Assess(onPathway)
    PROVE  LET results == [model \in case.models |-> Result(model)]
               areas   == Areas(results) IN
           /\ report'.results = results /\ report'.overall = Overall(areas)
           /\ report'.unknowns = Unknowns(net, input.hidden, Affected)
           /\ report'.asked \in Leading(Requests(net, report'.unknowns, areas, onPathway))
           /\ report'.epistemic = Epistemic(net, input.hidden)
           /\ report'.label = Reliability(report'.epistemic, report'.overall, Seen(Affected))
BY DEF Assess

\* What the results of the models that ran add up to.
LEMMA ResultsFacts ==
    ASSUME Settled
    PROVE  LET results == [model \in case.models |-> Result(model)]
               areas   == Areas(results) IN
           /\ DOMAIN areas = Metrics \cup {"affected"}
           /\ \A metric \in Metrics \cup {"affected"} :
                 areas[metric] \in 0 .. 100 /\ areas[metric] \in Int
           /\ Overall(areas) \in 0 .. 100
           /\ \A metric \in Metrics \cup {"affected"} : areas[metric] <= Overall(areas)
           /\ \A m, n \in Quantified(results) :
                 Percent(results[m].degradation - results[n].degradation, Unit)
                   <= areas["degradation"]
           /\ \A m, n \in Quantified(results), metric \in {"floor", "recovery"} :
                 (results[m][metric] = None) # (results[n][metric] = None) => areas[metric] = 100
           /\ \A m, n \in DOMAIN results :
                 results[m].affected # results[n].affected => areas["affected"] > 0
<1> DEFINE results == [model \in case.models |-> Result(model)]
           areas == Areas(results)
<1>1. \A m \in DOMAIN results : results[m] \in ResultRecords
  BY ResultType
<1> HIDE DEF results
<1>2. /\ DOMAIN areas = Metrics \cup {"affected"}
      /\ \A metric \in Metrics \cup {"affected"} : areas[metric] \in 0 .. 100
      /\ \A m, n \in Quantified(results) :
            Percent(results[m].degradation - results[n].degradation, Unit) <= areas["degradation"]
      /\ \A m, n \in Quantified(results), metric \in {"floor", "recovery"} :
            (results[m][metric] = None) # (results[n][metric] = None) => areas[metric] = 100
      /\ \A m, n \in DOMAIN results :
            results[m].affected # results[n].affected => areas["affected"] > 0
  BY <1>1, AreasFacts
<1> HIDE DEF areas
<1>3. /\ Overall(areas) \in 0 .. 100
      /\ \A metric \in Metrics \cup {"affected"} : areas[metric] <= Overall(areas)
  BY <1>2, OverallFacts
<1>4. \A metric \in Metrics \cup {"affected"} : areas[metric] \in Int
  BY <1>2
<1>5. QED
  BY <1>2, <1>3, <1>4 DEF areas, results

\* An assessment reports what is hidden.
LEMMA AssessReportsHiding ==
    ASSUME RunIInv, NEW onPathway, Assess(onPathway)
    PROVE  HidingIsReported'
<1>1. phase = "contained" /\ UNCHANGED <<net, input, case>> /\ reached' = reached
  BY DEF Assess, search
<1>2. Settled /\ IsFiniteSet(net) /\ input.hidden \in SUBSET net
  BY <1>1, RunIsSettled
<1>3. Affected \in SUBSET Nodes /\ Affected' = Affected
  BY <1>1, <1>2, AffectedType, AffectedStays
<1> DEFINE areas == Areas([model \in case.models |-> Result(model)])
           overall == report'.overall
<1>4. overall \in Int
  <2>1. Overall(areas) \in 0 .. 100
    BY <1>2, ResultsFacts
  <2>2. overall = Overall(areas)
    BY Assessed
  <2> HIDE DEF areas, overall
  <2>3. QED
    BY <2>1, <2>2
<1>5. /\ report'.unknowns = Unknowns(net, input.hidden, Affected)
      /\ report'.epistemic = Epistemic(net, input.hidden)
      /\ report'.label = Reliability(report'.epistemic, overall, Seen(Affected))
  BY Assessed
<1> HIDE DEF overall
<1>6. ASSUME NEW fewer \in (SUBSET input.hidden) \ {input.hidden}
      PROVE  LET known == Epistemic(net, fewer) IN
             /\ Unknown("undisclosed", None) \in report'.unknowns
             /\ report'.epistemic >= known
             /\ report'.epistemic > known \/ known = 100 \/ Cardinality(net) > 30
             /\ report'.label >= Reliability(known, overall, Seen(Affected))
  <2> DEFINE known == Epistemic(net, fewer)
             mine == Epistemic(net, input.hidden)
  <2>1. /\ known \in Int /\ mine \in Int /\ known <= mine
        /\ known < mine \/ known = 100 \/ Cardinality(net) > 30
    <3>1. IsFiniteSet(net) /\ input.hidden \in SUBSET net
      BY <1>2
    <3>2. fewer \in SUBSET input.hidden /\ fewer # input.hidden
      BY <1>6
    <3> HIDE DEF known, mine
    <3>3. QED
      BY ONLY <3>1, <3>2, EpistemicGrows DEF known, mine
  <2>2. Unknown("undisclosed", None) \in report'.unknowns
    <3>1. input.hidden # {}
      OBVIOUS
    <3>2. QED
      BY <1>2, <1>3, <1>5, <3>1, UnknownsFacts
  <2>3. Seen(Affected) \in Int
    BY <1>3, SeenIsInt
  <2> HIDE DEF known, mine
  <2>4. Reliability(mine, overall, Seen(Affected)) >= Reliability(known, overall, Seen(Affected))
    BY <1>4, <2>1, <2>3, ReliabilityFalls
  <2>5. report'.epistemic = mine
    BY <1>5 DEF mine
  <2>6. QED
    BY <1>5, <2>1, <2>2, <2>4, <2>5 DEF known
<1>7. QED
  BY <1>1, <1>3, <1>6 DEF HidingIsReported, overall

\* For any graph and any models, with fewer edges hidden the same graph would be reported
\* as better known and as no less reliable, and something hidden is always among the
\* unknowns (unknowns.py:3-5, uncertainty.py).
THEOREM HidingIsAlwaysReported == Spec => []HidingIsReported
<1>1. Init => HidingIsReported
  BY DEF Init, StructuralInit, HidingIsReported, Reported
<1>2. RunIInv /\ HidingIsReported /\ [Next]_vars => HidingIsReported'
  <2> SUFFICES ASSUME RunIInv, HidingIsReported, [Next]_vars, Reported'
               PROVE  HidingIsReported'
    BY DEF HidingIsReported
  <2>1. CASE \E onPathway \in SUBSET Affected : Assess(onPathway)
    BY <2>1, AssessReportsHiding
  <2>2. CASE UNCHANGED vars
    <3>1. UNCHANGED <<net, input, phase, reached, case, report>>
      BY <2>2 DEF vars, structuralVars, runVars
    <3>2. Affected' = Affected
      BY <3>1, AffectedStays
    <3>3. QED
      BY <3>1, <3>2 DEF HidingIsReported, Reported
  <2>3. QED
    BY <2>1, <2>2, OnlyAssessReports
<1>3. QED
  BY InitRun, NextRun, <1>1, <1>2, PTL DEF Spec

\* Prevented is said only of a chosen set that does not breach the floor.
LEMMA PreventedMeans ==
    ASSUME NEW det, det # None => det.degradation \in Fractions,
           NEW chosen \in BOOLEAN, NEW breaching \in BOOLEAN, NEW without, NEW with,
           Status(det, chosen, breaching, without, with) = "prevented"
    PROVE  chosen /\ ~ breaching
<1>1. CASE det = None \/ det.degradation = 0
  BY <1>1 DEF Status
<1>2. CASE det # None /\ det.degradation # 0
  <2>1. det.degradation > 0
    BY <1>2, UnitFacts DEF Fractions
  <2>2. CASE det.floor = None
    BY <1>2, <2>1, <2>2 DEF Status
  <2>3. CASE det.floor # None
    BY <1>2, <2>1, <2>3 DEF Status
  <2>4. QED
    BY <2>2, <2>3
<1>3. QED
  BY <1>1, <1>2

\* What is chosen is feasible.
LEMMA ChosenIsFeasible ==
    ASSUME RunIInv, phase = "contained", Chosen(ranked, case.decision) # NoSet
    PROVE  ranked # {} /\ Feasible(Chosen(ranked, case.decision), case.decision.limits)
<1> DEFINE d == case.decision
<1>1. Decisions(d) /\ ranked \subseteq Evaluated(d)
  <2>1. ContainmentIInv /\ Decided
    BY DEF RunIInv, Decided
  <2>2. CASE Exhaustive
    BY <2>1, <2>2, DecisionFacts DEF ContainmentIInv
  <2>3. CASE ~ Exhaustive
    BY <2>1, <2>3, DecisionFacts DEF ContainmentIInv, GreedyClimbs
  <2>4. QED
    BY <2>2, <2>3
<1>2. ranked # {}
  BY DEF Chosen
<1> HIDE DEF d
<1>3. ranked \in SUBSET Sets
  BY <1>1, EvaluatedFacts
<1>4. Chosen(ranked, d) \in ranked
  BY <1>1, <1>2, <1>3, ChosenIsFirst
<1>5. Feasible(Chosen(ranked, d), d.limits)
  BY <1>1, <1>4, EvaluatedFacts
<1>6. QED
  BY <1>2, <1>5 DEF d

\* What Assess writes of the chosen set and of the clock.
LEMMA AssessedActions ==
    ASSUME NEW onPathway, Assess(onPathway)
    PROVE  LET chosen == Chosen(ranked, case.decision) IN
           /\ ranked # {} => chosen \in report'.sets
           /\ report'.status = Status(Deterministic, chosen # NoSet,
                                      chosen \in case.decision.breaching,
                                      case.decision.loss[{}], case.decision.loss[chosen])
           /\ report'.clock =
                 [m \in {"floor", "recovery"} |-> Interval(Replications, Deterministic, m)]
BY DEF Assess

\* Prevented is backed by a set that the case recommends.
LEMMA PreventedIsFeasible ==
    ASSUME RunIInv, NEW onPathway, Assess(onPathway), report'.status = "prevented"
    PROVE  \E S \in report'.sets : Feasible(S, case.decision.limits)
                                   /\ S \notin case.decision.breaching
<1> DEFINE chosen == Chosen(ranked, case.decision)
<1>1. phase = "contained"
  BY DEF Assess
<1>2. Deterministic # None => Deterministic.degradation \in Fractions
  BY <1>1, RunIsSettled, DeterministicFacts
<1>3. /\ ranked # {} => chosen \in report'.sets
      /\ Status(Deterministic, chosen # NoSet, chosen \in case.decision.breaching,
                case.decision.loss[{}], case.decision.loss[chosen]) = "prevented"
  BY AssessedActions
<1>4. chosen # NoSet /\ chosen \notin case.decision.breaching
  <2> DEFINE some == chosen # NoSet
             bad == chosen \in case.decision.breaching
             det == Deterministic
             without == case.decision.loss[{}]
             with == case.decision.loss[chosen]
  <2>1. some \in BOOLEAN /\ bad \in BOOLEAN
    OBVIOUS
  <2>2. det # None => det.degradation \in Fractions
    BY <1>2
  <2>3. Status(det, some, bad, without, with) = "prevented"
    BY <1>3
  <2> HIDE DEF some, bad, det, without, with
  <2>4. some /\ ~ bad
    BY <2>1, <2>2, <2>3, PreventedMeans
  <2>5. QED
    BY <2>4 DEF some, bad
<1>5. ranked # {} /\ Feasible(chosen, case.decision.limits)
  BY <1>1, <1>4, ChosenIsFeasible
<1>6. QED
  BY <1>3, <1>4, <1>5

\* The intervals of the clock are in order, whatever ran.
LEMMA ClockIsOrdered ==
    ASSUME Settled, NEW m \in {"floor", "recovery"},
           Interval(Replications, Deterministic, m) # None
    PROVE  InOrderOf(Interval(Replications, Deterministic, m))
<1>1. m \in Metrics
  BY DEF Metrics
<1>2. Deterministic # None => Deterministic[m] \in Figures
  BY <1>1, DeterministicFacts
<1>3. /\ IsFiniteSet(DOMAIN Replications)
      /\ \A k \in DOMAIN Replications : Replications[k][m] \in Figures
  BY <1>1, ReplicationFacts
<1> DEFINE r == Replications
           d == Deterministic
<1>4. /\ IsFiniteSet(DOMAIN r) /\ \A k \in DOMAIN r : r[k][m] \in Figures
      /\ d # None => d[m] \in Figures
      /\ Interval(r, d, m) # None
  BY <1>2, <1>3
<1> HIDE DEF r, d
<1>5. InOrderOf(Interval(r, d, m))
  BY <1>4, IntervalFacts
<1>6. QED
  BY <1>5 DEF r, d

\* What is asked is asked first.
LEMMA UnknownsAreAsked ==
    ASSUME RunIInv, NEW onPathway, Assess(onPathway), NEW u \in report'.unknowns,
           u.kind # "low confidence"
    PROVE  \/ \E request \in report'.asked : request.subject = u
           \/ /\ Cardinality(report'.asked) = MaxRequests
              /\ \A request \in report'.asked : 2 * request.score >= Worth[u.kind] - 1
<1> DEFINE areas == Areas([model \in case.models |-> Result(model)])
           unknowns == Unknowns(net, input.hidden, Affected)
           requests == Requests(net, unknowns, areas, onPathway)
           asked == report'.asked
<1>1. phase = "contained" /\ u \in unknowns /\ asked \in Leading(requests)
  BY Assessed DEF Assess
<1>2. Settled /\ IsFiniteSet(net) /\ input.hidden \in SUBSET net
  BY <1>1, RunIsSettled
<1>3. IsFiniteSet(unknowns) /\ \A v \in unknowns : v.kind \in Kinds
  BY <1>2, AffectedType, UnknownsFacts
<1>4. IsFiniteSet(DOMAIN areas) /\ \A metric \in DOMAIN areas : areas[metric] \in Int
  <2>1. DOMAIN areas = Metrics \cup {"affected"}
        /\ \A metric \in Metrics \cup {"affected"} : areas[metric] \in Int
    BY <1>2, ResultsFacts
  <2> HIDE DEF areas
  <2>2. QED
    BY <2>1, AreasAreFinite
<1> HIDE DEF areas, unknowns, asked
<1>5. /\ IsFiniteSet(requests) /\ \A r \in requests : r.score \in Int
      /\ Worth[u.kind] \in Int
      /\ \E r \in requests : r.subject = u /\ 2 * r.score >= Worth[u.kind] - 1
  BY <1>1, <1>3, <1>4, RequestsFacts
<1> HIDE DEF requests
<1>6. \/ \E request \in asked : request.subject = u
      \/ /\ Cardinality(asked) = MaxRequests
         /\ \A request \in asked : 2 * request.score >= Worth[u.kind] - 1
  <2> DEFINE w == Worth[u.kind]
  <2>1. /\ w \in Int /\ \E r \in requests : r.subject = u /\ 2 * r.score >= w - 1
        /\ IsFiniteSet(requests) /\ \A r \in requests : r.score \in Int
        /\ asked \in Leading(requests)
    BY <1>1, <1>5
  <2> HIDE DEF w
  <2>2. \/ \E request \in asked : request.subject = u
        \/ /\ Cardinality(asked) = MaxRequests
           /\ \A request \in asked : 2 * request.score >= w - 1
    BY ONLY <2>1, AskedOrOutbid
  <2>3. QED
    BY <2>2 DEF w
<1>7. QED
  BY <1>6 DEF asked

\* The disagreement reported covers every two models.
LEMMA DifferencesAreShown ==
    ASSUME RunIInv, NEW onPathway, Assess(onPathway)
    PROVE  /\ \A m, n \in Quantified(report'.results) :
                 Percent(report'.results[m].degradation - report'.results[n].degradation, Unit)
                   <= report'.overall
           /\ \A m, n \in Quantified(report'.results), metric \in {"floor", "recovery"} :
                 (report'.results[m][metric] = None) # (report'.results[n][metric] = None)
                   => report'.overall = 100
           /\ \A m, n \in DOMAIN report'.results :
                 report'.results[m].affected # report'.results[n].affected => report'.overall > 0
<1> DEFINE results == [model \in case.models |-> Result(model)]
           areas == Areas(results)
<1>1. report'.results = results /\ report'.overall = Overall(areas)
  BY Assessed
<1>2. Settled
  BY RunIsSettled DEF Assess
<1>3. \A m \in DOMAIN results : results[m] \in ResultRecords
  BY <1>2, ResultType
<1>4. /\ areas["degradation"] \in 0 .. 100 /\ areas["affected"] \in 0 .. 100
      /\ Overall(areas) \in 0 .. 100
      /\ areas["degradation"] <= Overall(areas) /\ areas["affected"] <= Overall(areas)
      /\ \A m, n \in Quantified(results) :
            Percent(results[m].degradation - results[n].degradation, Unit)
              <= areas["degradation"]
      /\ \A m, n \in Quantified(results), metric \in {"floor", "recovery"} :
            (results[m][metric] = None) # (results[n][metric] = None) => areas[metric] = 100
      /\ \A metric \in {"floor", "recovery"} : areas[metric] <= Overall(areas)
      /\ \A m, n \in DOMAIN results :
            results[m].affected # results[n].affected => areas["affected"] > 0
  BY <1>2, ResultsFacts DEF Metrics
<1> HIDE DEF results, areas
<1>5. ASSUME NEW m \in Quantified(results), NEW n \in Quantified(results)
      PROVE  Percent(results[m].degradation - results[n].degradation, Unit) <= Overall(areas)
  <2> DEFINE p == Percent(results[m].degradation - results[n].degradation, Unit)
             top == Overall(areas)
             mid == areas["degradation"]
  <2>1. results[m].degradation \in Fractions /\ results[n].degradation \in Fractions
    BY <1>3, <1>5 DEF Quantified, ResultRecords
  <2>2. p \in Int
    BY <2>1, DiffCounts
  <2>3. p <= mid /\ mid \in Int /\ top \in Int /\ mid <= top
    BY <1>4, <1>5
  <2> HIDE DEF p, top, mid
  <2>4. p <= top
    BY <2>2, <2>3
  <2>5. QED
    BY <2>4 DEF p, top
<1>6. ASSUME NEW m \in DOMAIN results, NEW n \in DOMAIN results,
             results[m].affected # results[n].affected
      PROVE  Overall(areas) > 0
  BY <1>4, <1>6
<1>8. ASSUME NEW m \in Quantified(results), NEW n \in Quantified(results),
             NEW metric \in {"floor", "recovery"},
             (results[m][metric] = None) # (results[n][metric] = None)
      PROVE  Overall(areas) = 100
  <2>1. areas[metric] = 100 /\ areas[metric] <= Overall(areas)
    BY <1>4, <1>8
  <2>2. QED
    BY <1>4, <2>1
<1>7. QED
  BY <1>1, <1>5, <1>6, <1>8

\* An assessment makes a case that holds against its parts.
LEMMA AssessIsHonest ==
    ASSUME RunIInv, NEW onPathway, Assess(onPathway)
    PROVE  CaseIsHonest'
<1>1. phase = "contained" /\ case' = case /\ Settled
  BY RunIsSettled DEF Assess
<1>2. /\ \A m, n \in Quantified(report'.results) :
            Percent(report'.results[m].degradation - report'.results[n].degradation, Unit)
              <= report'.overall
      /\ \A m, n \in Quantified(report'.results), metric \in {"floor", "recovery"} :
            (report'.results[m][metric] = None) # (report'.results[n][metric] = None)
              => report'.overall = 100
      /\ \A m, n \in DOMAIN report'.results :
            report'.results[m].affected # report'.results[n].affected => report'.overall > 0
  BY DifferencesAreShown
<1>3. report'.status = "prevented" =>
         \E S \in report'.sets : Feasible(S, case'.decision.limits)
                                 /\ S \notin case'.decision.breaching
  BY <1>1, PreventedIsFeasible
<1>4. \A m \in DOMAIN report'.clock : report'.clock[m] # None =>
         /\ report'.clock[m].low <= report'.clock[m].median
         /\ report'.clock[m].median <= report'.clock[m].high
  <2> DEFINE clock == [m \in {"floor", "recovery"} |-> Interval(Replications, Deterministic, m)]
  <2>1. report'.clock = clock
    BY AssessedActions
  <2>2. ASSUME NEW m \in DOMAIN clock, clock[m] # None PROVE InOrderOf(clock[m])
    BY <1>1, <2>2, ClockIsOrdered
  <2> HIDE DEF clock
  <2>3. QED
    BY <2>1, <2>2 DEF InOrderOf
<1>5. \A u \in report'.unknowns :
         \/ u.kind = "low confidence"
         \/ \E request \in report'.asked : request.subject = u
         \/ /\ Cardinality(report'.asked) = MaxRequests
            /\ \A request \in report'.asked : 2 * request.score >= Worth[u.kind] - 1
  BY UnknownsAreAsked
<1>6. QED
  BY <1>2, <1>3, <1>4, <1>5 DEF CaseIsHonest

\* For any graph, any models and any replications, a case that is reported holds against
\* its parts: its disagreement covers every two models, prevented means feasible actions
\* that keep the floor, its intervals are ordered and what is unknown is asked for unless
\* better requests fill the list (runner.py, disagreement.py:1, value.py).
THEOREM CasesAreHonest == Spec => []CaseIsHonest
<1>1. Init => CaseIsHonest
  BY DEF Init, StructuralInit, CaseIsHonest, Reported
<1>2. RunIInv /\ CaseIsHonest /\ [Next]_vars => CaseIsHonest'
  <2> SUFFICES ASSUME RunIInv, CaseIsHonest, [Next]_vars, Reported'
               PROVE  CaseIsHonest'
    BY DEF CaseIsHonest
  <2>1. CASE \E onPathway \in SUBSET Affected : Assess(onPathway)
    BY <2>1, AssessIsHonest
  <2>2. CASE UNCHANGED vars
    <3>1. UNCHANGED <<phase, case, report>>
      BY <2>2 DEF vars, structuralVars, runVars
    <3>2. CaseIsHonest' <=> CaseIsHonest
      BY ONLY <3>1 DEF CaseIsHonest, Reported
    <3>3. QED
      BY <3>2
  <2>3. QED
    BY <2>1, <2>2, OnlyAssessReports
<1>3. QED
  BY InitRun, NextRun, <1>1, <1>2, PTL DEF Spec
=============================================================================
