--------------------------- MODULE DependencyGraph ---------------------------
(***************************************************************************)
(* The dependency graph the simulation models run on (backend/verine/graph *)
(* and backend/verine/models).                                             *)
(*                                                                         *)
(* An edge [id, from, to, weight, lag, subs] says that `from` depends on   *)
(* `to`: a degradation of `to` reaches `from` after `lag` minutes, in the  *)
(* proportion weight (criticality times capacity fraction), less what the  *)
(* substitutes `subs` stand in for.  Fractions of 1 are integers out of    *)
(* Unit; a product is rounded down where the code rounds to six digits.    *)
(***************************************************************************)
EXTENDS Integers, FiniteSets, FiniteSetsExt

CONSTANTS Nodes, Unit

ASSUME GraphAssumption == IsFiniteSet(Nodes) /\ Unit \in Nat \ {0}

Fractions == 0 .. Unit
Times(a, b) == (a * b) \div Unit

\* The largest of some fractions, 0 if there are none.
Most(fractions) == Max(fractions \cup {0})

EdgeOf(ids, lags) == [id : ids, from : Nodes, to : Nodes, weight : Fractions, lag : lags,
                      subs : SUBSET Nodes]

Dependencies(edges, n) == {e \in edges : e.from = n}

\* What the substitutes of an edge stand in for: the best of them, as far as it is
\* itself available.  spare is the substitutability of each node.
Redundancy(e, spare, available) == Most({Times(spare[s], available[s]) : s \in e.subs})

\* No set of nodes in which everyone depends on another of the set.
Acyclic(arcs) ==
    \A S \in (SUBSET Nodes) \ {{}} : \E n \in S : \A m \in S : <<n, m>> \notin arcs

Arcs(edges) == {<<e.from, e.to>> : e \in edges}

\* A substitute is consulted like a dependency.
ArcsWithSubstitutes(edges) ==
    Arcs(edges) \cup UNION {{<<e.from, s>> : s \in e.subs} : e \in edges}

\* Everything that depends, directly or not, on a node of targets.
Dependents(edges, targets) ==
    LET within[d \in 0 .. Cardinality(Nodes)] ==
          IF d = 0 THEN targets
          ELSE LET closer == within[d - 1]
               IN  closer \cup {e.from : e \in {f \in edges : f.to \in closer}}
    IN  within[Cardinality(Nodes)]
=============================================================================
