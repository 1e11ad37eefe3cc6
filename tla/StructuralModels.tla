--------------------------- MODULE StructuralModels ---------------------------
(***************************************************************************)
(* What is computed from the shape of a graph alone: the validation every  *)
(* snapshot passes (backend/verine/graph/validate.py), the blast radius    *)
(* (models/reachability.py) and the steady-state bottleneck                *)
(* (models/capacity_flow.py).                                              *)
(*                                                                         *)
(* The three run one after the other.  They share no state but the graph,  *)
(* so the order a scenario lists its models in makes no difference.  Kahn's *)
(* queue is a set: the code's order is one of those allowed here.          *)
(* ScenarioRun goes on where this ends.                                    *)
(***************************************************************************)
EXTENDS DependencyGraph, SequencesExt

CONSTANTS
    Capabilities       \* those of Nodes that are capabilities: never a substitute

ASSUME StructuralAssumption == Capabilities \subseteq Nodes

VARIABLES
    net,               \* the edges of the snapshot
    input,             \* how often the snapshot lists each node, their direct stress and
                       \* substitutability, and the edges a scenario hides
                       \* [listed, stress, hidden, spare]
    phase,             \* what runs, or how it ended
    indeg,             \* Kahn: dependents of a node not yet visited
    queue, visited,    \* Kahn: nodes without one; how many were visited
    frontier, reached, \* reachability: the last layer and all layers so far
    memo               \* capacity flow: availability of the nodes computed so far

structuralVars == <<net, input, phase, indeg, queue, visited, frontier, reached, memo>>
kahn == <<indeg, queue, visited>>
search == <<frontier, reached>>

Targets == {n \in Nodes : input.stress[n] > 0}
Visible == net \ input.hidden

Listed == {n \in Nodes : input.listed[n] > 0}
Loops == {e \in net : e.from = e.to}

\* The edges Kahn's algorithm follows.
Proper == {e \in net \ Loops : {e.from, e.to} \subseteq Listed}

StructuralInit(graph, incident) ==
    /\ net = graph
    /\ input = incident
    /\ phase = "validate"
    /\ indeg = [n \in Nodes |-> Cardinality({e \in Proper : e.to = n})]
    /\ queue = {n \in Listed : \A e \in Proper : e.to # n}
    /\ visited = 0
    /\ frontier = Targets /\ reached = Targets
    /\ memo = [n \in {} |-> Unit]
-------------------------------------------------------------------------------
(* Validation *)

\* Parallel edges taken for one.
NeighbourOf(n, m) == IF \E e \in Proper : e.from = n /\ e.to = m THEN 1 ELSE 0

EdgesBetween(n, m) == Cardinality({e \in Proper : e.from = n /\ e.to = m})

KahnStep(n) ==
    /\ phase = "validate" /\ n \in queue
    /\ visited' = visited + 1
    /\ indeg' = [m \in Nodes |-> indeg[m] - EdgesBetween(n, m)]
    /\ queue' = (queue \ {n}) \cup {m \in Nodes : EdgesBetween(n, m) > 0 /\ indeg'[m] = 0}
    /\ UNCHANGED <<net, input, phase, frontier, reached, memo>>

\* A node or an edge id given twice, a self-loop, an endpoint or a substitute that is not
\* listed.  An edge listed twice alike, which the set of edges has once, is rejected like
\* two that share an id.
Malformed ==
    \/ Loops # {}
    \/ \E n \in Nodes : input.listed[n] > 1
    \/ \E e, f \in net : e # f /\ e.id = f.id
    \/ \E e \in net : ~ {e.from, e.to} \cup e.subs \subseteq Listed

Accept ==
    /\ phase = "validate" /\ queue = {}
    /\ ~ Malformed /\ visited = Cardinality(Listed)
    /\ phase' = "reach"
    /\ UNCHANGED <<net, input, kahn, search, memo>>

Reject ==
    /\ phase = "validate" /\ queue = {}
    /\ Malformed \/ visited < Cardinality(Listed)
    /\ phase' = "rejected"
    /\ UNCHANGED <<net, input, kahn, search, memo>>
-------------------------------------------------------------------------------
(* Reachability: one layer of the breadth-first search *)

\* A search that looks at the nodes of the layer and not at the edges into it.
LayerDownwards == {e.to : e \in {f \in Visible : f.from \in frontier}} \ reached

Layer == {e.from : e \in {f \in Visible : f.to \in frontier}} \ reached

Search ==
    /\ phase = "reach" /\ frontier # {}
    /\ frontier' = Layer
    /\ reached' = reached \cup Layer
    /\ UNCHANGED <<net, input, phase, kahn, memo>>

SearchEnds ==
    /\ phase = "reach" /\ frontier = {}
    /\ phase' = "flow"
    /\ UNCHANGED <<net, input, kahn, search, memo>>
-------------------------------------------------------------------------------
(* Capacity flow *)

\* What the memo m knows of a node; a node being computed counts as fully available.
Known(m, n) == IF n \in DOMAIN m THEN m[n] ELSE Unit

SpareCapacity(e, m) == Redundancy(e, input.spare, [s \in e.subs |-> Known(m, s)])

Delivered(e, m) == Min({Unit, Known(m, e.to) + SpareCapacity(e, m)})

Channel(e, m) == Unit - Times(e.weight, Unit - Delivered(e, m))

\* What a node can deliver: what the incident leaves it, or its worst channel.
Local(n, m) ==
    Min({Unit - input.stress[n]} \cup {Channel(e, m) : e \in Dependencies(Visible, n)})

\* Edges in the order of their ids.
LastOf(edges) == CHOOSE e \in edges : \A f \in edges : f.id <= e.id

InOrder(asked(_), edges) ==
    MapThenFoldSet(LAMBDA nodes, earlier : earlier \o nodes, << >>, asked, LastOf, edges)

\* Dependencies without their substitutes.
ConsultedOnce(n) == InOrder(LAMBDA e : <<e.to>>, Dependencies(Visible, n))

\* Whom the code asks on behalf of n, in its order.
Consulted(n) ==
    InOrder(LAMBDA e : <<e.to>> \o SetToSeq(e.subs \ Capabilities), Dependencies(Visible, n))

Memos == UNION {[S -> Fractions] : S \in SUBSET Nodes}

\* The memo after the nodes of a list were entered, one after the other.
AfterAll(enter, known, nodes) == FoldLeft(LAMBDA m, c : enter[c][m], known, nodes)

\* The memo m after availability(n, stack): a node of the stack is not entered again, and
\* what was computed without it is kept like anything else.
Visit(n, stack, m) ==
    LET visit[above \in SUBSET Nodes] ==
          [d \in Nodes |-> [known \in Memos |->
              IF d \in DOMAIN known \cup above THEN known
              ELSE LET after == AfterAll(visit[above \cup {d}], known, Consulted(d))
                   IN  [c \in DOMAIN after \cup {d} |->
                           IF c = d THEN Local(d, after) ELSE after[c]]]]
    IN  visit[stack][n][m]

Flow(c) ==
    /\ phase = "flow" /\ c \in Capabilities \ DOMAIN memo
    /\ memo' = Visit(c, {}, memo)
    /\ UNCHANGED <<net, input, phase, kahn, search>>

FlowEnds ==
    /\ phase = "flow" /\ Capabilities \subseteq DOMAIN memo
    /\ phase' = "done"
    /\ UNCHANGED <<net, input, kahn, search, memo>>
-------------------------------------------------------------------------------
StructuralNext ==
    \/ \E n \in Nodes : KahnStep(n)
    \/ Accept \/ Reject
    \/ Search \/ SearchEnds
    \/ \E c \in Capabilities : Flow(c)
    \/ FlowEnds
-------------------------------------------------------------------------------
(* Where the damage of a node comes from *)

\* The worst channel of a node, the first by id; none if its own stress is worse.  The
\* code keeps it when it computes the node, which differs where substitutes lead in a
\* circle.
Worst(n) ==
    LET limiting == {e \in Dependencies(Visible, n) :
                        Channel(e, memo) = memo[n] /\ memo[n] < Unit - input.stress[n]}
    IN  {e \in limiting : \A f \in limiting : e.id <= f.id}

\* The edges of the bottleneck chain from n.
Bottleneck(n) ==
    LET chain[m \in Nodes] ==
          IF Worst(m) = {} THEN << >>
          ELSE LET e == CHOOSE w \in Worst(m) : TRUE IN <<e>> \o chain[e.to]
    IN  chain[n]

\* The node a bottleneck chain ends at.
Root(c) == IF Bottleneck(c) = << >> THEN c ELSE Last(Bottleneck(c)).to
-------------------------------------------------------------------------------
(* Properties *)

\* A snapshot is rejected exactly if it repeats an id, names a node it does not list, or
\* has nodes that depend on each other in a circle, whatever parallel edges and loops
\* there are (validate.py:3-4).
ValidationIsExact ==
    /\ phase = "rejected" => Malformed \/ ~ Acyclic(Arcs(net))
    /\ phase \notin {"validate", "rejected"} => ~ Malformed /\ Acyclic(Arcs(net))

\* The blast radius is exactly what depends on a target over edges the scenario shows
\* (reachability.py), and the steady state stays within it, even where substitutes that
\* stand in for each other make the recursion fall back on its guard (capacity_flow.py).
RadiusIsExact ==
    phase \notin {"validate", "rejected", "reach"} =>
        /\ reached = Dependents(net \ input.hidden, Targets)
        /\ \A n \in DOMAIN memo : memo[n] < Unit => n \in reached

\* Unless substitutes lead back in a circle, the memo is a solution of the equations the
\* model documents, so no capability's result depends on which was computed before it,
\* and the bottleneck of a degraded capability ends at a node the incident hit
\* (capacity_flow.py).
FlowSolvesEquations ==
    Acyclic(ArcsWithSubstitutes(net \ input.hidden)) =>
        /\ \A n \in DOMAIN memo : memo[n] = Local(n, memo)
        /\ \A c \in Capabilities \cap DOMAIN memo : memo[c] < Unit => Root(c) \in Targets
=============================================================================
