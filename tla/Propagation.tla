----------------------------- MODULE Propagation -----------------------------
(***************************************************************************)
(* The discrete-time propagation of incidents over a dependency graph      *)
(* (backend/verine/simulation/propagate.py).                               *)
(*                                                                         *)
(* Two simulations of one graph run side by side: "worse" has every        *)
(* component of "base", at least as severe and as long, no action more, no *)
(* edge hidden that base shows and no better substitutes.  What one run    *)
(* promises is checked of both, and how the two compare is checked too.    *)
(*                                                                         *)
(* Every value a step reads is of an earlier step, so the order in which   *)
(* the code visits the nodes of a step does not matter and a step computes *)
(* them all at once.  When the horizon is reached the run is summed up:     *)
(* impact events, pathways and metrics.                                    *)
(***************************************************************************)
EXTENDS DependencyGraph, Sequences, SequencesExt

CONSTANTS
    Edges, Nets,       \* edges that exist; the sets of them that are graphs
    Components,        \* incident components [target, severity, start, end]
    Recovery,          \* node -> its recovery time in minutes
    Actions,           \* scheduled actions
    EffectiveAt,       \* action -> when it takes effect: start plus duration
    Remaining,         \* set of effective actions -> node -> share they leave of damage
    Inputs,            \* pairs [base, worse] of runs to be compared
    Capabilities, Target, Floor,   \* nodes with a service level; its target and minimum
    MaxDepth, MaxPathways,         \* edges of a pathway (8); pathways of a report (10)
    Threshold,         \* degradations up to it count as none
    Step, Steps        \* minutes of a step; number of steps of the horizon

Runs == {"base", "worse"}
RunInputs == [components : SUBSET Components, actions : SUBSET Actions,
              hidden : SUBSET Edges, spare : [Nodes -> Fractions]]

\* The component d is at least as bad as c throughout.
AsBad(d, c) ==
    d.target = c.target /\ d.severity >= c.severity /\ d.start <= c.start /\ d.end >= c.end

Worse(more, less) ==
    /\ \A c \in less.components : \E d \in more.components : AsBad(d, c)
    /\ more.actions \subseteq less.actions
    /\ more.hidden \subseteq less.hidden
    /\ \A n \in Nodes : more.spare[n] <= less.spare[n]

ASSUME PropagationAssumption ==
    /\ IsFiniteSet(Edges) /\ Edges \subseteq EdgeOf(Nat, Nat)
    /\ Nets \subseteq SUBSET Edges
    /\ IsFiniteSet(Components)
    /\ Components \subseteq [target : Nodes, severity : Fractions, start : Nat, end : Nat]
    /\ Recovery \in [Nodes -> Nat]
    /\ EffectiveAt \in [Actions -> Nat]
    /\ Remaining \in [SUBSET Actions -> [Nodes -> Fractions]]
    /\ \A S, T \in SUBSET Actions : S \subseteq T =>
          \A n \in Nodes : Remaining[T][n] <= Remaining[S][n]
    /\ Inputs \subseteq [Runs -> RunInputs]
    /\ \A input \in Inputs : Worse(input["worse"], input["base"])
    /\ Capabilities \subseteq Nodes
    /\ Target \in [Capabilities -> Fractions] /\ Floor \in [Capabilities -> Fractions]
    /\ MaxDepth \in Nat \ {0} /\ MaxPathways \in Nat
    /\ Threshold \in Fractions
    /\ Step \in Nat \ {0} /\ Steps \in Nat \ {0}

VARIABLES
    net,      \* the graph
    input,    \* run -> components, actions, hidden edges and substitutability
    history,  \* run -> degradation of every node, step by step
    first,    \* run -> node -> step of its first impact, or 0; the first step is 1
    cause,    \* run -> node -> what its damage is attributed to
    report    \* run -> its events, pathways and metrics, at the end

vars == <<net, input, history, first, cause, report>>

NoReport == [events |-> {}, pathways |-> {}, metrics |-> << >>]

Causes == [kind : {"none", "incident"}] \cup [kind : {"edge"}, edge : Edges]
Unknown == [kind |-> "none"]
Incident == [kind |-> "incident"]

Init ==
    /\ net \in Nets
    /\ input \in Inputs
    /\ history = [r \in Runs |-> << >>]
    /\ first = [r \in Runs |-> [n \in Nodes |-> 0]]
    /\ cause = [r \in Runs |-> [n \in Nodes |-> Unknown]]
    /\ report = [r \in Runs |-> NoReport]

Visible(r) == net \ input[r].hidden
-------------------------------------------------------------------------------
(* One step of one run.  The k-th step is at minute (k - 1) * Step. *)

Minute(k) == (k - 1) * Step

\* A component that is never over.
DirectForever(c, t) == IF c.start <= t THEN c.severity ELSE 0

\* Full severity while the component is active, then a linear recovery.
DirectOf(c, t) ==
    LET left == c.end + Recovery[c.target] - t IN
    CASE t < c.start                              -> 0
      [] c.start <= t /\ t < c.end                -> c.severity
      [] c.start <= t /\ c.end <= t /\ left > 0   -> (c.severity * left) \div Recovery[c.target]
      [] c.start <= t /\ c.end <= t /\ left <= 0  -> 0

Direct(r, n, k) ==
    Most({DirectOf(c, Minute(k)) : c \in {d \in input[r].components : d.target = n}})

\* A lag that is forgotten.
Undelayed(r, e, k) == IF k = 1 THEN 0 ELSE history[r][k - 1][e.to]

\* The source of an edge as it was `lag` minutes and at least one step ago.
Delayed(r, e, k) ==
    LET source == (Minute(k) - e.lag) \div Step + 1 IN
    CASE source < 1                  -> 0
      [] source \in 1 .. k - 1       -> history[r][source][e.to]
      [] source >= 1 /\ source >= k  -> IF k = 1 THEN 0 ELSE history[r][k - 1][e.to]

Available(r, k) == [n \in Nodes |-> Unit - (IF k = 1 THEN 0 ELSE history[r][k - 1][n])]

\* A sign slip: a substitute counts as far as it is degraded.
ImpactInverted(r, e, k) ==
    Times(Times(e.weight, Delayed(r, e, k)),
          Unit - Redundancy(e, input[r].spare, [n \in Nodes |-> Unit - Available(r, k)[n]]))

Impact(r, e, k) ==
    Times(Times(e.weight, Delayed(r, e, k)),
          Unit - Redundancy(e, input[r].spare, Available(r, k)))

Propagated(r, n, k) == Most({Impact(r, e, k) : e \in Dependencies(Visible(r), n)})

\* The worst channel dominates.
Raw(r, n, k) == Most({Direct(r, n, k), Propagated(r, n, k)})

Effective(r, k) == {a \in input[r].actions : EffectiveAt[a] <= Minute(k)}

Degradation(r, n, k) == Times(Raw(r, n, k), Remaining[Effective(r, k)][n])

\* The edge of the strongest channel, the first by id if several are.
Dominant(r, n, k) ==
    LET strongest == {e \in Dependencies(Visible(r), n) : Impact(r, e, k) = Propagated(r, n, k)}
    IN  CHOOSE e \in strongest : \A f \in strongest : e.id <= f.id

\* An attribution that follows the damage instead of keeping what came first.
LatestAttribution(r, n, k) ==
    CASE Direct(r, n, k) > Threshold -> Incident
      [] Direct(r, n, k) <= Threshold /\ Propagated(r, n, k) > Threshold ->
            [kind |-> "edge", edge |-> Dominant(r, n, k)]
      [] OTHER -> cause[r][n]

\* setdefault: what first exceeds the threshold, before actions damp it, is the cause.
Attribution(r, n, k) ==
    CASE cause[r][n] # Unknown -> cause[r][n]
      [] cause[r][n] = Unknown /\ Direct(r, n, k) > Threshold -> Incident
      [] /\ cause[r][n] = Unknown /\ Direct(r, n, k) <= Threshold
         /\ Propagated(r, n, k) > Threshold -> [kind |-> "edge", edge |-> Dominant(r, n, k)]
      [] OTHER -> Unknown

Advance ==
    LET k == Len(history["base"]) + 1 IN
    /\ k <= Steps
    /\ history' = [r \in Runs |-> Append(history[r], [n \in Nodes |-> Degradation(r, n, k)])]
    /\ cause' = [r \in Runs |-> [n \in Nodes |-> Attribution(r, n, k)]]
    /\ first' = [r \in Runs |-> [n \in Nodes |->
                   IF first[r][n] = 0 /\ Degradation(r, n, k) > Threshold THEN k ELSE first[r][n]]]
    /\ UNCHANGED <<net, input, report>>
-------------------------------------------------------------------------------
(* The report *)

Affected(r) == {n \in Nodes : first[r][n] > 0}

\* An impact that lasts to the horizon has no end.
ImpactEvents(r) ==
    {LET over(k) == Threshold < history[r][k][n]
         last    == Max({k \in 1 .. Steps : over(k)})
     IN  [target |-> n, start |-> Minute(first[r][n]),
          ends |-> IF last < Steps THEN {Minute(last)} ELSE {},
          magnitude |-> Max({history[r][k][n] : k \in 1 .. Steps}),
          cause |-> cause[r][n]] : n \in Affected(r)}

\* A pathway follows edges from a capability over affected nodes it has not passed.
End(n, walk) == IF walk = << >> THEN n ELSE Last(walk).to

Passed(n, walk) == {n} \cup {e.to : e \in ToSet(walk)}

OnwardAnywhere(r, n, walk) ==
    {e \in Dependencies(Visible(r), End(n, walk)) : e.to \notin Passed(n, walk)}

Onward(r, n, walk) ==
    {e \in Dependencies(Visible(r), End(n, walk)) : e.to \in Affected(r) \ Passed(n, walk)}

Walks(r, n) ==
    LET walks[d \in 0 .. MaxDepth] ==
          IF d = 0 THEN {<< >>}
          ELSE UNION {{Append(w, e) : e \in Onward(r, n, w)} : w \in walks[d - 1]}
    IN  UNION {walks[d] : d \in 1 .. MaxDepth}

Strength(walk) == FoldLeft(LAMBDA s, e : Times(s, e.weight), Unit, walk)

\* The walks that end because nothing affected is left; one that would be longer than
\* MaxDepth is given up altogether.
Pathways(r) ==
    UNION {{[from |-> n, edges |-> w, strength |-> Strength(w)] :
              w \in {v \in Walks(r, n) : Onward(r, n, v) = {}}} :
           n \in Capabilities \cap Affected(r)}

\* The strongest ones; equal ones are told apart by the order they were found in.
Strongest(found) ==
    {kept \in SUBSET found :
        /\ Cardinality(kept) = Min({MaxPathways, Cardinality(found)})
        /\ \A p \in kept, q \in found \ kept : p.strength >= q.strength}

ServiceLevel(r, c, k) == Times(Target[c], Unit - history[r][k][c])

BelowTarget(r, c) == {k \in 1 .. Steps : ServiceLevel(r, c, k) < Target[c]}

\* One step after the last one below target, also if that is the last of all.
RecoveredAt(r, c) ==
    IF BelowTarget(r, c) = {} THEN {} ELSE {Minute(Max(BelowTarget(r, c))) + Step}

Metrics(r, c) ==
    LET breached == {k \in 1 .. Steps : ServiceLevel(r, c, k) < Floor[c]} IN
    [least     |-> Min({ServiceLevel(r, c, k) : k \in 1 .. Steps}),
     breach    |-> IF breached = {} THEN {} ELSE {Minute(Min(breached))},
     minutes   |-> Step * Cardinality(breached),
     recovered |-> RecoveredAt(r, c),
     loss      |-> MapThenSumSet(LAMBDA k : Step * (Target[c] - ServiceLevel(r, c, k)), 1 .. Steps)]

Report ==
    /\ Len(history["base"]) = Steps
    /\ report["base"] = NoReport
    /\ \E pathways \in [Runs -> UNION {Strongest(Pathways(r)) : r \in Runs}] :
          /\ \A r \in Runs : pathways[r] \in Strongest(Pathways(r))
          /\ report' = [r \in Runs |->
                          [events |-> ImpactEvents(r), pathways |-> pathways[r],
                           metrics |-> [c \in Capabilities |-> Metrics(r, c)]]]
    /\ UNCHANGED <<net, input, history, first, cause>>

Next == Advance \/ Report

Spec == Init /\ [][Next]_vars
-------------------------------------------------------------------------------
(* Properties *)

\* The types; both runs are at the same step, and nothing is impacted in the future.
TypeOK ==
    /\ net \in Nets /\ input \in Inputs
    /\ history \in [Runs -> Seq([Nodes -> Fractions])]
    /\ Len(history["base"]) <= Steps /\ Len(history["worse"]) = Len(history["base"])
    /\ first \in [Runs -> [Nodes -> 0 .. Len(history["base"])]]
    /\ cause \in [Runs -> [Nodes -> Causes]]

\* More incidents, fewer actions, more of the graph or worse substitutes never make
\* anything better, for any node at any step (propagate.py:21-22,
\* tests/simulation/test_invariants.py), nor in any figure of the report: the floor is
\* not breached later or for less time, nor the target reached again earlier.
Monotone ==
    /\ \A k \in DOMAIN history["base"], n \in Nodes :
          history["base"][k][n] <= history["worse"][k][n]
    /\ \A c \in DOMAIN report["base"].metrics :
          LET base  == report["base"].metrics[c]
              worse == report["worse"].metrics[c] IN
          /\ worse.least <= base.least /\ worse.loss >= base.loss
          /\ worse.minutes >= base.minutes
          /\ \A t \in base.breach : \E u \in worse.breach : u <= t
          /\ \A t \in base.recovered : \E u \in worse.recovered : u >= t

\* Steps a degradation takes over an edge: its lag, and at least one.
Hops(e) == Max({1, (e.lag + Step - 1) \div Step})

\* node -> the first step at which a component can have reached it, by lags alone, over
\* the visible edges.
Arrival(r) ==
    LET strikes(n) == {k \in 1 .. Steps : \E c \in input[r].components :
                                             c.target = n /\ c.start <= Minute(k)}
        arrival[d \in 0 .. Cardinality(Nodes)] ==
          LET closer == IF d = 0 THEN [n \in Nodes |-> Steps + 1] ELSE arrival[d - 1]
          IN  [n \in Nodes |->
                 Min({Steps + 1} \cup strikes(n)
                       \cup {Hops(e) + closer[e.to] : e \in Dependencies(Visible(r), n)})]
    IN  arrival[Cardinality(Nodes)]

\* Damage keeps to the blast radius and to the lags: a node is degraded at a step only
\* if it, or something it depends on, was hit long enough ago for the lags of the
\* visible edges between them.
KeepsItsDistance ==
    \A r \in Runs :
        LET arrival == Arrival(r)
            radius  == Dependents(Visible(r), {c.target : c \in input[r].components})
        IN  \A n \in Nodes :
                LET damaged == {k \in DOMAIN history[r] : history[r][k][n] > 0} IN
                damaged # {} => n \in radius /\ arrival[n] <= Min(damaged)

\* Every affected node has a cause that came first: a component that hits it and has
\* begun, or an edge to a node affected earlier, so following the causes ends at a
\* component (the explanation an impact event gives is never "unknown").
CausesComeFirst ==
    \A r \in Runs : \A n \in Nodes : first[r][n] > 0 =>
        LET why == cause[r][n] IN
        \/ /\ why.kind = "incident"
           /\ \E c \in input[r].components :
                 c.target = n /\ c.start <= Minute(first[r][n])
        \/ /\ why.kind = "edge"
           /\ why.edge \in Dependencies(Visible(r), n)
           /\ first[r][why.edge.to] \in 1 .. first[r][n] - 1

\* The pathways explain the damage: without cycles among the visible edges, each ends
\* at a node some component hit, and the edge an affected capability got its damage
\* over begins one of them, unless weaker ones were cut off or the way is too long.
PathwaysExplain ==
    \A r \in Runs : Acyclic(Arcs(Visible(r))) =>
        /\ \A p \in report[r].pathways : cause[r][Last(p.edges).to] = Incident
        /\ \A event \in report[r].events :
              /\ event.target \in Capabilities /\ event.cause # Incident
              /\ Cardinality(report[r].pathways) < MaxPathways
              /\ Cardinality(Nodes) <= MaxDepth + 1
              => \E p \in report[r].pathways :
                    p.from = event.target /\ Head(p.edges) = event.cause.edge

\* In a graph without cycles everything recovers: once the last component is over, its
\* node has recovered and the longest chain of lags has passed, nothing is degraded.
RecoversInTime ==
    Acyclic(Arcs(net)) =>
        \A r \in Runs :
            LET over   == Most({c.end + Recovery[c.target] : c \in input[r].components})
                chain  == (Cardinality(Nodes) - 1) * Most({Hops(e) : e \in Visible(r)})
            IN  \A k \in DOMAIN history[r] :
                    Minute(k - chain) >= over => \A n \in Nodes : history[r][k][n] = 0
=============================================================================
