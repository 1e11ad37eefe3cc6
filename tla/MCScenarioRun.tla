------------------------------ MODULE MCScenarioRun ------------------------------
(* Instances of ScenarioRun: graphs with parallel edges, a self-loop, cycles of    *)
(* dependencies and circles of substitutes, and decisions with actions that        *)
(* exclude each other, cost too much or help only together.                        *)
EXTENDS ScenarioRun, TLC

CONSTANTS pay, view, card, bank, backup

Arrow(id, from, to, weight, lag, subs) ==
    [id |-> id, from |-> from, to |-> to, weight |-> weight, lag |-> lag, subs |-> subs]

EdgeSet ==
    {Arrow(1, pay, card, 4, 2, {backup}), Arrow(2, view, card, 2, 0, {pay}),
     Arrow(3, card, bank, 4, 5, {backup}), Arrow(4, card, bank, 3, 1, {}),
     Arrow(5, backup, bank, 2, 3, {card}), Arrow(6, bank, card, 4, 0, {}),
     Arrow(7, view, backup, 3, 4, {}), Arrow(8, bank, bank, 1, 0, {})}

Edge(ids) == {e \in EdgeSet : e.id \in ids}

EdgeStanding == [id \in 1 .. 8 |-> IF id = 4 THEN "inferred" ELSE
                                   IF id = 5 THEN "other" ELSE "observed"]
NodeObservability == card :> 10 @@ bank :> 90 @@ backup :> 70
SpareSet == [n \in Nodes |-> CASE n = backup -> 3 [] n = card -> 2 [] OTHER -> 0]
RecoveryTimes == [n \in Nodes |-> CASE n = bank -> 30 [] n \in Capabilities -> 0 [] OTHER -> 10]

Signal(operational, severity, latency, matches) ==
    [operational |-> operational, severity |-> severity, latency |-> latency,
     matches |-> matches]

Outage == Signal(TRUE, 4, FALSE, {bank})
Slow == Signal(TRUE, 4, TRUE, {bank})
Trouble == Signal(TRUE, 3, FALSE, {card})
Both == Signal(TRUE, 2, FALSE, {backup, bank, card})
Filing == Signal(FALSE, 4, FALSE, {bank})
Elsewhere == Signal(TRUE, 3, FALSE, {})

SignalLists ==
    {<<Outage>>, <<Trouble>>, <<Both, Trouble>>}
    \cup {<<a, b, c>> : a, b, c \in {Outage, Slow, Trouble, Both, Filing, Elsewhere}}
FewSignals == {<<Outage>>, <<Both, Slow>>}

\* Action 1 and 2 exclude each other, 3 needs a fact, 4 is slow and dear, 5 names its
\* target twice.
Actions5 ==
    << [cost |-> 2, duration |-> 1, roles |-> {"ops"}, risk |-> 0, needs |-> {},
        type |-> "failover", targets |-> {card}, twice |-> {}, undo |-> 100],
       [cost |-> 1, duration |-> 2, roles |-> {"ops"}, risk |-> 1, needs |-> {},
        type |-> "failover", targets |-> {card, bank}, twice |-> {}, undo |-> 50],
       [cost |-> 2, duration |-> 1, roles |-> {}, risk |-> 0, needs |-> {"contract"},
        type |-> "throttle", targets |-> {pay}, twice |-> {}, undo |-> 80],
       [cost |-> 3, duration |-> 4, roles |-> {"vendor"}, risk |-> 2, needs |-> {},
        type |-> "reroute", targets |-> {bank}, twice |-> {}, undo |-> 20],
       [cost |-> 0, duration |-> 0, roles |-> {}, risk |-> 0, needs |-> {},
        type |-> "notify", targets |-> {view}, twice |-> {view}, undo |-> 100] >>
AllWeights == [undo |-> 1, cost |-> 10, time |-> 5, collateral |-> 20]

Limit(budget, deadline, roles, risk, facts) ==
    [budget |-> budget, deadline |-> deadline, roles |-> roles, risk |-> risk, facts |-> facts]
LimitSet ==
    {Limit(8, 4, {"ops", "vendor"}, 2, {"contract"}),
     Limit(3, 4, {"ops", "vendor"}, 2, {"contract"}),
     Limit(4, 2, {"ops"}, 1, {}), Limit(8, 2, {"ops"}, 1, {"contract"}), Limit(8, 4, {}, 2, {"contract"}), Limit(0, 1, {}, 0, {})}

\* Losses: every action helps by itself, or only together with another, or not at all.
Apart == [S \in SUBSET (1 .. 5) |-> 400 - 60 * Cardinality(S) - (IF 2 \in S THEN 100 ELSE 0)]
Together == [S \in SUBSET (1 .. 5) |->
                IF {1, 3} \subseteq S THEN 100 ELSE IF 4 \in S THEN 200 ELSE 400]
Useless == [S \in SUBSET (1 .. 5) |-> 400]
Harmless == [S \in SUBSET (1 .. 5) |-> 0]

Decision(library, limits, loss, most) ==
    [library |-> library, limits |-> limits, loss |-> loss,
     breaching |-> {S \in SUBSET (1 .. 5) : loss[S] > most}]
Decisions ==
    {Decision(library, limits, loss, most) :
        library \in {{}, {1, 2, 3}, {1, 3, 4}, {3, 4, 5}, 1 .. 5}, limits \in LimitSet,
        loss \in {Apart, Together, Useless, Harmless}, most \in {150, 350}}
OneDecision == Decision(1 .. 5, Limit(8, 4, {"ops", "vendor"}, 2, {"contract"}), Together, 150)

Outcome(spared, degradation, floor, recovery) ==
    [spared |-> spared, degradation |-> degradation, floor |-> floor, recovery |-> recovery]
OneOutcome == Outcome({}, 2, 10, 60)
SomeOutcomes == {OneOutcome, Outcome({card}, 3, 20, 100), Outcome({pay}, 0, 0, 0),
                 Outcome({pay, card}, 0, 0, 0)}
AllModels == {"reachability", "deterministic", "capacity flow", "monte carlo"}

Once == [n \in Nodes |-> 1]

Run(edges, hidden, signals, decision, models, det, replications) ==
    [net |-> edges, listed |-> Once, hidden |-> hidden, signals |-> signals, decision |-> decision,
     models |-> models, det |-> det, replications |-> replications]

\* Snapshots that list a node twice or leave one out, and edges that share an id.
Lists == {Once, [Once EXCEPT ![backup] = 0], [Once EXCEPT ![card] = 2]}
Twins == {Arrow(1, pay, bank, 1, 0, {}), Arrow(4, card, bank, 2, 1, {})}

\* Every graph, every list of signals, every decision, every combination of results, the
\* others as they are usually.
AllCases ==
    {Run(edges, hidden, signals, OneDecision, AllModels, OneOutcome, <<OneOutcome>>) :
        edges \in SUBSET EdgeSet, hidden \in SUBSET Edge({3, 5}), signals \in FewSignals}
    \cup {Run(Edge({1, 3, 4, 7}), {}, signals, OneDecision, AllModels, OneOutcome, <<OneOutcome>>) :
        signals \in SignalLists}
    \cup {Run(Edge({1, 3, 4, 7}), {}, <<Outage>>, decision, AllModels, det, <<OneOutcome>>) :
        decision \in Decisions, det \in {OneOutcome, Outcome({}, 1, 10, 60)}}
    \cup {Run(edges, hidden, <<Outage>>, OneDecision, models, det, <<a, b, det>>) :
        edges \in {Edge({1, 3}), Edge({1, 2, 3, 4, 5, 7})},
        hidden \in SUBSET Edge({3, 5}), models \in (SUBSET AllModels) \ {{}}, det \in SomeOutcomes,
        a \in SomeOutcomes, b \in SomeOutcomes}
    \cup {[Run(edges, {}, <<Outage>>, OneDecision, AllModels, OneOutcome, <<OneOutcome>>)
              EXCEPT !.listed = listed] :
        edges \in SUBSET (Edge({1, 2, 4, 6, 7}) \cup Twins), listed \in Lists}
ProperCases == {c \in AllCases : c.hidden \subseteq c.net}
=============================================================================
