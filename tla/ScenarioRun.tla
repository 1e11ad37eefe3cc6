------------------------------- MODULE ScenarioRun -------------------------------
(***************************************************************************)
(* A hypothesis is analysed: its signals become an incident                *)
(* (IncidentMapping), the snapshot is validated and the structural models  *)
(* run (StructuralModels), containment actions are chosen (Containment),   *)
(* and what the models say is assessed and becomes a case (Assessment).    *)
(* This is execute_scenario of backend/verine/cases/runner.py, behind      *)
(* _run_analysis of api/live_service.py.                                   *)
(*                                                                         *)
(* The propagation engine, whose steps Propagation checks, is taken for    *)
(* what it promises there: damage within the blast radius of the incident, *)
(* and no action makes anything worse.                                     *)
(***************************************************************************)
EXTENDS StructuralModels, IncidentMapping, Containment, Assessment

CONSTANTS
    Capability,      \* the one the scenario is about
    IncidentEnd, Recovery,   \* when the incident is over; node -> its recovery time, 0 for
                             \* a capability, which has none
    Spare,           \* node -> its substitutability
    Cases            \* [net, listed, hidden, signals, decision, models, det, replications]

\* What the propagation engine finds: nodes of the blast radius it spares, the damage done
\* to the capability, and when.
Outcomes == [spared : SUBSET Nodes, degradation : Fractions, floor : Nat, recovery : Nat]

ASSUME RunAssumption ==
    /\ Capability \in Capabilities
    /\ IncidentEnd \in Nat /\ Recovery \in [Nodes -> Nat] /\ Spare \in [Nodes -> Fractions]
    /\ \A c \in Capabilities : Spare[c] = 0 /\ Recovery[c] = 0
    /\ \A c \in Cases :
          /\ c.net \subseteq EdgeOf(Nat, Nat) /\ IsFiniteSet(c.net)
          /\ c.listed \in [Nodes -> Nat] /\ c.hidden \subseteq c.net
          /\ c.signals \in Seq(SignalRecords)
          /\ c.decision.library \subseteq Actions
          /\ \A S \in SUBSET Actions : c.decision.loss[S] \in Nat
          /\ c.models \subseteq {"deterministic", "monte carlo", "capacity flow", "reachability"}
          /\ c.det \in Outcomes /\ c.replications \in Seq(Outcomes)

VARIABLES
    case,      \* what is analysed
    picked,    \* greedy search: the actions picked so far
    ranked,    \* the sets of actions evaluated
    report     \* what the case says, at the end

runVars == <<case, picked, ranked, report>>
vars == <<structuralVars, runVars>>

\* Without components nothing is simulated.
Init ==
    /\ case \in Cases /\ Components(case.signals) # {}
    /\ StructuralInit(case.net, [listed |-> case.listed, hidden |-> case.hidden,
                                 spare |-> Spare, stress |-> Stress(Components(case.signals))])
    /\ picked = {} /\ ranked = {}
    /\ report = None
-------------------------------------------------------------------------------
(* Containment *)

Exhaustive == Cardinality(case.decision.library) <= ExhaustiveLimit

Optimize ==
    /\ phase = "done" /\ Exhaustive
    /\ ranked' = Evaluated(case.decision)
    /\ phase' = "contained"
    /\ UNCHANGED <<net, input, kahn, search, memo, case, picked, report>>

GreedyRound ==
    /\ phase = "done" /\ ~ Exhaustive
    /\ Cardinality(picked) < MaxSetSize /\ Additions(picked, case.decision) # {}
    /\ picked' = picked \cup {BestAddition(picked, case.decision)}
    /\ ranked' = ranked \cup {picked'}
    /\ UNCHANGED <<structuralVars, case, report>>

GreedyEnds ==
    /\ phase = "done" /\ ~ Exhaustive
    /\ Cardinality(picked) = MaxSetSize \/ Additions(picked, case.decision) = {}
    /\ phase' = "contained"
    /\ UNCHANGED <<net, input, kahn, search, memo, runVars>>
-------------------------------------------------------------------------------
(* The results of the models *)

\* A run of the propagation engine that spares some nodes of the blast radius.
Simulated(outcome) ==
    LET affected == reached \ outcome.spared
        hit      == Capability \in affected /\ outcome.degradation > 0 IN
    [degradation |-> IF hit THEN outcome.degradation ELSE 0,
     floor    |-> IF hit /\ outcome.degradation > Tolerated THEN outcome.floor ELSE None,
     recovery |-> IF hit THEN outcome.recovery ELSE None,
     affected |-> IF hit THEN affected ELSE affected \ {Capability}]

Deterministic ==
    IF "deterministic" \in case.models THEN Simulated(case.det) ELSE None

Replications ==
    IF "monte carlo" \in case.models
    THEN [k \in DOMAIN case.replications |-> Simulated(case.replications[k])] ELSE << >>

\* How long damage takes along a chain of edges.
ChainLag(chain) == FoldLeft(LAMBDA lag, e : lag + e.lag, 0, chain)

CapacityFlow ==
    LET lost == Unit - memo[Capability] IN
    [degradation |-> lost,
     floor    |-> IF lost > Tolerated THEN ChainLag(Bottleneck(Capability)) ELSE None,
     recovery |-> IF Targets = {} THEN None ELSE IncidentEnd + Recovery[Root(Capability)],
     affected |-> {n \in DOMAIN memo : 20 * memo[n] < 19 * Unit}]

Reachability ==
    [degradation |-> None, floor |-> None, recovery |-> None, affected |-> reached]

Result(model) ==
    CASE model = "deterministic" -> Deterministic
      [] model = "monte carlo" -> MonteCarlo(Replications)
      [] model = "capacity flow" -> CapacityFlow
      [] model = "reachability" -> Reachability
-------------------------------------------------------------------------------
(* The case *)

\* Unless the deterministic model ran, no node counts as affected.
Affected == IF Deterministic = None THEN {} ELSE Deterministic.affected

\* onPathway are nodes of the three worst pathways.
Assess(onPathway) ==
    LET results  == [model \in case.models |-> Result(model)]
        areas    == Areas(results)
        unknowns == Unknowns(net, input.hidden, Affected)
        chosen   == Chosen(ranked, case.decision)
        epistemic == Epistemic(net, input.hidden) IN
    /\ phase = "contained"
    /\ \E asked \in Leading(Requests(net, unknowns, areas, onPathway)) :
          report' =
            [results |-> results, overall |-> Overall(areas), unknowns |-> unknowns,
             asked |-> asked, epistemic |-> epistemic,
             label |-> Reliability(epistemic, Overall(areas), Seen(Affected)),
             sets  |-> IF ranked = {} THEN {}
                       ELSE {chosen} \cup RunnersUp(ranked, case.decision),
             status |-> Status(Deterministic, chosen # NoSet, chosen \in case.decision.breaching,
                               case.decision.loss[{}], case.decision.loss[chosen]),
             clock |-> [m \in {"floor", "recovery"} |->
                          Interval(Replications, Deterministic, m)]]
    /\ phase' = "reported"
    /\ UNCHANGED <<net, input, kahn, search, memo, case, picked, ranked>>

Next ==
    \/ StructuralNext /\ UNCHANGED runVars
    \/ Optimize \/ GreedyRound \/ GreedyEnds
    \/ \E onPathway \in SUBSET Affected : Assess(onPathway)

Spec == Init /\ [][Next]_vars
-------------------------------------------------------------------------------
(* Properties *)

Reported == phase = "reported"

\* The incident that is simulated is what the signals say (mapping.py:50): the most
\* severe operational signal of every node, nothing lost between simulation and
\* context; and no candidate edge is proposed that is observed, or that rests on one
\* node alone (shadow.py:3-7).
MappingIsFair ==
    /\ StrongestWins(case.signals) /\ NothingDropped(case.signals)
    /\ SharedOnly(net, {e \in net : Standing[e.id] = "observed"}, case.signals)

\* The set of actions a case recommends is feasible with its runners-up, the best of the
\* small library, and of a large one the end of a search that checked every set it
\* built, not only the actions it added (exhaustive.py, greedy.py).
ContainmentIsBest ==
    phase = "contained" => BestIsChosen(ranked, case.decision)

\* Hidden edges increase what is reported as unknown (unknowns.py:3-5): with fewer of
\* them hidden the same graph would be reported as better known, and as no less
\* reliable, as long as the affected nodes are the same.  In a large graph hundredths
\* need not tell one edge more from none.
HidingIsReported ==
    Reported => \A fewer \in (SUBSET input.hidden) \ {input.hidden} :
        LET known == Epistemic(net, fewer) IN
        /\ Unknown("undisclosed", None) \in report.unknowns
        /\ report.epistemic >= known
        /\ report.epistemic > known \/ known = 100 \/ Cardinality(net) > 30
        /\ report.label >= Reliability(known, report.overall, Seen(Affected))

\* A case holds against its parts (runner.py, disagreement.py:1): the disagreement it
\* reports is at least the difference of any two models in the degradation, and all of it
\* when one of them sees the floor breached or a recovery and the other none, so that a
\* missing figure never hides it; models that affect different nodes disagree; prevented means that the chosen actions are
\* feasible and keep the floor; the clock's intervals are ordered; and what is unknown
\* is asked for unless only better requests are shown.
CaseIsHonest ==
    Reported =>
        /\ \A m, n \in Quantified(report.results) :
              Percent(report.results[m].degradation - report.results[n].degradation, Unit)
                <= report.overall
        /\ \A m, n \in Quantified(report.results), metric \in {"floor", "recovery"} :
              (report.results[m][metric] = None) # (report.results[n][metric] = None)
                => report.overall = 100
        /\ \A m, n \in DOMAIN report.results :
              report.results[m].affected # report.results[n].affected => report.overall > 0
        /\ report.status = "prevented" =>
              \E S \in report.sets : Feasible(S, case.decision.limits)
                                     /\ S \notin case.decision.breaching
        /\ \A m \in DOMAIN report.clock : report.clock[m] # None =>
              /\ report.clock[m].low <= report.clock[m].median
              /\ report.clock[m].median <= report.clock[m].high
        /\ \A u \in report.unknowns :
              \/ u.kind = "low confidence"
              \/ \E request \in report.asked : request.subject = u
              \/ /\ Cardinality(report.asked) = MaxRequests
                 /\ \A request \in report.asked : 2 * request.score >= Worth[u.kind] - 1
=============================================================================
