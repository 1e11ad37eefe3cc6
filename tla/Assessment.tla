-------------------------------- MODULE Assessment --------------------------------
(***************************************************************************)
(* What a run says about its models: their results side by side            *)
(* (backend/verine/evaluation/compare.py, models/monte_carlo.py), how far  *)
(* they disagree (evaluation/disagreement.py), what is not known           *)
(* (evaluation/unknowns.py, common/uncertainty.py), which evidence to ask  *)
(* for (evidence/value.py), when the floor may be reached                  *)
(* (analysis/cascade.py) and the status of the capability                  *)
(* (cases/runner.py).                                                      *)
(*                                                                         *)
(* A result [degradation, floor, recovery, affected] holds the largest     *)
(* degradation of the capability, the minutes until its floor is breached  *)
(* and until it has recovered, and the nodes affected.  Scores are in      *)
(* hundredths, rounded down.                                               *)
(***************************************************************************)
EXTENDS DependencyGraph, Sequences

CONSTANTS
    Standing,        \* edge id -> "observed", "inferred" or "other"
    Doubtful,        \* ids of the edges with a confidence below 0.7
    Observability,   \* node that is no capability -> its observability
    Tolerated,       \* largest degradation of the capability that keeps its floor
    Horizon,         \* minutes
    MaxRequests,     \* requests for evidence that are shown (10)
    None

ASSUME AssessmentAssumption ==
    /\ Tolerated \in Fractions /\ Horizon \in Nat \ {0} /\ MaxRequests \in Nat
    /\ DOMAIN Observability \subseteq Nodes
    /\ \A n \in DOMAIN Observability : Observability[n] \in 0 .. 100
    /\ None \notin Nat

Percent(part, whole) == (100 * part) \div whole
-------------------------------------------------------------------------------
(* Monte Carlo: replications of a propagation and their quantiles *)

\* Replications that have no such value are left out.
Given(values) == {k \in DOMAIN values : values[k] # None}

\* The k-th smallest of the values: the least one that k of them do not exceed.
Nth(values, k) ==
    LET Below(i) == {j \in Given(values) : values[j] <= values[i]}
    IN  Min({values[i] : i \in {j \in Given(values) : Cardinality(Below(j)) >= k}})

\* Interpolated between the neighbours of its position.
Quantile(values, q) ==
    LET last     == Cardinality(Given(values)) - 1
        position == (q * last) \div 100
        share    == (q * last) % 100
        low      == Nth(values, position + 1)
        high     == Nth(values, Min({position + 2, last + 1}))
    IN  (low * (100 - share) + high * share) \div 100

Aggregate(values) ==
    IF Given(values) = {} THEN None
    ELSE [low |-> Quantile(values, 10), median |-> Quantile(values, 50),
          high |-> Quantile(values, 90)]

Column(replications, metric) == [k \in DOMAIN replications |-> replications[k][metric]]

Median(replications, metric) ==
    LET aggregate == Aggregate(Column(replications, metric))
    IN  IF aggregate = None THEN None ELSE aggregate.median

\* The medians, and the nodes affected in at least half of the replications.
MonteCarlo(replications) ==
    [degradation |-> Median(replications, "degradation"),
     floor |-> Median(replications, "floor"), recovery |-> Median(replications, "recovery"),
     affected |-> {n \in Nodes :
        2 * Cardinality({k \in DOMAIN replications : n \in replications[k].affected})
          >= Len(replications)}]

\* The interval the cascade clock shows: quantiles if there are any, else the point of
\* the deterministic run.
Interval(replications, det, metric) ==
    LET aggregate == Aggregate(Column(replications, metric)) IN
    CASE aggregate # None -> aggregate
      [] aggregate = None /\ det # None /\ det[metric] # None ->
            [low |-> det[metric], median |-> det[metric], high |-> det[metric]]
      [] OTHER -> None
-------------------------------------------------------------------------------
(* Disagreement between the results of the models that ran *)

Metrics == {"degradation", "floor", "recovery"}
Scale == [degradation |-> Unit, floor |-> Horizon, recovery |-> Horizon]

\* Only what both models have a figure for instead.
DiffOfFigures(a, b, scale) ==
    IF None \in {a, b} THEN 0 ELSE Min({100, Percent(Max({a - b, b - a}), scale)})

\* A figure against none is the largest difference there is.
NormalizedDiff(a, b, scale) ==
    CASE a = None /\ b = None -> 0
      [] (a = None) # (b = None) -> 100
      [] a # None /\ b # None ->
            Min({100, Percent(Max({a - b, b - a}), scale)})

Jaccard(a, b) ==
    IF a \cup b = {} THEN 0
    ELSE 100 - Percent(Cardinality(a \cap b), Cardinality(a \cup b))

\* Reachability gives no figures.
Quantified(results) == {m \in DOMAIN results : results[m].degradation # None}

Areas(results) ==
    [metric \in Metrics \cup {"affected"} |->
        IF metric = "affected"
        THEN Most({Jaccard(results[m].affected, results[n].affected) :
                      m \in DOMAIN results, n \in DOMAIN results})
        ELSE Most({NormalizedDiff(results[m][metric], results[n][metric], Scale[metric]) :
                      m \in Quantified(results), n \in Quantified(results)})]

Overall(areas) == Max({areas[metric] : metric \in DOMAIN areas})
-------------------------------------------------------------------------------
(* What is not known *)

Unknown(kind, subject) == [kind |-> kind, subject |-> subject]

Unknowns(edges, hidden, affected) ==
    {Unknown("undisclosed", None) : h \in hidden}
    \cup {Unknown("inferred edge", e.id) :
             e \in {f \in edges \ hidden : Standing[f.id] = "inferred"}}
    \cup {Unknown("low confidence", e.id) :
             e \in {f \in edges \ hidden : Standing[f.id] # "inferred" /\ f.id \in Doubtful}}
    \cup {Unknown("low observability", n) :
             n \in {m \in affected \cap DOMAIN Observability : Observability[m] < 60}}

\* What the models do not see left out of the account.
EpistemicOfVisible(edges, hidden) ==
    LET unobserved == {e \in edges \ hidden : Standing[e.id] # "observed"}
    IN  Min({100, 15 + (60 * Cardinality(unobserved)) \div Max({1, Cardinality(edges)})})

Epistemic(edges, hidden) ==
    LET unobserved == {e \in edges \ hidden : Standing[e.id] # "observed"}
    IN  Min({100, 15 + (90 * Cardinality(hidden) + 60 * Cardinality(unobserved))
                         \div Max({1, Cardinality(edges)})})

\* The mean observability of the affected nodes.
Seen(affected) ==
    LET nodes == affected \cap DOMAIN Observability IN
    IF nodes = {} THEN 100
    ELSE MapThenSumSet(LAMBDA n : Observability[n], nodes) \div Cardinality(nodes)

\* reliability_label: 0 is reasonable, 1 limited, 2 weak.
Reliability(epistemic, disagreement, seen) ==
    LET worst == Max({epistemic, disagreement, 100 - seen})
    IN  IF worst < 20 THEN 0 ELSE IF worst < 45 THEN 1 ELSE 2
-------------------------------------------------------------------------------
(* Requests for evidence *)

\* What a request about a node on a pathway is worth; nothing is asked about an edge
\* of low confidence.
Worth == [k \in {"inferred edge", "undisclosed", "low observability"} |->
    CASE k = "inferred edge" -> 204 [] k = "undisclosed" -> 55 [] k = "low observability" -> 120]

\* The node an unknown is about: the dependency of an edge, the node itself.
About(edges, u) ==
    IF \E e \in edges : u.subject = e.id
    THEN (CHOOSE e \in edges : u.subject = e.id).to ELSE u.subject

Requests(edges, unknowns, areas, onPathway) ==
    {[subject |-> u,
      score |-> IF About(edges, u) \in onPathway THEN Worth[u.kind] ELSE Worth[u.kind] \div 2] :
        u \in {v \in unknowns : v.kind \in DOMAIN Worth}}
    \cup {[subject |-> Unknown("disagreement", metric), score |-> areas[metric]] :
        metric \in {m \in DOMAIN areas : areas[m] >= 15}}

\* The ones that score highest; equal ones are told apart by their wording.
Leading(requests) ==
    {kept \in SUBSET requests :
        /\ Cardinality(kept) = Min({MaxRequests, Cardinality(requests)})
        /\ \A p \in kept, q \in requests \ kept : p.score >= q.score}
-------------------------------------------------------------------------------
(* The status of the capability *)

\* det is the deterministic result, if that model ran; chosen says whether a set of
\* actions was chosen, breaching whether the floor is breached with it, without and
\* with are the losses.
Status(det, chosen, breaching, without, with) ==
    CASE det = None \/ det.degradation = 0 -> "no material impact"
      [] det # None /\ det.degradation > 0 /\ det.floor = None -> "contained"
      [] det # None /\ det.degradation > 0 /\ det.floor # None ->
            IF chosen /\ ~ breaching THEN "prevented"
            ELSE IF chosen /\ without > 0 /\ 5 * (without - with) >= without THEN "partial"
            ELSE "uncertain"
=============================================================================
