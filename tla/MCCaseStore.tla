------------------------------ MODULE MCCaseStore ------------------------------
(* Instances of CaseStore: one snapshot id and one incident id, each with two *)
(* contents or three, of which two have one effect; the incident is seeded.   *)
EXTENDS CaseStore, TLC

CONSTANTS outage, outageRenamed, fire, i1, g1, a, b, wait, failover

SeededIncident == i1 :> outage

TwoEffects == outage :> "payments down" @@ outageRenamed :> "payments down"
                  @@ fire :> "everything down"

CaseOf(actions, graph) ==
    [scenario |-> [graph |-> g1, incident |-> i1, actions |-> actions], graph |-> graph,
     effect |-> "payments down"]

\* Under the id of a case of the service, a client posts that case over again, with a
\* scenario that is not its own (and need not be stored), or with other hashes.
PostedCases ==
    {[id |-> CaseOf(wait, a), scenario |-> CaseOf(actions, a).scenario,
      hashes |-> CaseOf(wait, graph)] : actions \in {wait, failover}, graph \in {a, b}}
===============================================================================
