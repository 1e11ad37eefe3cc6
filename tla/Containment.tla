------------------------------- MODULE Containment -------------------------------
(***************************************************************************)
(* The choice of containment actions (backend/verine/optimization/): which *)
(* sets of actions the constraints of a scenario admit, what they are      *)
(* worth, and the search for the best one, exhaustive in a small library   *)
(* and greedy in a large one.                                              *)
(*                                                                         *)
(* A decision [library, limits, loss, breaching] is the library of actions *)
(* of a scenario, its constraints, and what the propagation engine finds   *)
(* for each set of actions: the loss of service, and whether the floor is  *)
(* breached.                                                               *)
(***************************************************************************)
EXTENDS Integers, FiniteSets, FiniteSetsExt

CONSTANTS
    Actions,          \* numbered in the order of their ids
    Profile,          \* action -> cost, duration, roles, risk, needs, type, undo, its targets
                      \* and those it names twice
    Weights,          \* of cost, time, collateral and reversibility
    MaxSetSize,       \* actions of a set (3)
    ExhaustiveLimit,  \* largest library that is searched exhaustively (12)
    MaxRunnersUp      \* sets shown next to the chosen one (3)

ASSUME ContainmentAssumption ==
    /\ Actions \subseteq Nat /\ IsFiniteSet(Actions)
    /\ MaxSetSize \in Nat \ {0} /\ ExhaustiveLimit \in Nat /\ MaxRunnersUp \in Nat
    /\ \A a \in Actions :
          /\ Profile[a].cost \in Nat /\ Profile[a].duration \in Nat
          /\ Profile[a].risk \in Nat /\ Profile[a].undo \in 0 .. 100
    /\ \A aspect \in {"undo", "cost", "time", "collateral"} : Weights[aspect] \in Nat

NoSet == {}   \* the empty set of actions is never a candidate

Cost(S) == MapThenSumSet(LAMBDA a : Profile[a].cost, S)
TimeToEffect(S) == Max({0} \cup {Profile[a].duration : a \in S})
Risk(S) == Max({0} \cup {Profile[a].risk : a \in S})

\* The mean reversibility in hundredths; doing nothing can be undone entirely.
Undo(S) ==
    IF S = {} THEN 100
    ELSE MapThenSumSet(LAMBDA a : Profile[a].undo, S) \div Cardinality(S)

\* check_action_set
Feasible(S, limits) ==
    /\ Cost(S) <= limits.budget
    /\ \A a \in S :
          /\ Profile[a].duration <= limits.deadline
          /\ Profile[a].roles \subseteq limits.roles
          /\ Profile[a].risk <= limits.risk
          /\ Profile[a].needs \subseteq limits.facts
          /\ Profile[a].twice = {}
    /\ \A a, b \in S : a # b /\ Profile[a].type = Profile[b].type =>
          Profile[a].targets \cap Profile[b].targets = {}

Utility(S, decision) ==
    Weights.undo * Undo(S) - Weights.cost * Cost(S) - Weights.time * TimeToEffect(S)
      - Weights.collateral * Risk(S) - decision.loss[S]

\* The order of two lists of ids.
Before(S, T) ==
    LET m == Min((S \ T) \cup (T \ S)) IN
    IF m \in S THEN \E a \in T : a > m ELSE \A a \in S : a < m

Precedes(S, T, decision) ==
    \/ Utility(S, decision) > Utility(T, decision)
    \/ Utility(S, decision) = Utility(T, decision) /\ Before(S, T)

\* The best of some sets, and the ones after it.
Chosen(ranked, decision) ==
    IF ranked = {} THEN NoSet
    ELSE CHOOSE S \in ranked : \A T \in ranked \ {S} : Precedes(S, T, decision)

RunnersUp(ranked, decision) ==
    LET others == ranked \ {Chosen(ranked, decision)} IN
    {S \in others : Cardinality({T \in others \ {S} : Precedes(T, S, decision)}) < MaxRunnersUp}

\* Is the chosen set better than doing nothing?
Improves(ranked, decision) ==
    ranked # {} /\ Utility(Chosen(ranked, decision), decision) > Utility({}, decision)
-------------------------------------------------------------------------------
(* The two searches *)

Candidates(library) == {S \in SUBSET library : Cardinality(S) \in 1 .. MaxSetSize}

Evaluated(decision) ==
    {S \in Candidates(decision.library) : Feasible(S, decision.limits)}

Gain(a, picked, decision) ==
    Utility(picked \cup {a}, decision) - Utility(picked, decision)

\* Every action looked at for itself.
AdditionsAlone(picked, decision) ==
    {a \in decision.library \ picked :
        Feasible({a}, decision.limits) /\ Gain(a, picked, decision) > 0}

\* The actions that may join the picked ones and improve on them.
Additions(picked, decision) ==
    {a \in decision.library \ picked :
        Feasible(picked \cup {a}, decision.limits) /\ Gain(a, picked, decision) > 0}

\* The first of those that improve most.
BestAddition(picked, decision) ==
    LET most == Max({Gain(a, picked, decision) : a \in Additions(picked, decision)})
    IN  Min({a \in Additions(picked, decision) : Gain(a, picked, decision) = most})
-------------------------------------------------------------------------------
(* Properties *)

\* Whatever is ranked is feasible; an exhaustive choice is the best there is, a greedy
\* one no better, and never one that a single action more would improve; and doing
\* nothing is only beaten if the set chosen beats it.
BestIsChosen(ranked, decision) ==
    LET chosen == Chosen(ranked, decision)
        best   == Chosen(Evaluated(decision), decision) IN
    /\ ranked \subseteq Evaluated(decision)
    /\ chosen = NoSet =>
          \A a \in decision.library :
             Feasible({a}, decision.limits) => Utility({a}, decision) <= Utility({}, decision)
    /\ Cardinality(decision.library) <= ExhaustiveLimit => chosen = best
    /\ chosen # NoSet /\ Cardinality(decision.library) > ExhaustiveLimit =>
          /\ Utility(chosen, decision) <= Utility(best, decision)
          /\ Improves(ranked, decision)
          /\ Cardinality(chosen) < MaxSetSize =>
                \A S \in Evaluated(decision) :
                   chosen \subseteq S /\ Cardinality(S) = Cardinality(chosen) + 1
                   => Utility(S, decision) <= Utility(chosen, decision)
=============================================================================
