--------------------------- MODULE HypothesisState ---------------------------
(***************************************************************************)
(* The hypothesis state machine and the evidence quorum: the two pure      *)
(* tables every writer of a hypothesis record goes through                 *)
(* (backend/verine/hypotheses/state.py and quorum.py).                     *)
(*                                                                         *)
(* A hypothesis is a record                                                *)
(*    [state, signals, audit, analysed]                                    *)
(* whose pack and window are its key in the store.  The reason string of a *)
(* transition is always non-empty where the code calls it (the API schema  *)
(* demands min_length 1 and the compiler passes a literal), so only the    *)
(* actor is kept.                                                          *)
(***************************************************************************)
EXTENDS Naturals, Sequences, FiniteSets

Unconfirmed == "UNCONFIRMED"
Observed    == "OBSERVED_EXTERNAL_SIGNAL"
Corroborated == "CORROBORATED"
Relevant    == "OPERATIONALLY_RELEVANT_HYPOTHESIS"
Contested   == "CONTESTED"
Resolved    == "RESOLVED_EXTERNAL_EVENT"
Confirmed   == "USER_CONFIRMED_IMPACT"

STATES == {Unconfirmed, Observed, Corroborated, Relevant, Contested,
           Resolved, Confirmed}

\* The actor name the compiler uses; a transition that needs a human refuses it.
System == "system"

\* What signals alone may do.
AUTO_TRANSITIONS ==
    ({Unconfirmed} \X {Observed, Corroborated, Relevant})
        \cup ({Observed} \X {Corroborated, Relevant})
        \cup {<<Corroborated, Relevant>>, <<Contested, Corroborated>>}
        \cup ({Observed, Corroborated, Relevant} \X {Contested, Resolved})

\* What needs a named human.
HUMAN_TRANSITIONS ==
    {Observed, Corroborated, Relevant, Contested} \X {Confirmed}

Permitted(from, to, actor) ==
    \/ <<from, to>> \in AUTO_TRANSITIONS
    \/ <<from, to>> \in HUMAN_TRANSITIONS /\ actor # System

\* Does transition() return normally, as opposed to raising TransitionError?
CanTransition(hyp, to, actor) ==
    hyp.state = to \/ Permitted(hyp.state, to, actor)

UnauditedTransition(hyp, to, actor) == [hyp EXCEPT !.state = to]

\* The record transition() leaves behind when it returns normally.
Transition(hyp, to, actor) ==
    IF hyp.state = to THEN hyp
    ELSE [hyp EXCEPT !.state = to,
                     !.audit = Append(@, [from  |-> hyp.state,
                                          to    |-> to,
                                          actor |-> actor])]

\* An off-by-one: a single weak source counts as independent corroboration.
OneGroupQuorum(evidence, mapped, contradicted) ==
    CASE contradicted -> Contested
      [] ~contradicted /\ evidence # {} /\ mapped -> Relevant
      [] OTHER -> Unconfirmed

\* evidence is the set of [group, strength] of the attached signals' sources.
QuorumTarget(evidence, mapped, contradicted) ==
    LET corroborated == Cardinality({e.group : e \in evidence}) >= 2
        strong       == \E e \in evidence : e.strength = "strong"
    IN  CASE contradicted                                        -> Contested
          [] ~contradicted /\ mapped /\ (corroborated \/ strong) -> Relevant
          [] ~contradicted /\ ~mapped /\ corroborated            -> Corroborated
          [] ~contradicted /\ ~mapped /\ strong /\ ~corroborated -> Observed
          [] OTHER                                               -> Unconfirmed

=============================================================================
