-------------------------- MODULE HypothesisLifecycle --------------------------
(***************************************************************************)
(* What the pipeline promises about a hypothesis, whoever writes it: its   *)
(* state moves along one legal transition at a time, and a human's         *)
(* confirmation is final.  An id may be opened again after it was          *)
(* resolved, because it is derived from the pack and the second of the     *)
(* first signal (live_service.py _compile).                                *)
(***************************************************************************)
EXTENDS HypothesisState

CONSTANTS Ids, Absent

VARIABLE status    \* hypothesis id -> its state, or Absent

Init == status = [id \in Ids |-> Absent]

\* A new record is stored after at most one move of the compiler.
Create(id) ==
    /\ status[id] \in {Absent, Resolved}
    /\ \E to \in STATES :
          /\ to = Unconfirmed \/ <<Unconfirmed, to>> \in AUTO_TRANSITIONS
          /\ status' = [status EXCEPT ![id] = to]

Move(id) ==
    \E to \in STATES :
        /\ <<status[id], to>> \in AUTO_TRANSITIONS \cup HUMAN_TRANSITIONS
        /\ status' = [status EXCEPT ![id] = to]

Next == \E id \in Ids : Create(id) \/ Move(id)

Spec == Init /\ [][Next]_status
=============================================================================
