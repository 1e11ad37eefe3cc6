---------------------------- MODULE MCPropagation ----------------------------
(* Instances of Propagation: a capability that depends on two services, one of which *)
(* has a substitute that depends on the other.                                       *)
EXTENDS Propagation, TLC

CONSTANTS pay, card, bank, backup

\* The capability needs card and bank; card needs bank; the backup, which stands in for
\* card, needs bank too, and bank may need the backup: a cycle.
EdgeSet ==
    {[id |-> 1, from |-> pay,    to |-> card, weight |-> 4, lag |-> 0, subs |-> {backup}],
     [id |-> 2, from |-> pay,    to |-> bank, weight |-> 3, lag |-> 5, subs |-> {}],
     [id |-> 3, from |-> card,   to |-> bank, weight |-> 4, lag |-> 2, subs |-> {}],
     [id |-> 4, from |-> backup, to |-> bank, weight |-> 2, lag |-> 3, subs |-> {}],
     [id |-> 5, from |-> bank,   to |-> backup, weight |-> 3, lag |-> 1, subs |-> {}]}

AllNets == SUBSET EdgeSet

ComponentSet ==
    {[target |-> bank, severity |-> 4, start |-> 0, end |-> 4],
     [target |-> bank, severity |-> 3, start |-> 1, end |-> 3],
     [target |-> backup, severity |-> 3, start |-> 6, end |-> 11],
     [target |-> card, severity |-> 2, start |-> 4, end |-> 9]}

RecoveryTimes == pay :> 0 @@ card :> 3 @@ bank :> 4 @@ backup :> 0

\* Two actions of different strength on the capability and on card.
Failover == "failover"
Throttle == "throttle"
BothActions == {Failover, Throttle}
EffectTimes == Failover :> 4 @@ Throttle :> 8

LeftOver ==
    [S \in SUBSET BothActions |->
        [n \in Nodes |-> Times(IF Failover \in S /\ n = card THEN 2 ELSE Unit,
                               IF Throttle \in S /\ n \in {card, pay} THEN 3 ELSE Unit)]]

\* The capability has a floor of half its target.
Levels == pay :> 4
Floors == pay :> 2

\* Pairs of runs that differ in one kind of input at a time, and in all of them.
Full == [components |-> ComponentSet, actions |-> {}, hidden |-> {},
         spare |-> [n \in Nodes |-> IF n = backup THEN 2 ELSE 0]]
Spared == [n \in Nodes |-> IF n = backup THEN 3 ELSE 0]

Bases ==
    {[components |-> C, actions |-> A, hidden |-> H, spare |-> Spared] :
        C \in SUBSET ComponentSet, A \in {{}, BothActions},
        H \in {h \in SUBSET EdgeSet : Cardinality(h) <= 1}}

AllPairs ==
    {[r \in Runs |-> IF r = "base" THEN b ELSE w] :
        b \in {x \in Bases : x.components # {}}, w \in {Full}}
=============================================================================
