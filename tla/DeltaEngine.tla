------------------------------ MODULE DeltaEngine ------------------------------
(***************************************************************************)
(* The delta engine of one connector with its bounded cursor               *)
(* (backend/verine/signals/delta.py), and the source it looks at.          *)
(*                                                                         *)
(* A cursor is a dictionary from event to content hash.  Python keeps the  *)
(* order in which keys were first inserted, and the bound drops the keys   *)
(* inserted first, so the cursor is a sequence of [event, hash] here.  A   *)
(* source lists its current events in an order of its own.  LiveConnector  *)
(* polls it.                                                               *)
(***************************************************************************)
EXTENDS Naturals, Sequences, SequencesExt

CONSTANTS
    Bound,        \* entries a cursor keeps (500 in the code)
    FeedLength,   \* entries the source lists
    MaxEvents, MaxVersion   \* bounds of the model

ASSUME DeltaAssumption ==
    Bound \in Nat /\ FeedLength \in Nat
    /\ MaxEvents \in Nat /\ MaxVersion \in Nat \ {0}

Events == 1 .. MaxEvents     \* numbered in order of publication
Signals == [event : Events, hash : 1 .. MaxVersion]

VARIABLES
    newestFirst,  \* does the source list its newest event first?
    feed,         \* what the source lists, oldest first: events and their version
    published     \* number of events published so far

sourceVars == <<newestFirst, feed, published>>
-------------------------------------------------------------------------------
(* apply_delta *)

Hash(cursor, event) ==
    IF \E k \in DOMAIN cursor : cursor[k].event = event
    THEN cursor[CHOOSE k \in DOMAIN cursor : cursor[k].event = event].hash
    ELSE 0

\* One signal of the loop: unseen, changed (its key keeps its place), suppressed.
Notice(delta, s) ==
    CASE Hash(delta.seen, s.event) = 0 ->
            [seen |-> Append(delta.seen, s), fresh |-> delta.fresh \cup {s}]
      [] Hash(delta.seen, s.event) \notin {0, s.hash} ->
            [seen  |-> [k \in DOMAIN delta.seen |->
                          IF delta.seen[k].event = s.event THEN s ELSE delta.seen[k]],
             fresh |-> delta.fresh \cup {s}]
      [] OTHER -> delta

\* A slip of the bound: it keeps the oldest.
EvictedNewest(cursor) == IF Len(cursor) > Bound THEN SubSeq(cursor, 1, Bound) ELSE cursor

Evicted(cursor) ==
    IF Len(cursor) > Bound THEN SubSeq(cursor, Len(cursor) - Bound + 1, Len(cursor))
    ELSE cursor

ApplyDelta(listing, cursor) ==
    LET delta == FoldLeft(Notice, [seen |-> cursor, fresh |-> {}], listing)
    IN  [delta EXCEPT !.seen = Evicted(@)]
-------------------------------------------------------------------------------
(* The source *)

SourceInit ==
    /\ newestFirst \in BOOLEAN
    /\ feed = << >>
    /\ published = 0

Listing == IF newestFirst THEN Reverse(feed) ELSE feed

\* The source lists a new event and no longer the oldest one.
Publish ==
    /\ published < MaxEvents
    /\ published' = published + 1
    /\ LET longer == Append(feed, [event |-> published + 1, version |-> 1])
       IN  feed' = IF Len(longer) > FeedLength THEN Tail(longer) ELSE longer
    /\ UNCHANGED newestFirst

\* An event it lists changes.
Revise(k) ==
    /\ feed[k].version < MaxVersion
    /\ feed' = [feed EXCEPT ![k].version = @ + 1]
    /\ UNCHANGED <<newestFirst, published>>
=============================================================================
