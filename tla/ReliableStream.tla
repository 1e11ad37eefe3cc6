---------------------------- MODULE ReliableStream ----------------------------
(***************************************************************************)
(* What an event stream promises its clients: events are appended to one   *)
(* sequence, and a client receives every event exactly once, in that       *)
(* order, however often its connection drops.                              *)
(***************************************************************************)
EXTENDS Naturals, Sequences

CONSTANTS Clients, Events

VARIABLES
    stream,    \* the sequence of events
    got        \* client -> number of events of the stream it has received

Init ==
    /\ stream = << >>
    /\ got = [c \in Clients |-> 0]

Publish(e) ==
    /\ stream' = Append(stream, e)
    /\ UNCHANGED got

Receive(c) ==
    /\ got[c] < Len(stream)
    /\ got' = [got EXCEPT ![c] = @ + 1]
    /\ UNCHANGED stream

Next == (\E e \in Events : Publish(e)) \/ (\E c \in Clients : Receive(c))

Spec == Init /\ [][Next]_<<stream, got>>
=============================================================================
