------------------------------- MODULE EventLog -------------------------------
(***************************************************************************)
(* The append-only event log of one stream and its SSE clients             *)
(* (backend/verine/streams/events.py).                                     *)
(*                                                                         *)
(* An append scans the file for the sequence number of its last line and   *)
(* then writes one line with the next number; the lock table of the class  *)
(* is never used, so between the two another thread may append.  A client  *)
(* that reconnects sends the id of the last frame it received; the server  *)
(* keeps its own cursor while a connection lasts.  Heartbeats carry no     *)
(* event and are left out.                                                 *)
(***************************************************************************)
EXTENDS Integers, Sequences, FiniteSets

CONSTANTS
    Writers,      \* threads that append: the event loop and the thread pool
    Clients,
    Limit,        \* records per read_since of a connection (100 in the code)
    MaxEvents,    \* bound of the model: calls of append
    MaxTears      \* bound of the model: writes cut short by a power failure

ASSUME EventLogAssumption ==
    Limit \in Nat \ {0} /\ MaxEvents \in Nat /\ MaxTears \in Nat

VARIABLES
    log,       \* the lines of the file: [seq, event]
    calls,     \* number of append calls so far; it names the event of a call
    writer,    \* thread -> the append it is in
    server,    \* client -> its connection: cursor and lines yet to arrive
    client,    \* client -> what it has received
    tears      \* > 0: the last line is cut short and no longer parses

vars == <<log, calls, writer, server, client, tears>>

Records == [seq : Nat, event : 1 .. MaxEvents]
IdleWriter == [pc |-> "idle", seq |-> 0, event |-> 0]
Disconnected == [open |-> FALSE, after |-> 0, wire |-> {}]

Init ==
    /\ log = << >>
    /\ calls = 0
    /\ writer = [w \in Writers |-> IdleWriter]
    /\ server = [c \in Clients |-> Disconnected]
    /\ client = [c \in Clients |-> [last |-> 0, received |-> << >>]]
    /\ tears = 0
-------------------------------------------------------------------------------
(* append *)

\* A scan that stops one line early: the bug of a reader that skips a last line.
StaleLastSeq == IF Len(log) <= 1 THEN 0 ELSE log[Len(log) - 1].seq

LastSeq == IF log = << >> THEN 0 ELSE log[Len(log)].seq

\* json.loads raises on a line that was cut short, so append does too.
AppendReads(w) ==
    /\ writer[w].pc = "idle" /\ calls < MaxEvents /\ tears = 0
    /\ calls' = calls + 1
    /\ writer' = [writer EXCEPT ![w] =
                    [pc |-> "writing", seq |-> LastSeq + 1, event |-> calls + 1]]
    /\ UNCHANGED <<log, server, client, tears>>

AppendWrites(w) ==
    /\ writer[w].pc = "writing"
    /\ log' = Append(log, [seq |-> writer[w].seq, event |-> writer[w].event])
    /\ writer' = [writer EXCEPT ![w] = IdleWriter]
    /\ UNCHANGED <<calls, server, client, tears>>
-------------------------------------------------------------------------------
(* read_since and sse_stream *)

\* A cursor comparison that is off by one.
SkippingLater(after) == {k \in 1 .. Len(log) : log[k].seq > after + 1}

\* The positions of the lines past a cursor.
Later(after) == {k \in 1 .. Len(log) : log[k].seq > after}

\* The first Limit of them, in file order.
ReadSince(after) ==
    {k \in Later(after) : Cardinality({j \in Later(after) : j <= k}) <= Limit}

Last(positions) == CHOOSE k \in positions : \A j \in positions : j <= k
First(positions) == CHOOSE k \in positions : \A j \in positions : k <= j

ConnectFromZero(c) ==
    /\ ~ server[c].open
    /\ server' = [server EXCEPT ![c] = [open |-> TRUE, after |-> 0, wire |-> {}]]
    /\ UNCHANGED <<log, calls, writer, client, tears>>

\* Last-Event-ID is the id of the last frame the client received.
Connect(c) ==
    /\ ~ server[c].open
    /\ server' = [server EXCEPT ![c] =
                    [open |-> TRUE, after |-> client[c].last, wire |-> {}]]
    /\ UNCHANGED <<log, calls, writer, client, tears>>

\* One turn of the generator: the lines read are yielded one after another and
\* the cursor follows them, whether or not they arrive.
Send(c) ==
    LET batch == ReadSince(server[c].after) IN
    /\ server[c].open /\ server[c].wire = {} /\ tears = 0
    /\ batch # {}
    /\ server' = [server EXCEPT ![c] =
                    [open |-> TRUE, after |-> log[Last(batch)].seq, wire |-> batch]]
    /\ UNCHANGED <<log, calls, writer, client, tears>>

Receive(c) ==
    LET frame == First(server[c].wire) IN
    /\ server[c].open /\ server[c].wire # {}
    /\ client' = [client EXCEPT ![c] =
                    [last     |-> log[frame].seq,
                     received |-> Append(@.received, log[frame].event)]]
    /\ server' = [server EXCEPT ![c].wire = @ \ {frame}]
    /\ UNCHANGED <<log, calls, writer, tears>>

\* A client goes away, a server restarts, or the log does not parse: what was on
\* the wire is lost.
Drop(c) ==
    /\ server[c].open
    /\ server' = [server EXCEPT ![c] = Disconnected]
    /\ UNCHANGED <<log, calls, writer, client, tears>>

\* The process dies; an append that had not written is gone.
Crash ==
    /\ writer' = [w \in Writers |-> IdleWriter]
    /\ server' = [c \in Clients |-> Disconnected]
    /\ UNCHANGED <<log, calls, client, tears>>

\* The machine dies within a write: part of a line stays at the end of the file.
Tear(w) ==
    /\ tears < MaxTears /\ writer[w].pc = "writing"
    /\ tears' = tears + 1
    /\ writer' = [v \in Writers |-> IdleWriter]
    /\ server' = [c \in Clients |-> Disconnected]
    /\ UNCHANGED <<log, calls, client>>

Next ==
    \/ \E w \in Writers : AppendReads(w) \/ AppendWrites(w) \/ Tear(w)
    \/ \E c \in Clients : Connect(c) \/ Send(c) \/ Receive(c) \/ Drop(c)
    \/ Crash

Spec == Init /\ [][Next]_vars

\* A client reconnects, a connected one is served, and connections do not drop
\* for ever between two frames.
Fairness == \A c \in Clients : WF_vars(Connect(c)) /\ SF_vars(Send(c)) /\ SF_vars(Receive(c))

FairSpec == Spec /\ Fairness
-------------------------------------------------------------------------------
(* Properties *)

\* Every variable keeps its type.
TypeOK ==
    /\ log \in Seq(Records)
    /\ calls \in 0 .. MaxEvents
    /\ writer \in [Writers -> [pc : {"idle", "writing"}, seq : Nat, event : 0 .. MaxEvents]]
    /\ server \in [Clients -> [open : BOOLEAN, after : Nat, wire : SUBSET (1 .. Len(log))]]
    /\ client \in [Clients -> [last : Nat, received : Seq(1 .. MaxEvents)]]
    /\ tears \in 0 .. MaxTears

\* Sequence numbers are unique (events.py:3, test_live_pipeline.py:87).
UniqueSeqs == \A j, k \in 1 .. Len(log) : j # k => log[j].seq # log[k].seq

\* The number of a line is its position: unique, increasing and without a gap,
\* across crashes, as long as one thread appends.
SeqIsPosition == \A k \in 1 .. Len(log) : log[k].seq = k

\* A client has received exactly the first lines of the file, each once and in
\* order, wherever its connections dropped.
ClientSeesPrefix ==
    \A c \in Clients :
        /\ Len(client[c].received) <= Len(log)
        /\ \A k \in 1 .. Len(client[c].received) : client[c].received[k] = log[k].event

\* The same promise as an abstract stream.
Stream == INSTANCE ReliableStream WITH
    Events <- 1 .. MaxEvents,
    stream <- [k \in 1 .. Len(log) |-> log[k].event],
    got    <- [c \in Clients |-> Len(client[c].received)]

ImplementsStream == Stream!Spec

\* A client that keeps coming back receives every line that was ever written, as long
\* as the log parses: a torn line stops every read.
EverythingArrives ==
    \A c \in Clients, n \in 1 .. MaxEvents :
        Len(log) >= n ~> Len(client[c].received) >= n \/ tears > 0
=============================================================================
