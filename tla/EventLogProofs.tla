---------------------------- MODULE EventLogProofs ----------------------------
(***************************************************************************)
(* With one appending thread, the event log is a reliable stream: for any  *)
(* number of clients, any batch limit, and any connection drops and        *)
(* crashes.                                                                *)
(***************************************************************************)
EXTENDS EventLog, FiniteSetTheorems, SequenceTheorems, TLAPS

OneWriter == \A v, w \in Writers : v = w

\* An append in flight holds the number of the next line, because nobody else
\* can have appended since it scanned the file.
WriterHoldsNext ==
    \A w \in Writers : writer[w].pc = "writing" =>
        writer[w].seq = Len(log) + 1 /\ writer[w].event \in 1 .. MaxEvents

\* What is on the wire is exactly the lines between what the client has and the
\* server's cursor.
WireIsNext ==
    \A c \in Clients :
        /\ client[c].last = Len(client[c].received)
        /\ server[c].after <= Len(log)
        /\ server[c].open => server[c].wire = (client[c].last + 1) .. server[c].after
        /\ server[c].open => client[c].last <= server[c].after

IInv == TypeOK /\ SeqIsPosition /\ ClientSeesPrefix /\ WriterHoldsNext /\ WireIsNext
-------------------------------------------------------------------------------
\* Where numbers are positions, a read past the cursor returns the next lines, at
\* most Limit of them (events.py read_since).
LEMMA ReadsNext ==
    ASSUME TypeOK, SeqIsPosition, NEW after \in 0 .. Len(log), ReadSince(after) # {}
    PROVE  \E n \in (after + 1) .. Len(log) :
              ReadSince(after) = (after + 1) .. n /\ Last(ReadSince(after)) = n
<1>1. Len(log) \in Nat /\ Limit \in Nat \ {0}
  BY EventLogAssumption, LenProperties DEF TypeOK
<1>2. Later(after) = (after + 1) .. Len(log)
  BY <1>1 DEF Later, SeqIsPosition
<1>3. ASSUME NEW k \in Later(after)
      PROVE  Cardinality({j \in Later(after) : j <= k}) = k - after
  <2>1. {j \in Later(after) : j <= k} = (after + 1) .. k
    BY <1>1, <1>2
  <2>2. Cardinality((after + 1) .. k) = k - after
    BY <1>1, <1>2, FS_Interval
  <2>3. QED
    BY <2>1, <2>2
<1>4. ReadSince(after) = {k \in (after + 1) .. Len(log) : k - after <= Limit}
  BY <1>2, <1>3 DEF ReadSince
<1>5. after < Len(log)
  BY <1>1, <1>4
<1> DEFINE n == IF Len(log) <= after + Limit THEN Len(log) ELSE after + Limit
<1>6. n \in (after + 1) .. Len(log) /\ ReadSince(after) = (after + 1) .. n
  BY <1>1, <1>4, <1>5
<1> HIDE DEF n
<1>7. Last(ReadSince(after)) = n
  <2>1. n \in ReadSince(after) /\ \A j \in ReadSince(after) : j <= n
    BY <1>1, <1>6
  <2>2. \A k \in ReadSince(after) : (\A j \in ReadSince(after) : j <= k) => k = n
    BY <1>1, <1>6, <2>1
  <2>3. QED
    BY <2>1, <2>2 DEF Last
<1>8. QED
  BY <1>6, <1>7

\* The first line on the wire of a connection is the one after the client's last.
LEMMA FirstIsNext ==
    ASSUME NEW m \in Nat, NEW n \in Nat, m < n
    PROVE  First((m + 1) .. n) = m + 1
<1>1. m + 1 \in (m + 1) .. n /\ \A j \in (m + 1) .. n : m + 1 <= j
  OBVIOUS
<1>2. \A k \in (m + 1) .. n : (\A j \in (m + 1) .. n : k <= j) => k = m + 1
  BY <1>1
<1>3. QED
  BY <1>1, <1>2 DEF First

\* The invariant holds initially.
LEMMA InitIInv == Init => IInv
<1> SUFFICES ASSUME Init PROVE IInv
  OBVIOUS
<1>1. TypeOK
  BY EventLogAssumption, EmptySeq
     DEF Init, TypeOK, IdleWriter, Disconnected, Records
<1>2. Len(log) = 0 /\ \A c \in Clients : Len(client[c].received) = 0
  BY EmptySeq DEF Init
<1>3. QED
  BY <1>1, <1>2 DEF Init, IInv, SeqIsPosition, ClientSeesPrefix, WriterHoldsNext, WireIsNext,
                    IdleWriter, Disconnected

\* A step that leaves the file, the appends and what clients have received alone
\* only has to leave each connection in order.
LEMMA ConnectionMoves ==
    ASSUME IInv, NEW c \in Clients, NEW STATE conn,
           conn \in [open : BOOLEAN, after : Nat, wire : SUBSET (1 .. Len(log))],
           server' = [server EXCEPT ![c] = conn],
           UNCHANGED <<log, calls, writer, client, tears>>,
           conn.after <= Len(log),
           conn.open => /\ conn.wire = (client[c].last + 1) .. conn.after
                        /\ client[c].last <= conn.after
    PROVE  IInv'
<1>1. TypeOK'
  BY DEF IInv, TypeOK
<1>2. SeqIsPosition' /\ ClientSeesPrefix' /\ WriterHoldsNext'
  BY DEF IInv, SeqIsPosition, ClientSeesPrefix, WriterHoldsNext
<1>3. WireIsNext'
  BY DEF IInv, TypeOK, WireIsNext
<1>4. QED
  BY <1>1, <1>2, <1>3 DEF IInv

\* The invariant survives every step, if one thread appends.
LEMMA NextIInv == OneWriter /\ IInv /\ [Next]_vars => IInv'
<1> SUFFICES ASSUME OneWriter, IInv, [Next]_vars PROVE IInv'
  OBVIOUS
<1>1. Len(log) \in Nat /\ DOMAIN log = 1 .. Len(log)
  BY LenProperties DEF IInv, TypeOK
<1>2. ASSUME NEW w \in Writers, AppendReads(w) PROVE IInv'
  <2>1. LastSeq = Len(log)
    <3>1. CASE log = << >>
      BY <3>1, EmptySeq DEF LastSeq
    <3>2. CASE log # << >>
      <4>1. Len(log) \in 1 .. Len(log)
        BY <1>1, <3>2, EmptySeq DEF IInv, TypeOK
      <4>2. QED
        BY <3>2, <4>1 DEF LastSeq, IInv, SeqIsPosition
    <3>3. QED
      BY <3>1, <3>2
  <2>2. TypeOK'
    BY <1>1, <1>2, <2>1, EventLogAssumption DEF AppendReads, IInv, TypeOK
  <2>3. WriterHoldsNext'
    BY <1>1, <1>2, <2>1, EventLogAssumption
       DEF AppendReads, IInv, TypeOK, WriterHoldsNext, OneWriter
  <2>4. SeqIsPosition' /\ ClientSeesPrefix' /\ WireIsNext'
    BY <1>2 DEF AppendReads, IInv, SeqIsPosition, ClientSeesPrefix, WireIsNext
  <2>5. QED
    BY <2>2, <2>3, <2>4 DEF IInv
<1>3. ASSUME NEW w \in Writers, AppendWrites(w) PROVE IInv'
  <2> DEFINE record == [seq |-> writer[w].seq, event |-> writer[w].event]
  <2>1. record.seq = Len(log) + 1 /\ record \in Records
    BY <1>1, <1>3 DEF AppendWrites, IInv, WriterHoldsNext, Records
  <2>2. /\ log' \in Seq(Records) /\ Len(log') = Len(log) + 1
        /\ \A k \in 1 .. Len(log) : log'[k] = log[k]
        /\ log'[Len(log) + 1] = record
    BY <1>3, <2>1, AppendProperties DEF AppendWrites, IInv, TypeOK
  <2>3. \A v \in Writers : writer'[v] = IdleWriter
    BY <1>3 DEF AppendWrites, OneWriter, IInv, TypeOK
  <2>4. TypeOK'
    BY <1>1, <1>3, <2>2, EventLogAssumption DEF AppendWrites, IInv, TypeOK, IdleWriter
  <2>5. SeqIsPosition' /\ WriterHoldsNext'
    BY <1>1, <2>1, <2>2, <2>3 DEF IInv, SeqIsPosition, WriterHoldsNext, IdleWriter
  <2>6. ClientSeesPrefix'
    <3> SUFFICES ASSUME NEW c \in Clients
                 PROVE  /\ Len(client[c].received) <= Len(log')
                        /\ \A k \in 1 .. Len(client[c].received) :
                              client[c].received[k] = log'[k].event
      BY <1>3 DEF AppendWrites, ClientSeesPrefix
    <3>1. Len(client[c].received) \in Nat /\ Len(client[c].received) <= Len(log)
      BY LenProperties DEF IInv, TypeOK, ClientSeesPrefix
    <3>2. QED
      BY <1>1, <2>2, <3>1 DEF IInv, ClientSeesPrefix
  <2>7. WireIsNext'
    BY <1>1, <1>3, <2>2 DEF AppendWrites, IInv, TypeOK, WireIsNext
  <2>8. QED
    BY <2>4, <2>5, <2>6, <2>7 DEF IInv
<1>4. ASSUME NEW w \in Writers, Tear(w) PROVE IInv'
  <2>1. TypeOK'
    BY <1>4, EventLogAssumption DEF Tear, IInv, TypeOK, IdleWriter, Disconnected
  <2>2. QED
    BY <1>1, <1>4, <2>1 DEF Tear, IInv, SeqIsPosition, ClientSeesPrefix, WriterHoldsNext,
       WireIsNext, IdleWriter, Disconnected
<1>5. CASE Crash
  <2>1. TypeOK'
    BY <1>5, EventLogAssumption DEF Crash, IInv, TypeOK, IdleWriter, Disconnected
  <2>2. QED
    BY <1>1, <1>5, <2>1 DEF Crash, IInv, SeqIsPosition, ClientSeesPrefix, WriterHoldsNext,
       WireIsNext, IdleWriter, Disconnected
<1>6. ASSUME NEW c \in Clients PROVE
        /\ server[c] \in [open : BOOLEAN, after : Nat, wire : SUBSET (1 .. Len(log))]
        /\ client[c] \in [last : Nat, received : Seq(1 .. MaxEvents)]
        /\ client[c].last = Len(client[c].received) /\ client[c].last <= Len(log)
        /\ server[c].after <= Len(log)
  BY DEF IInv, TypeOK, WireIsNext, ClientSeesPrefix
<1>7. ASSUME NEW c \in Clients, Connect(c) PROVE IInv'
  <2> DEFINE conn == [open |-> TRUE, after |-> client[c].last, wire |-> {}]
  <2>1. conn.wire = (client[c].last + 1) .. conn.after
    BY <1>6
  <2>2. /\ conn \in [open : BOOLEAN, after : Nat, wire : SUBSET (1 .. Len(log))]
        /\ conn.after <= Len(log) /\ client[c].last <= conn.after
    BY <1>1, <1>6
  <2>3. server' = [server EXCEPT ![c] = conn]
    BY <1>7 DEF Connect
  <2> HIDE DEF conn
  <2>4. QED
    BY <1>7, <2>1, <2>2, <2>3, ConnectionMoves DEF Connect
<1>8. ASSUME NEW c \in Clients, Send(c) PROVE IInv'
  <2> DEFINE after == server[c].after
  <2>1. /\ after \in 0 .. Len(log) /\ after = client[c].last
    <3>1. server[c].open /\ server[c].wire = {}
      BY <1>8 DEF Send
    <3>2. server[c].wire = (client[c].last + 1) .. after /\ client[c].last <= after
      BY <3>1 DEF IInv, WireIsNext
    <3>3. after \in Nat /\ after <= Len(log) /\ client[c].last \in Nat
      BY <1>6
    <3>4. \A i, j \in Nat : i <= j /\ (i + 1) .. j = {} => i = j
      <4>1. \A i, j \in Nat : i < j => i + 1 \in (i + 1) .. j
        OBVIOUS
      <4>2. QED
        BY <4>1
    <3>5. (client[c].last + 1) .. after = {}
      BY <3>1, <3>2, Zenon
    <3>6. after = client[c].last
      BY <3>2, <3>3, <3>4, <3>5
    <3>7. QED
      BY <1>1, <3>3, <3>6
  <2>2. PICK n \in (after + 1) .. Len(log) :
           ReadSince(after) = (after + 1) .. n /\ Last(ReadSince(after)) = n
    BY <1>8, <2>1, ReadsNext DEF Send, IInv
  <2> DEFINE conn == [open |-> TRUE, after |-> n, wire |-> (after + 1) .. n]
  <2>3. log[n].seq = n
    BY <1>1, <2>1 DEF IInv, SeqIsPosition
  <2>4. server' = [server EXCEPT ![c] = conn]
    BY <1>8, <2>2, <2>3 DEF Send
  <2>5. /\ conn \in [open : BOOLEAN, after : Nat, wire : SUBSET (1 .. Len(log))]
        /\ conn.after <= Len(log) /\ client[c].last <= conn.after
        /\ conn.wire = (client[c].last + 1) .. conn.after
    BY <1>1, <2>1
  <2> HIDE DEF conn
  <2>6. QED
    BY <1>8, <2>4, <2>5, ConnectionMoves DEF Send
<1>9. ASSUME NEW c \in Clients, Receive(c) PROVE IInv'
  <2> DEFINE m == client[c].last
             n == server[c].after
             received == client[c].received
             frame == First(server[c].wire)
             longer == Append(received, log[frame].event)
  <2>1. /\ server[c].wire = (m + 1) .. n /\ m \in Nat /\ n \in Nat /\ m < n
        /\ n <= Len(log)
    BY <1>1, <1>6, <1>9 DEF Receive, IInv, WireIsNext
  <2>2. frame = m + 1 /\ frame \in 1 .. Len(log)
    BY <1>1, <2>1, FirstIsNext
  <2>3. log[frame].seq = m + 1 /\ log[frame].event \in 1 .. MaxEvents
    <3>1. log[frame] \in Records
      BY <1>1, <2>2, ElementOfSeq DEF IInv, TypeOK
    <3>2. log[frame].seq = frame
      BY <2>2 DEF IInv, SeqIsPosition
    <3>3. QED
      BY <2>2, <3>1, <3>2 DEF Records
  <2>4. /\ longer \in Seq(1 .. MaxEvents)
        /\ Len(longer) = m + 1
        /\ \A k \in 1 .. m : longer[k] = received[k]
        /\ longer[m + 1] = log[frame].event
    BY <1>6, <2>3, AppendProperties
  <2>5. server[c].wire \ {frame} = (m + 2) .. n
    BY <2>1, <2>2
  <2>6. client'[c] = [last |-> m + 1, received |-> longer]
    BY <1>9, <2>3 DEF Receive, IInv, TypeOK
  <2> HIDE DEF longer
  <2>7. /\ server'[c].open = server[c].open /\ server'[c].after = n
        /\ server'[c].wire = (m + 2) .. n
    BY <1>6, <1>9, <2>5 DEF Receive, IInv, TypeOK
  <2>8. \A d \in Clients : d # c => client'[d] = client[d] /\ server'[d] = server[d]
    BY <1>9 DEF Receive, IInv, TypeOK
  <2>9. TypeOK'
    <3>1. client' \in [Clients -> [last : Nat, received : Seq(1 .. MaxEvents)]]
      BY <1>9, <2>1, <2>3, <2>4 DEF Receive, IInv, TypeOK
    <3>2. server' \in [Clients -> [open : BOOLEAN, after : Nat,
                                  wire : SUBSET (1 .. Len(log))]]
      BY <1>6, <1>9 DEF Receive, IInv, TypeOK
    <3>3. QED
      BY <1>9, <3>1, <3>2 DEF Receive, IInv, TypeOK
  <2>10. SeqIsPosition' /\ WriterHoldsNext'
    BY <1>9 DEF Receive, IInv, SeqIsPosition, WriterHoldsNext
  <2>11. ClientSeesPrefix'
    <3>1. ASSUME NEW d \in Clients
          PROVE  /\ Len(client'[d].received) <= Len(log)
                 /\ \A k \in 1 .. Len(client'[d].received) :
                       client'[d].received[k] = log[k].event
      <4>1. CASE d = c
        <5>1. client'[d].received = longer /\ Len(longer) = m + 1
          BY <2>4, <2>6, <4>1
        <5>2. \A k \in 1 .. m : longer[k] = log[k].event
          BY <1>6, <2>4 DEF IInv, ClientSeesPrefix
        <5>3. longer[m + 1] = log[m + 1].event
          BY <2>2, <2>4
        <5>4. QED
          BY <1>1, <2>1, <5>1, <5>2, <5>3
      <4>2. CASE d # c
        BY <2>8, <4>2 DEF IInv, ClientSeesPrefix
      <4>3. QED
        BY <4>1, <4>2
    <3>2. QED
      BY <1>9, <3>1 DEF Receive, ClientSeesPrefix
  <2>12. WireIsNext'
    <3>1. ASSUME NEW d \in Clients
          PROVE  /\ client'[d].last = Len(client'[d].received)
                 /\ server'[d].after <= Len(log)
                 /\ server'[d].open => server'[d].wire = (client'[d].last + 1) .. server'[d].after
                 /\ server'[d].open => client'[d].last <= server'[d].after
      <4>1. CASE d = c
        <5>1. client'[d].last = m + 1 /\ client'[d].received = longer
          BY <2>6, <4>1
        <5>2. /\ server'[d].after = n /\ server'[d].wire = (m + 2) .. n
          BY <2>7, <4>1
        <5>3. (m + 1) + 1 = m + 2 /\ m + 1 <= n /\ n <= Len(log)
          BY <1>1, <2>1
        <5>4. QED
          BY <2>4, <5>1, <5>2, <5>3
      <4>2. CASE d # c
        BY <2>8, <4>2 DEF IInv, WireIsNext
      <4>3. QED
        BY <4>1, <4>2
    <3>2. QED
      BY <1>9, <3>1 DEF Receive, WireIsNext
  <2>13. QED
    BY <2>9, <2>10, <2>11, <2>12 DEF IInv
<1>10. ASSUME NEW c \in Clients, Drop(c) PROVE IInv'
  <2>1. /\ Disconnected \in [open : BOOLEAN, after : Nat, wire : SUBSET (1 .. Len(log))]
        /\ Disconnected.open = FALSE /\ Disconnected.after = 0
    BY DEF Disconnected
  <2>2. Disconnected.after <= Len(log) /\ server' = [server EXCEPT ![c] = Disconnected]
    BY <1>1, <1>10, <2>1 DEF Drop
  <2>3. QED
    BY <1>10, <2>1, <2>2, ConnectionMoves DEF Drop
<1>11. CASE UNCHANGED vars
  BY <1>11 DEF vars, IInv, TypeOK, SeqIsPosition, ClientSeesPrefix, WriterHoldsNext, WireIsNext
<1>12. QED
  BY <1>2, <1>3, <1>4, <1>5, <1>7, <1>8, <1>9, <1>10, <1>11 DEF Next

\* The types of the log, of the appends in flight and of the connections.
THEOREM TypeCorrect == ASSUME OneWriter PROVE Spec => []TypeOK
<1>1. IInv => TypeOK
  BY DEF IInv
<1>2. QED
  BY <1>1, InitIInv, NextIInv, PTL DEF Spec

\* One appending thread numbers the lines 1, 2, 3, ... whatever crashes.
THEOREM Numbered == ASSUME OneWriter PROVE Spec => []SeqIsPosition
<1>1. IInv => SeqIsPosition
  BY DEF IInv
<1>2. QED
  BY <1>1, InitIInv, NextIInv, PTL DEF Spec

\* Every client has received exactly the first lines of the file, once each and
\* in order, wherever its connections dropped.
THEOREM ExactlyOnce == ASSUME OneWriter PROVE Spec => []ClientSeesPrefix
<1>1. IInv => ClientSeesPrefix
  BY DEF IInv
<1>2. QED
  BY <1>1, InitIInv, NextIInv, PTL DEF Spec
-------------------------------------------------------------------------------
(* The log implements the abstract stream *)

\* The lines of the file, as the abstract stream holds them.
Lines == [k \in 1 .. Len(log) |-> log[k].event]

\* A sequence that is one element longer than another is an Append.
LEMMA OneLonger ==
    ASSUME NEW S, NEW s \in Seq(S), NEW t \in Seq(S), NEW e \in S,
           Len(t) = Len(s) + 1, t[Len(s) + 1] = e,
           \A k \in 1 .. Len(s) : t[k] = s[k]
    PROVE  t = Append(s, e)
<1>1. /\ Append(s, e) \in Seq(S) /\ Len(Append(s, e)) = Len(s) + 1
      /\ \A k \in 1 .. Len(s) : Append(s, e)[k] = s[k]
      /\ Append(s, e)[Len(s) + 1] = e
  BY AppendProperties
<1>2. \A k \in 1 .. Len(t) : t[k] = Append(s, e)[k]
  BY <1>1, LenProperties
<1>3. QED
  BY <1>1, <1>2, SeqEqual

\* The events of a file are a sequence, as long as the file.
LEMMA EventsOfLines ==
    ASSUME NEW s \in Seq(Records), NEW t, t = [k \in 1 .. Len(s) |-> s[k].event]
    PROVE  t \in Seq(1 .. MaxEvents) /\ Len(t) = Len(s) /\ Len(s) \in Nat
<1>1. Len(s) \in Nat /\ \A k \in 1 .. Len(s) : s[k] \in Records
  BY LenProperties, ElementOfSeq
<1>2. t \in [1 .. Len(s) -> 1 .. MaxEvents]
  BY <1>1 DEF Records
<1>3. ASSUME NEW S, NEW n \in Nat, NEW f \in [1 .. n -> S]
      PROVE  f \in Seq(S) /\ Len(f) = n
  <2>1. f \in Seq(S)
    OBVIOUS
  <2>2. QED
    BY <2>1, LenProperties
<1>4. QED
  BY <1>1, <1>2, <1>3

\* The step of an append that writes its line is a Publish of the call's event.
LEMMA WriteIsPublish ==
    ASSUME OneWriter, IInv, IInv', NEW w \in Writers, AppendWrites(w)
    PROVE  \E e \in 1 .. MaxEvents : Stream!Publish(e)
<1> PICK event \in 1 .. MaxEvents : event = writer[w].event
  BY DEF AppendWrites, IInv, WriterHoldsNext
<1>1. log \in Seq(Records) /\ log' \in Seq(Records)
  BY DEF IInv, TypeOK
<1>2. /\ Lines \in Seq(1 .. MaxEvents) /\ Len(Lines) = Len(log) /\ Len(log) \in Nat
      /\ Lines' \in Seq(1 .. MaxEvents) /\ Len(Lines') = Len(log')
  <2>1. Lines \in Seq(1 .. MaxEvents) /\ Len(Lines) = Len(log) /\ Len(log) \in Nat
    BY <1>1, EventsOfLines DEF Lines
  <2>2. Lines' \in Seq(1 .. MaxEvents) /\ Len(Lines') = Len(log')
    BY <1>1, EventsOfLines DEF Lines
  <2>3. QED
    BY <2>1, <2>2
<1>3. writer[w].seq \in Nat
  BY DEF AppendWrites, IInv, TypeOK
<1>4. /\ Len(log') = Len(log) + 1
      /\ \A k \in 1 .. Len(log) : log'[k] = log[k]
      /\ log'[Len(log) + 1].event = event
  BY <1>1, <1>3, AppendProperties DEF AppendWrites, Records
<1>5. /\ Lines'[Len(Lines) + 1] = event
      /\ \A k \in 1 .. Len(Lines) : Lines'[k] = Lines[k]
  BY <1>2, <1>4 DEF Lines
<1>6. Lines' = Append(Lines, event)
  BY <1>2, <1>3, <1>4, <1>5, OneLonger
<1>7. client' = client
  BY DEF AppendWrites
<1>8. Stream!Publish(event)
  BY <1>6, <1>7 DEF Stream!Publish, Lines
<1>9. QED
  BY <1>8

\* A frame that arrives is the next event of the stream for that client.
LEMMA FrameIsReceive ==
    ASSUME IInv, NEW c \in Clients, Receive(c)
    PROVE  Stream!Receive(c)
<1> DEFINE m == client[c].last
           got == [d \in Clients |-> Len(client[d].received)]
<1>1. /\ client[c].received \in Seq(1 .. MaxEvents) /\ Len(log) \in Nat
      /\ m = Len(client[c].received) /\ m \in Nat /\ server[c].after \in Nat
  <2>1. client[c].received \in Seq(1 .. MaxEvents) /\ log \in Seq(Records)
    BY DEF IInv, TypeOK
  <2>2. m = Len(client[c].received) /\ server[c].after \in Nat
    BY DEF IInv, TypeOK, WireIsNext
  <2>3. QED
    BY <2>1, <2>2, LenProperties
<1>2. m < server[c].after /\ server[c].after <= Len(log)
  BY <1>1 DEF Receive, IInv, WireIsNext
<1>3. First(server[c].wire) = m + 1
  BY <1>1, <1>2, FirstIsNext DEF Receive, IInv, WireIsNext
<1>4. log[m + 1].event \in 1 .. MaxEvents
  <2>1. m + 1 \in 1 .. Len(log) /\ log \in Seq(Records)
    BY <1>1, <1>2 DEF IInv, TypeOK
  <2>2. log[m + 1] \in Records
    BY <2>1, ElementOfSeq
  <2>3. QED
    BY <2>2 DEF Records
<1>5. client'[c].received = Append(client[c].received, log[m + 1].event)
  BY <1>3 DEF Receive, IInv, TypeOK
<1>6. Len(client'[c].received) = m + 1
  BY <1>1, <1>4, <1>5, AppendProperties
<1>7. \A d \in Clients : d # c => client'[d] = client[d]
  BY DEF Receive, IInv, TypeOK
<1>8. got' = [got EXCEPT ![c] = got[c] + 1]
  BY <1>1, <1>6, <1>7
<1>9. Len(Lines) = Len(log) /\ Lines' = Lines
  BY EventsOfLines DEF Receive, IInv, TypeOK, Lines
<1>10. QED
  BY <1>1, <1>2, <1>8, <1>9 DEF Stream!Receive, Lines

\* Every other step leaves the file and what clients have received alone.
LEMMA OtherStepsStutter ==
    ASSUME \/ \E w \in Writers : AppendReads(w) \/ Tear(w)
           \/ \E c \in Clients : Connect(c) \/ Send(c) \/ Drop(c)
           \/ Crash
           \/ UNCHANGED vars
    PROVE  UNCHANGED <<log, client>>
BY DEF AppendReads, Tear, Connect, Send, Drop, Crash, vars

\* The file with its cursors, its drops and its crashes implements the stream
\* that delivers every event exactly once and in order.
THEOREM Refines == ASSUME OneWriter PROVE Spec => ImplementsStream
<1>1. Init => Stream!Init
  BY EmptySeq DEF Init, Stream!Init
<1>2. IInv /\ [Next]_vars =>
        [Stream!Next]_<<Lines, [c \in Clients |-> Len(client[c].received)]>>
  <2> SUFFICES ASSUME IInv, [Next]_vars
               PROVE  \/ Stream!Next
                      \/ UNCHANGED <<Lines, [c \in Clients |-> Len(client[c].received)]>>
    OBVIOUS
  <2>1. ASSUME NEW w \in Writers, AppendWrites(w) PROVE Stream!Next
    BY <2>1, WriteIsPublish, NextIInv DEF Stream!Next
  <2>2. ASSUME NEW c \in Clients, Receive(c) PROVE Stream!Next
    BY <2>2, FrameIsReceive DEF Stream!Next
  <2>3. ASSUME UNCHANGED <<log, client>>
        PROVE  UNCHANGED <<Lines, [c \in Clients |-> Len(client[c].received)]>>
    BY <2>3 DEF Lines
  <2>4. QED
    BY <2>1, <2>2, <2>3, OtherStepsStutter DEF Next
<1>3. QED
  BY <1>1, <1>2, InitIInv, NextIInv, PTL DEF Spec, ImplementsStream, Stream!Spec, Lines
=============================================================================
