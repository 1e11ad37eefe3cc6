--------------------------- MODULE LiveConnectorProofs ---------------------------
(***************************************************************************)
(* The safety of a connector, for any adapter, source, bound of the        *)
(* cursor, number of polls and number of threads that patch, through       *)
(* crashes and failed fetches.                                             *)
(*                                                                         *)
(* First its configuration: a disabled connector is not asked.  Then its   *)
(* data: whatever a cursor suppresses was kept, and every signal names the *)
(* payload it came from.  A poll saves a copy of the cursor it read before *)
(* its fetch, so the invariant asks of the copies in flight what it asks   *)
(* of the stored cursor.  Last its news: what a poll finds was not known.  *)
(* For that a cursor must hold the latest version noticed of every event   *)
(* that the poll's listing names, which is an order kept by the loop, by   *)
(* the bound and by the source while the poll waits.  The facts about the  *)
(* delta and the adapters come from the folds over the listing, by         *)
(* induction over its length.                                              *)
(***************************************************************************)
EXTENDS LiveConnector, FiniteSetTheorems, SequenceTheorems, WellFoundedInduction, TLAPS

ConfigTypeOK ==
    /\ config \in Configs
    /\ held \in [Workers -> [copy : Configs, change : Changes] \cup {None}]
    /\ polls = [p \in Polls |-> polls[p]]
    /\ asked \in BOOLEAN
    /\ blurred \in [polls : BOOLEAN, patches : BOOLEAN, filter : BOOLEAN]

\* Unless patches overlapped, the configuration says what was asked for last, and at
\* most one thread holds a copy of it, which is current.
CopyIsCurrent ==
    ~ blurred.patches =>
        /\ config.enabled = asked
        /\ \A w \in Workers : held[w] # None => held[w].copy = config
        /\ \A v, w \in Workers : held[v] # None /\ held[w] # None => v = w

IInv == ConfigTypeOK /\ CopyIsCurrent
-------------------------------------------------------------------------------
\* A connector is created enabled.
LEMMA InitIInv == Init => IInv
BY DEF Init, IInv, ConfigTypeOK, CopyIsCurrent, Configs, Created

\* Polls do not touch the configuration.
LEMMA PollIInv ==
    ASSUME IInv, UNCHANGED <<config, asked>>, blurred'.patches = blurred.patches,
           blurred' \in [polls : BOOLEAN, patches : BOOLEAN, filter : BOOLEAN],
           polls' = [p \in Polls |-> polls'[p]],
           held' = held \/ held' = [w \in Workers |-> None]
    PROVE  IInv'
<1> USE DEF IInv
<1>1. ConfigTypeOK'
  BY DEF ConfigTypeOK
<1>2. \A w \in Workers : held'[w] # None => held'[w] = held[w]
  OBVIOUS
<1>3. CopyIsCurrent'
  BY <1>2 DEF CopyIsCurrent
<1>4. QED
  BY <1>1, <1>3

\* A patch that reads while another holds a copy is an overlap.
LEMMA PatchReadsIInv ==
    ASSUME IInv, NEW w \in Workers, NEW change \in Changes, PatchReads(w, change)
    PROVE  IInv'
<1> USE DEF IInv
<1>1. ConfigTypeOK'
  BY DEF ConfigTypeOK, PatchReads
<1>2. \A v \in Workers \ {w} : held'[v] = held[v]
  BY DEF ConfigTypeOK, PatchReads
<1>3. held'[w].copy = config
  BY DEF ConfigTypeOK, PatchReads
<1>4. ~ blurred'.patches => ~ blurred.patches /\ \A v \in Workers : held[v] = None
  BY DEF ConfigTypeOK, PatchReads
<1>5. UNCHANGED <<config, asked>>
  BY DEF PatchReads
<1>6. CopyIsCurrent'
  BY <1>2, <1>3, <1>4, <1>5 DEF CopyIsCurrent
<1>7. QED
  BY <1>1, <1>6

\* The only copy is the current configuration, so writing it back changes only what
\* was asked for.
LEMMA PatchWritesIInv ==
    ASSUME IInv, NEW w \in Workers, PatchWrites(w)
    PROVE  IInv'
<1> USE DEF IInv
<1>1. held[w] \in [copy : Configs, change : Changes]
  BY DEF ConfigTypeOK, PatchWrites
<1>2. PICK copy \in Configs, change \in Changes :
         held[w].copy = copy /\ held[w].change = change
  BY <1>1
<1>3. config' = [field \in DOMAIN config |->
                   IF field \in DOMAIN change THEN change[field] ELSE copy[field]]
  BY <1>2 DEF PatchWrites
<1>4. DOMAIN config = {"enabled", "picky"}
  BY DEF ConfigTypeOK, Configs
<1>5. asked' = IF "enabled" \in DOMAIN change THEN change.enabled ELSE asked
  BY <1>2 DEF PatchWrites
<1>6. /\ config' \in Configs /\ asked' \in BOOLEAN
      /\ config.enabled = asked /\ copy = config => config'.enabled = asked'
  <2>1. CASE \E b \in BOOLEAN : change = [enabled |-> b]
    BY <1>2, <1>3, <1>4, <1>5, <2>1 DEF Configs, ConfigTypeOK
  <2>2. CASE \E b \in BOOLEAN : change = [picky |-> b]
    BY <1>2, <1>3, <1>4, <1>5, <2>2 DEF Configs, ConfigTypeOK
  <2>3. QED
    BY <1>2, <2>1, <2>2 DEF Changes
<1>7. ConfigTypeOK'
  BY <1>6 DEF ConfigTypeOK, PatchWrites, Configs
<1>8. CopyIsCurrent'
  <2>1. \A v \in Workers : held'[v] # None => v # w /\ held[v] # None
    BY DEF ConfigTypeOK, PatchWrites
  <2>2. blurred'.patches = blurred.patches
    BY DEF ConfigTypeOK, PatchWrites
  <2>3. held[w] # None
    BY DEF PatchWrites
  <2>4. QED
    BY <1>2, <1>6, <2>1, <2>2, <2>3 DEF CopyIsCurrent
<1>9. QED
  BY <1>7, <1>8

\* A creation while a patch holds a copy is an overlap.
LEMMA CreateIInv ==
    ASSUME IInv, NEW enabled \in BOOLEAN, CreateConnector(enabled)
    PROVE  IInv'
<1> USE DEF IInv
<1>1. config' \in Configs /\ config'.enabled = enabled /\ asked' = enabled
  BY DEF CreateConnector, Created, Configs
<1>2. ConfigTypeOK'
  BY <1>1 DEF ConfigTypeOK, CreateConnector, Configs
<1>3. /\ UNCHANGED held
      /\ ~ blurred'.patches => \A v \in Workers : held[v] = None
  BY DEF ConfigTypeOK, CreateConnector
<1>4. CopyIsCurrent'
  BY <1>1, <1>3 DEF CopyIsCurrent
<1>5. QED
  BY <1>2, <1>4

\* What a step of a poll does to the rest.
LEMMA PollSteps ==
    ASSUME IInv, NEW p \in Polls,
           \/ PollBegins(p) \/ SourceAnswers(p) \/ NotModified(p) \/ FetchFails(p)
           \/ SchemaDrifts(p) \/ Fetched(p) \/ StoreSignals(p)
    PROVE  /\ UNCHANGED <<config, asked, held>>
           /\ blurred'.patches = blurred.patches
           /\ blurred' \in [polls : BOOLEAN, patches : BOOLEAN, filter : BOOLEAN]
           /\ polls' = [q \in Polls |-> polls'[q]]
           /\ \A q \in Polls : polls[q] = None /\ polls'[q] # None => PollBegins(p)
<1> USE DEF IInv, ConfigTypeOK
<1>1. CASE PollBegins(p)
  BY <1>1 DEF PollBegins
<1>2. CASE SourceAnswers(p)
  <2>1. polls[p] # None /\ \A q \in Polls : q # p => polls'[q] = polls[q]
    BY <1>2 DEF SourceAnswers, Waiting
  <2>2. polls' = [q \in Polls |-> polls'[q]]
    BY <1>2 DEF SourceAnswers
  <2>3. UNCHANGED <<config, asked, held, blurred>>
    BY <1>2 DEF SourceAnswers
  <2>4. QED
    BY <2>1, <2>2, <2>3
<1>3. CASE NotModified(p) \/ FetchFails(p) \/ SchemaDrifts(p) \/ StoreSignals(p)
  <2>1. polls' = [polls EXCEPT ![p] = None] /\ UNCHANGED <<config, asked, held, blurred>>
    BY <1>3 DEF NotModified, FetchFails, SchemaDrifts, StoreSignals
  <2>2. QED
    BY <2>1
<1>4. CASE Fetched(p)
  <2>1. polls[p] # None /\ \A q \in Polls : q # p => polls'[q] = polls[q]
    BY <1>4 DEF Fetched, FetchedFrom, Waiting
  <2>2. polls' = [q \in Polls |-> polls'[q]]
    BY <1>4 DEF Fetched, FetchedFrom
  <2>3. UNCHANGED <<config, asked, held, blurred>>
    BY <1>4 DEF Fetched, FetchedFrom
  <2>4. QED
    BY <2>1, <2>2, <2>3
<1>5. QED
  BY <1>1, <1>2, <1>3, <1>4

\* Every step keeps the invariant.
LEMMA StepIInv == IInv /\ [Next]_vars => IInv'
<1> SUFFICES ASSUME IInv, [Next]_vars PROVE IInv'
  OBVIOUS
<1>1. ASSUME NEW p \in Polls,
             \/ PollBegins(p) \/ SourceAnswers(p) \/ NotModified(p) \/ FetchFails(p)
             \/ SchemaDrifts(p) \/ Fetched(p) \/ StoreSignals(p)
      PROVE  IInv'
  BY <1>1, PollSteps, PollIInv
<1>2. CASE \E w \in Workers, change \in Changes : PatchReads(w, change)
  BY <1>2, PatchReadsIInv
<1>3. CASE \E w \in Workers : PatchWrites(w)
  BY <1>3, PatchWritesIInv
<1>4. CASE \E enabled \in BOOLEAN : CreateConnector(enabled)
  BY <1>4, CreateIInv
<1>5. CASE Crash
  BY <1>5, PollIInv DEF Crash, IInv, ConfigTypeOK
<1>6. CASE UNCHANGED connectorVars
  BY <1>6, PollIInv DEF connectorVars, IInv, ConfigTypeOK
<1>7. QED
  BY <1>1, <1>2, <1>3, <1>4, <1>5, <1>6 DEF Next, vars

\* Only PollBegins starts a poll, of a connector whose stored configuration is enabled.
LEMMA StepIsSilent ==
    IInv /\ [Next]_vars =>
        ((\E p \in Polls : polls[p] = None /\ polls[p]' # None) => asked \/ blurred.patches)
<1> SUFFICES ASSUME IInv, [Next]_vars, NEW q \in Polls, polls[q] = None, polls'[q] # None
             PROVE  asked \/ blurred.patches
  OBVIOUS
<1>1. ASSUME NEW p \in Polls,
             \/ PollBegins(p) \/ SourceAnswers(p) \/ NotModified(p) \/ FetchFails(p)
             \/ SchemaDrifts(p) \/ Fetched(p) \/ StoreSignals(p)
      PROVE  asked \/ blurred.patches
  <2>1. PollBegins(p)
    BY <1>1, PollSteps
  <2>2. config.enabled
    BY <2>1 DEF PollBegins
  <2>3. QED
    BY <2>2 DEF IInv, CopyIsCurrent
<1>2. ASSUME NEW w \in Workers,
             PatchWrites(w) \/ \E change \in Changes : PatchReads(w, change)
      PROVE  FALSE
  BY <1>2 DEF PatchWrites, PatchReads
<1>3. CASE \E enabled \in BOOLEAN : CreateConnector(enabled)
  BY <1>3 DEF CreateConnector
<1>4. CASE Crash
  BY <1>4 DEF Crash
<1>5. CASE UNCHANGED connectorVars
  BY <1>5 DEF connectorVars
<1>6. QED
  BY <1>1, <1>2, <1>3, <1>4, <1>5 DEF Next, vars

\* A connector that was disabled last is not asked until it is enabled, unless patches
\* overlapped.
THEOREM DisabledIsNotAsked == Spec => DisabledStaysSilent
<1>1. Init => IInv
  BY InitIInv
<1>2. IInv /\ [Next]_vars => IInv'
  BY StepIInv
<1>3. IInv /\ [Next]_vars =>
        [(\E p \in Polls : polls[p] = None /\ polls[p]' # None) => asked \/ blurred.patches]_vars
  BY StepIsSilent
<1>4. QED
  BY <1>1, <1>2, <1>3, PTL DEF Spec, DisabledStaysSilent
-------------------------------------------------------------------------------
(* Numbers *)

\* Every nonempty set of naturals has a least element.
LEMMA Least ==
    ASSUME NEW S, S \subseteq Nat, S # {}
    PROVE  \E m \in S : \A n \in S : m <= n
<1>1. PICK m \in S : \A n \in S : ~ (<<n, m>> \in OpToRel(<, Nat))
  BY NatLessThanWellFounded, WFMin
<1>2. \A n \in S : ~ (n < m)
  BY <1>1 DEF OpToRel
<1>3. QED
  BY <1>2

\* Max is the greatest element of a set of numbers of an interval.
LEMMA MaxIsGreatest ==
    ASSUME NEW n \in Nat, NEW S \in SUBSET (1 .. n), S # {}
    PROVE  Max(S) \in S /\ \A k \in S : k <= Max(S)
<1> DEFINE T == {n - k : k \in S}
<1>1. T \subseteq Nat /\ T # {}
  <2>1. \A k \in S : n - k \in Nat
    OBVIOUS
  <2>2. T \subseteq Nat
    BY <2>1, Zenon
  <2>3. QED
    BY <2>2
<1>2. PICK t \in T : \A k \in T : t <= k
  BY <1>1, Least
<1>3. PICK m \in S : t = n - m
  OBVIOUS
<1>4. \A k \in S : k <= m
  BY <1>2, <1>3
<1>5. \A k \in S : m >= k
  BY <1>4
<1>6. QED
  BY <1>5 DEF Max

-------------------------------------------------------------------------------
(* Folding over a sequence *)

\* What FoldLeft of the community modules computes, for the function `step`.
Folds(g, start, step, sets) ==
    \A s \in sets : g[s] = IF s = {} THEN start ELSE step[<<g[s \ {Max(s)}], Max(s)>>]

\* A fold is defined: by induction over the size of the sets of indices.
LEMMA FoldExists ==
    ASSUME NEW n \in Nat, NEW V, NEW start \in V, NEW step \in [V \X (1 .. n) -> V]
    PROVE  \E g \in [SUBSET (1 .. n) -> V] : Folds(g, start, step, SUBSET (1 .. n))
<1> DEFINE All     == SUBSET (1 .. n)
           upTo(d) == {s \in All : Cardinality(s) <= d}
           missing == {d \in Nat : ~ \E g \in [upTo(d) -> V] : Folds(g, start, step, upTo(d))}
<1>1. /\ IsFiniteSet(1 .. n) /\ Cardinality(1 .. n) = n
      /\ \A s \in All : IsFiniteSet(s) /\ Cardinality(s) \in Nat /\ Cardinality(s) <= n
  <2>1. 1 \in Int /\ n \in Int
    OBVIOUS
  <2>2. IsFiniteSet(1 .. n) /\ Cardinality(1 .. n) = n
    BY <2>1, FS_Interval
  <2> DEFINE interval == 1 .. n
  <2> HIDE DEF interval
  <2>3. ASSUME NEW s \in SUBSET interval
        PROVE  IsFiniteSet(s) /\ Cardinality(s) \in Nat /\ Cardinality(s) <= Cardinality(interval)
    <3>1. IsFiniteSet(interval)
      BY <2>2 DEF interval
    <3>2. IsFiniteSet(s) /\ Cardinality(s) <= Cardinality(interval)
      BY <3>1, FS_Subset
    <3>3. QED
      BY <3>2, FS_CardinalityType
  <2>4. QED
    BY <2>2, <2>3 DEF interval
<1>2. \A s \in All : s # {} =>
         /\ Max(s) \in 1 .. n /\ s \ {Max(s)} \in All
         /\ Cardinality(s \ {Max(s)}) = Cardinality(s) - 1
  <2> TAKE s \in All
  <2> HAVE s # {}
  <2>1. Max(s) \in s
    BY MaxIsGreatest
  <2>2. QED
    BY <1>1, <2>1, FS_RemoveElement
<1>3. \A s \in All : Cardinality(s) = 0 => s = {}
  BY <1>1, FS_EmptySet
<1>4. ASSUME missing # {} PROVE FALSE
  <2>1. PICK d \in missing : \A m \in missing : d <= m
    BY <1>4, Least
  <2>2. d # 0
    <3> SUFFICES ASSUME d = 0 PROVE FALSE
      OBVIOUS
    <3>1. \A s \in upTo(0) : s = {}
      BY <1>1, <1>3
    <3> DEFINE none == [s \in upTo(0) |-> start]
    <3>2. none \in [upTo(0) -> V] /\ Folds(none, start, step, upTo(0))
      BY <3>1 DEF Folds
    <3>3. QED
      BY <2>1, <3>2
  <2>3. d - 1 \in Nat /\ d \in Nat
    BY <2>2
  <2>4. d - 1 \notin missing
    <3> HIDE DEF missing
    <3>1. QED
      BY <2>1, <2>3
  <2>5. PICK g \in [upTo(d - 1) -> V] : Folds(g, start, step, upTo(d - 1))
    BY <2>3, <2>4
  <2> DEFINE Value(s) == IF s = {} THEN start ELSE step[<<g[s \ {Max(s)}], Max(s)>>]
             next == [s \in upTo(d) |-> Value(s)]
  <2>6. \A s \in upTo(d) : s # {} => s \ {Max(s)} \in upTo(d - 1)
    <3> TAKE s \in upTo(d)
    <3> HAVE s # {}
    <3> DEFINE rest == s \ {Max(s)}
    <3>1. rest \in All /\ Cardinality(rest) = Cardinality(s) - 1
      BY <1>2
    <3>2. Cardinality(s) \in Nat /\ Cardinality(s) <= d
      BY <1>1
    <3> HIDE DEF rest, All
    <3>3. rest \in upTo(d - 1)
      BY <2>3, <3>1, <3>2
    <3>4. QED
      BY <3>3 DEF rest
  <2>7. \A s \in upTo(d - 1) : s \in upTo(d) /\ next[s] = g[s]
    <3> TAKE s \in upTo(d - 1)
    <3>1. s \in upTo(d)
      BY <1>1, <2>3
    <3>2. g[s] = Value(s)
      BY <2>5 DEF Folds
    <3>3. QED
      BY <3>1, <3>2
  <2>8. next \in [upTo(d) -> V]
    <3>1. ASSUME NEW s \in upTo(d) PROVE Value(s) \in V
      <4>1. CASE s = {}
        BY <4>1
      <4>2. CASE s # {}
        <5>1. Max(s) \in 1 .. n
          BY <1>2, <4>2
        <5>2. g[s \ {Max(s)}] \in V
          BY <2>5, <2>6, <4>2
        <5>3. QED
          BY <4>2, <5>1, <5>2
      <4>3. QED
        BY <4>1, <4>2
    <3> HIDE DEF Value, upTo
    <3>2. QED
      BY <3>1
  <2>9. Folds(next, start, step, upTo(d))
    <3> SUFFICES ASSUME NEW s \in upTo(d)
                 PROVE  next[s] = IF s = {} THEN start
                                  ELSE step[<<next[s \ {Max(s)}], Max(s)>>]
      BY DEF Folds
    <3>1. s # {} => next[s \ {Max(s)}] = g[s \ {Max(s)}]
      BY <2>6, <2>7
    <3>2. next[s] = Value(s)
      OBVIOUS
    <3> HIDE DEF next
    <3>3. QED
      BY <3>1, <3>2
  <2>10. QED
    BY <2>1, <2>8, <2>9
<1>5. n \notin missing
  BY <1>4
<1>6. upTo(n) = All
  BY <1>1
<1>7. QED
  BY <1>5, <1>6

\* The sets of indices a fold works off, one by one.
LEMMA Unwinds ==
    ASSUME NEW n \in Nat, NEW k \in 1 .. n
    PROVE  /\ 1 .. k \in SUBSET (1 .. n) /\ 1 .. k # {}
           /\ Max(1 .. k) = k /\ (1 .. k) \ {k} = 1 .. k - 1
<1>1. 1 .. k \in SUBSET (1 .. n) /\ 1 .. k # {} /\ k \in 1 .. k
  OBVIOUS
<1>2. Max(1 .. k) \in 1 .. k /\ k <= Max(1 .. k)
  <2> DEFINE S == 1 .. k
  <2>1. S \in SUBSET (1 .. n) /\ S # {} /\ k \in S
    BY <1>1
  <2> HIDE DEF S
  <2>2. Max(S) \in S /\ k <= Max(S)
    BY <2>1, MaxIsGreatest
  <2>3. QED
    BY <2>2 DEF S
<1>3. Max(1 .. k) = k
  BY <1>2
<1>4. (1 .. k) \ {k} = 1 .. k - 1
  OBVIOUS
<1>5. QED
  BY <1>1, <1>3, <1>4

-------------------------------------------------------------------------------
(* The order of a list *)

\* A list names no event twice; it names them in order.
Apart(list) == \A i, j \in DOMAIN list : list[i].event = list[j].event => i = j
Rising(list) == \A i, j \in DOMAIN list : i < j => list[i].event < list[j].event

EventsOf(list) == {s.event : s \in ToSet(list)}

\* The first entries of another list.
Begins(list, other) ==
    Len(list) <= Len(other) /\ \A k \in 1 .. Len(list) : list[k] = other[k]
-------------------------------------------------------------------------------
(* apply_delta *)

Deltas == [seen : Seq(Signals), fresh : SUBSET Signals]
Opening(seen) == [seen |-> seen, fresh |-> {}]

\* What the loop over a listing holds after each of its signals.
Loops(trail, seen, listing) ==
    /\ trail[0] = Opening(seen)
    /\ \A k \in 1 .. Len(listing) : trail[k] = Notice(trail[k - 1], listing[k])

\* What one signal does: it is fresh or already seen as it is, and nothing else is.
LEMMA NoticeFacts ==
    ASSUME NEW delta \in Deltas, NEW s \in Signals
    PROVE  /\ Notice(delta, s) \in Deltas
           /\ Notice(delta, s).fresh \subseteq delta.fresh \cup {s}
           /\ delta.fresh \subseteq Notice(delta, s).fresh
           /\ s \in Notice(delta, s).fresh \cup ToSet(delta.seen)
           /\ ToSet(Notice(delta, s).seen)
                 \subseteq ToSet(delta.seen) \cup Notice(delta, s).fresh
<1> DEFINE seen == delta.seen
           new  == Notice(delta, s)
<1>1. seen \in Seq(Signals) /\ Len(seen) \in Nat /\ DOMAIN seen = 1 .. Len(seen)
  BY LenProperties DEF Deltas
<1>2. CASE Hash(seen, s.event) = 0
  <2>1. new = [seen |-> Append(seen, s), fresh |-> delta.fresh \cup {s}]
    BY <1>2 DEF Notice
  <2>2. /\ Append(seen, s) \in Seq(Signals)
        /\ Len(Append(seen, s)) = Len(seen) + 1
        /\ \A k \in 1 .. Len(seen) : Append(seen, s)[k] = seen[k]
        /\ Append(seen, s)[Len(seen) + 1] = s
    BY <1>1, AppendProperties
  <2>3. DOMAIN Append(seen, s) = 1 .. Len(seen) + 1
    BY <1>1, <2>2, LenProperties
  <2>4. ASSUME NEW k \in 1 .. Len(seen) + 1
        PROVE  Append(seen, s)[k] \in ToSet(seen) \cup {s}
    <3>1. CASE k \in 1 .. Len(seen)
      BY <1>1, <2>2, <3>1 DEF ToSet
    <3>2. CASE k = Len(seen) + 1
      BY <2>2, <3>2
    <3>3. QED
      BY <1>1, <3>1, <3>2
  <2> HIDE DEF seen
  <2>5. ToSet(Append(seen, s)) \subseteq ToSet(seen) \cup {s}
    BY <2>3, <2>4 DEF ToSet
  <2>6. QED
    BY <2>1, <2>2, <2>5 DEF Deltas, seen
<1>3. CASE Hash(seen, s.event) \notin {0, s.hash}
  <2> DEFINE changed == [k \in DOMAIN seen |-> IF seen[k].event = s.event THEN s ELSE seen[k]]
  <2>1. new = [seen |-> changed, fresh |-> delta.fresh \cup {s}]
    BY <1>3 DEF Notice
  <2>2. changed \in Seq(Signals)
    <3>1. changed \in [1 .. Len(seen) -> Signals]
      BY <1>1, ElementOfSeq
    <3>2. QED
      BY <1>1, <3>1, SeqDef
  <2>3. ToSet(changed) \subseteq ToSet(seen) \cup {s}
    BY DEF ToSet
  <2> HIDE DEF seen, changed
  <2>4. QED
    BY <2>1, <2>2, <2>3 DEF Deltas, seen
<1>4. CASE Hash(seen, s.event) # 0 /\ Hash(seen, s.event) = s.hash
  <2>1. new = delta
    BY <1>4 DEF Notice
  <2>2. PICK k \in DOMAIN seen : seen[k].event = s.event /\ seen[k].hash = s.hash
    BY <1>4 DEF Hash
  <2>3. seen[k] \in Signals
    BY <1>1, <2>2, ElementOfSeq
  <2>4. seen[k] = s
    BY <2>2, <2>3 DEF Signals
  <2>5. s \in ToSet(seen)
    BY <2>2, <2>4 DEF ToSet
  <2>6. QED
    BY <2>1, <2>5
<1>5. QED
  BY <1>2, <1>3, <1>4

\* The fold of ApplyDelta is that loop.
LEMMA DeltaLoops ==
    ASSUME NEW listing \in Seq(Signals), NEW seen \in Seq(Signals)
    PROVE  \E trail : /\ Loops(trail, seen, listing)
                      /\ FoldLeft(Notice, Opening(seen), listing) = trail[Len(listing)]
<1> DEFINE n    == Len(listing)
           base == Opening(seen)
           step == [x \in Deltas \X (1 .. n) |-> Notice(x[1], listing[x[2]])]
           Fits(g) == g = [s \in SUBSET DOMAIN listing |->
                             IF s = {} THEN base
                             ELSE Notice(g[s \ {Max(s)}], listing[Max(s)])]
           fold == CHOOSE g : Fits(g)
<1>1. n \in Nat /\ DOMAIN listing = 1 .. n /\ \A k \in 1 .. n : listing[k] \in Signals
  BY LenProperties, ElementOfSeq
<1>2. base \in Deltas
  BY DEF Opening, Deltas
<1>3. step \in [Deltas \X (1 .. n) -> Deltas]
  BY <1>1, NoticeFacts
<1>4. PICK g \in [SUBSET (1 .. n) -> Deltas] : Folds(g, base, step, SUBSET (1 .. n))
  <2> HIDE DEF step, n, base
  <2>1. QED
    BY <1>1, <1>2, <1>3, FoldExists
<1>5. Fits(g)
  <2>1. ASSUME NEW s \in SUBSET (1 .. n)
        PROVE  g[s] = IF s = {} THEN base ELSE Notice(g[s \ {Max(s)}], listing[Max(s)])
    <3>1. CASE s = {}
      BY <1>4, <3>1 DEF Folds
    <3>2. CASE s # {}
      <4>1. Max(s) \in 1 .. n
        BY <1>1, <3>2, MaxIsGreatest
      <4>2. g[s \ {Max(s)}] \in Deltas
        BY <1>4
      <4>3. g[s] = step[<<g[s \ {Max(s)}], Max(s)>>]
        BY <1>4, <3>2 DEF Folds
      <4>4. QED
        BY <3>2, <4>1, <4>2, <4>3
    <3>3. QED
      BY <3>1, <3>2
  <2>2. g = [s \in SUBSET (1 .. n) |-> g[s]]
    BY <1>4
  <2> HIDE DEF n
  <2>3. QED
    BY <1>1, <2>1, <2>2
<1>6. Fits(fold)
  BY <1>5
<1>7. FoldLeft(Notice, base, listing) = fold[DOMAIN listing]
  BY DEF FoldLeft, MapThenFoldSet
<1> HIDE DEF fold
<1>8. \A s \in SUBSET (1 .. n) :
         fold[s] = IF s = {} THEN base ELSE Notice(fold[s \ {Max(s)}], listing[Max(s)])
  BY <1>1, <1>6
<1> DEFINE trail == [k \in 0 .. n |-> fold[1 .. k]]
<1>9. trail[0] = base
  <2>1. 1 .. 0 = {} /\ 0 \in 0 .. n
    BY <1>1
  <2>2. QED
    BY <1>8, <2>1
<1>10. ASSUME NEW k \in 1 .. n PROVE trail[k] = Notice(trail[k - 1], listing[k])
  <2>1. k \in 0 .. n /\ k - 1 \in 0 .. n
    BY <1>1
  <2>2. fold[1 .. k] = Notice(fold[1 .. k - 1], listing[k])
    <3>1. /\ 1 .. k \in SUBSET (1 .. n) /\ 1 .. k # {}
          /\ Max(1 .. k) = k /\ (1 .. k) \ {k} = 1 .. k - 1
      BY <1>1, Unwinds
    <3> HIDE DEF n
    <3>2. QED
      BY <1>8, <3>1
  <2>3. QED
    BY <2>1, <2>2
<1>11. trail[n] = fold[DOMAIN listing]
  BY <1>1
<1>12. QED
  BY <1>7, <1>9, <1>10, <1>11 DEF Loops

\* What the bound keeps was there.
LEMMA EvictedFacts ==
    ASSUME NEW seen \in Seq(Signals)
    PROVE  Evicted(seen) \in Seq(Signals) /\ ToSet(Evicted(seen)) \subseteq ToSet(seen)
<1>1. /\ Len(seen) \in Nat /\ Bound \in Nat /\ DOMAIN seen = 1 .. Len(seen)
      /\ \A k \in 1 .. Len(seen) : seen[k] \in Signals
  BY LenProperties, ElementOfSeq, DeltaAssumption
<1>2. CASE ~ (Len(seen) > Bound)
  BY <1>2 DEF Evicted
<1>3. CASE Len(seen) > Bound
  <2> DEFINE first == Len(seen) - Bound + 1
             last  == Len(seen)
             kept  == SubSeq(seen, first, last)
  <2>1. Evicted(seen) = kept
    BY <1>3 DEF Evicted
  <2>2. first \in Int /\ last \in Int /\ 1 <= first /\ last = Len(seen)
    BY <1>1, <1>3
  <2>3. \A i \in first .. last : seen[i] \in Signals
    BY <1>1, <2>2
  <2> HIDE DEF first, last
  <2>4. /\ kept \in Seq(Signals)
        /\ Len(kept) = IF first <= last THEN last - first + 1 ELSE 0
        /\ \A i \in 1 .. last - first + 1 : kept[i] = seen[first + i - 1]
    BY <2>2, <2>3, SubSeqProperties
  <2>5. DOMAIN kept = 1 .. Len(kept)
    BY <2>4, LenProperties
  <2>6. ASSUME NEW i \in 1 .. Len(kept) PROVE kept[i] \in ToSet(seen)
    <3>1. i \in 1 .. last - first + 1
      BY <2>2, <2>4
    <3>2. first + i - 1 \in 1 .. Len(seen)
      BY <2>2, <3>1
    <3>3. QED
      BY <1>1, <2>4, <3>1, <3>2 DEF ToSet
  <2> HIDE DEF kept
  <2>7. QED
    BY <2>1, <2>4, <2>5, <2>6 DEF ToSet
<1>4. QED
  BY <1>2, <1>3

\* What a delta finds fresh is listed, what is listed is fresh or was seen as it is, and
\* the cursor it leaves holds nothing else (delta.py apply_delta).
LEMMA DeltaFacts ==
    ASSUME NEW listing \in Seq(Signals), NEW seen \in Seq(Signals)
    PROVE  LET delta == ApplyDelta(listing, seen)
           IN  /\ delta.seen \in Seq(Signals) /\ delta.fresh \in SUBSET Signals
               /\ delta.fresh \subseteq ToSet(listing)
               /\ ToSet(listing) \subseteq delta.fresh \cup ToSet(seen)
               /\ ToSet(delta.seen) \subseteq ToSet(seen) \cup delta.fresh
<1> DEFINE n == Len(listing)
<1>1. n \in Nat /\ DOMAIN listing = 1 .. n /\ \A k \in 1 .. n : listing[k] \in Signals
  BY LenProperties, ElementOfSeq
<1>2. PICK trail : /\ Loops(trail, seen, listing)
                   /\ FoldLeft(Notice, Opening(seen), listing) = trail[n]
  BY DeltaLoops
<1> DEFINE Right(k) ==
             /\ trail[k] \in Deltas
             /\ trail[k].fresh \subseteq ToSet(listing)
             /\ \A j \in 1 .. k : listing[j] \in trail[k].fresh \cup ToSet(seen)
             /\ ToSet(trail[k].seen) \subseteq ToSet(seen) \cup trail[k].fresh
           wrong == {k \in 0 .. n : ~ Right(k)}
<1>3. Right(0)
  <2>1. trail[0] = [seen |-> seen, fresh |-> {}]
    BY <1>2 DEF Loops, Opening
  <2>2. QED
    BY <2>1 DEF Deltas
<1>4. ASSUME NEW k \in 1 .. n, Right(k - 1) PROVE Right(k)
  <2> DEFINE old == trail[k - 1]
             new == trail[k]
             s   == listing[k]
  <2>1. new = Notice(old, s) /\ s \in Signals /\ old \in Deltas
    BY <1>1, <1>2, <1>4 DEF Loops
  <2>2. s \in ToSet(listing)
    BY <1>1 DEF ToSet
  <2>3. /\ old.fresh \subseteq ToSet(listing)
        /\ \A j \in 1 .. k - 1 : listing[j] \in old.fresh \cup ToSet(seen)
        /\ ToSet(old.seen) \subseteq ToSet(seen) \cup old.fresh
    BY <1>4
  <2> HIDE DEF old, new
  <2>4. /\ new \in Deltas
        /\ new.fresh \subseteq old.fresh \cup {s}
        /\ old.fresh \subseteq new.fresh
        /\ s \in new.fresh \cup ToSet(old.seen)
        /\ ToSet(new.seen) \subseteq ToSet(old.seen) \cup new.fresh
    BY <2>1, NoticeFacts
  <2>5. \A j \in 1 .. k : listing[j] \in new.fresh \cup ToSet(seen)
    <3> TAKE j \in 1 .. k
    <3>1. CASE j = k
      BY <2>3, <2>4, <3>1
    <3>2. CASE j # k
      <4>1. j \in 1 .. k - 1
        BY <3>2
      <4>2. QED
        BY <2>3, <2>4, <4>1
    <3>3. QED
      BY <3>1, <3>2
  <2>6. new.fresh \subseteq ToSet(listing) /\ ToSet(new.seen) \subseteq ToSet(seen) \cup new.fresh
    BY <2>2, <2>3, <2>4
  <2>7. QED
    BY <2>4, <2>5, <2>6 DEF new
<1> HIDE DEF Right
<1>5. ASSUME wrong # {} PROVE FALSE
  <2>1. PICK k \in wrong : \A m \in wrong : k <= m
    <3>1. wrong \subseteq Nat
      BY <1>1
    <3> HIDE DEF wrong
    <3>2. QED
      BY <1>5, <3>1, Least
  <2>2. k # 0 /\ k \in 0 .. n
    BY <1>3
  <2>3. k \in 1 .. n /\ k - 1 \in 0 .. n /\ ~ (k <= k - 1)
    BY <1>1, <2>2
  <2>4. k - 1 \notin wrong
    <3> HIDE DEF wrong
    <3>1. QED
      BY <2>1, <2>3
  <2>5. QED
    BY <1>4, <2>3, <2>4
<1>6. Right(n)
  <2>1. n \in 0 .. n
    BY <1>1
  <2>2. QED
    BY <1>5, <2>1
<1> DEFINE last == trail[n]
<1>7. /\ last \in Deltas
      /\ last.fresh \subseteq ToSet(listing)
      /\ ToSet(listing) \subseteq last.fresh \cup ToSet(seen)
      /\ ToSet(last.seen) \subseteq ToSet(seen) \cup last.fresh
  BY <1>1, <1>6 DEF Right, ToSet
<1>8. ApplyDelta(listing, seen) = [last EXCEPT !.seen = Evicted(last.seen)]
  <2>1. FoldLeft(Notice, [seen |-> seen, fresh |-> {}], listing) = last
    BY <1>2 DEF Opening
  <2> HIDE DEF last
  <2>2. QED
    BY <2>1 DEF ApplyDelta
<1> HIDE DEF last
<1>9. last.seen \in Seq(Signals) /\ last.fresh \in SUBSET Signals
  BY <1>7 DEF Deltas
<1>10. /\ ApplyDelta(listing, seen).seen = Evicted(last.seen)
       /\ ApplyDelta(listing, seen).fresh = last.fresh
  BY <1>7, <1>8 DEF Deltas
<1>11. QED
  BY <1>7, <1>9, <1>10, EvictedFacts

-------------------------------------------------------------------------------
(* normalize *)

\* The signal of an entry, and of a listing entry by entry.
LEMMA SignalsOfFacts ==
    ASSUME NEW listing \in Listings
    PROVE  /\ SignalsOf(listing) \in Seq(Signals)
           /\ \A other \in Listings : ToSet(listing) \subseteq ToSet(other) =>
                 ToSet(SignalsOf(listing)) \subseteq ToSet(SignalsOf(other))
<1>1. /\ Len(listing) \in Nat /\ DOMAIN listing = 1 .. Len(listing)
      /\ \A k \in 1 .. Len(listing) : listing[k] \in Entries
  BY LenProperties, ElementOfSeq DEF Listings
<1>2. MaxVersion \in Nat \ {0}
  BY DeltaAssumption
<1>3. \A e \in Entries : SignalOf(e) \in Signals
  BY <1>2 DEF Entries, SignalOf, Signals
<1>4. SignalsOf(listing) \in [1 .. Len(listing) -> Signals]
  BY <1>1, <1>3 DEF SignalsOf
<1>5. SignalsOf(listing) \in Seq(Signals)
  BY <1>1, <1>4, SeqDef
<1>6. ASSUME NEW other \in Listings, ToSet(listing) \subseteq ToSet(other),
             NEW s \in ToSet(SignalsOf(listing))
      PROVE  s \in ToSet(SignalsOf(other))
  <2>1. PICK k \in DOMAIN listing : s = SignalOf(listing[k])
    BY DEF ToSet, SignalsOf
  <2>2. PICK j \in DOMAIN other : listing[k] = other[j]
    BY <1>6 DEF ToSet
  <2>3. QED
    BY <2>1, <2>2 DEF ToSet, SignalsOf
<1>7. QED
  BY <1>5, <1>6

\* The first entries of a listing are entries of it, in its order.
LEMMA FirstFacts ==
    ASSUME NEW listing \in Listings
    PROVE  /\ First(listing) \in Listings /\ ToSet(First(listing)) \subseteq ToSet(listing)
           /\ Begins(First(listing), listing)
<1> DEFINE n == IF Len(listing) < Window THEN Len(listing) ELSE Window
<1>1. /\ Len(listing) \in Nat /\ DOMAIN listing = 1 .. Len(listing)
      /\ \A k \in 1 .. Len(listing) : listing[k] \in Entries
  BY LenProperties, ElementOfSeq DEF Listings
<1>2. n \in Nat /\ n <= Len(listing)
  BY <1>1, ConnectorAssumption
<1>3. First(listing) = SubSeq(listing, 1, n)
  BY DEF First
<1> HIDE DEF n
<1>4. 1 \in Int /\ n \in Int /\ \A i \in 1 .. n : listing[i] \in Entries
  BY <1>1, <1>2
<1>5. /\ First(listing) \in Seq(Entries)
      /\ Len(First(listing)) = IF 1 <= n THEN n - 1 + 1 ELSE 0
      /\ \A i \in 1 .. n - 1 + 1 : First(listing)[i] = listing[1 + i - 1]
  BY <1>3, <1>4, SubSeqProperties
<1>6. DOMAIN First(listing) = 1 .. Len(First(listing))
  BY <1>5, LenProperties
<1>7. ASSUME NEW i \in 1 .. Len(First(listing))
      PROVE  First(listing)[i] \in ToSet(listing) /\ First(listing)[i] = listing[i]
  <2>1. i \in 1 .. n - 1 + 1 /\ 1 + i - 1 = i /\ i \in 1 .. Len(listing)
    BY <1>2, <1>5
  <2>2. QED
    BY <1>1, <1>5, <2>1 DEF ToSet
<1>8. Len(First(listing)) <= Len(listing)
  BY <1>1, <1>2, <1>5
<1>9. QED
  BY <1>5, <1>6, <1>7, <1>8 DEF ToSet, Listings, Begins

\* What the terms of a configuration leave of a listing are entries of it, each once, and
\* all of them if there are no terms.
LEMMA PickedFacts ==
    ASSUME NEW listing \in Listings, NEW picky \in BOOLEAN
    PROVE  /\ Picked(listing, picky) \in Listings
           /\ ToSet(Picked(listing, picky)) \subseteq ToSet(listing)
           /\ Apart(listing) => Apart(Picked(listing, picky))
           /\ ~ picky => Begins(Picked(listing, picky), listing)
<1> DEFINE n     == Len(listing)
           Wanted(e) == picky => e.event \in Matching
           Keep(kept, e) == IF Wanted(e) THEN Append(kept, e) ELSE kept
           V     == {kept \in Listings : ToSet(kept) \subseteq ToSet(listing)}
           step  == [x \in V \X (1 .. n) |-> Keep(x[1], listing[x[2]])]
           Fits(g) == g = [s \in SUBSET DOMAIN listing |->
                             IF s = {} THEN << >>
                             ELSE Keep(g[s \ {Max(s)}], listing[Max(s)])]
           fold == CHOOSE g : Fits(g)
<1>1. n \in Nat /\ DOMAIN listing = 1 .. n /\ \A k \in 1 .. n : listing[k] \in Entries
  BY LenProperties, ElementOfSeq DEF Listings
<1>2. << >> \in V
  BY DEF Listings, ToSet
<1>3. ASSUME NEW kept \in V, NEW k \in 1 .. n PROVE Keep(kept, listing[k]) \in V
  <2>1. /\ Append(kept, listing[k]) \in Listings
        /\ Len(Append(kept, listing[k])) = Len(kept) + 1
        /\ Len(kept) \in Nat /\ DOMAIN kept = 1 .. Len(kept)
        /\ \A i \in 1 .. Len(kept) : Append(kept, listing[k])[i] = kept[i]
        /\ Append(kept, listing[k])[Len(kept) + 1] = listing[k]
    BY <1>1, AppendProperties, LenProperties DEF Listings
  <2>2. DOMAIN Append(kept, listing[k]) = 1 .. Len(kept) + 1
    BY <2>1, LenProperties DEF Listings
  <2>3. ASSUME NEW i \in 1 .. Len(kept) + 1
        PROVE  Append(kept, listing[k])[i] \in ToSet(listing)
    <3>1. CASE i \in 1 .. Len(kept)
      BY <2>1, <3>1 DEF ToSet
    <3>2. CASE i = Len(kept) + 1
      BY <1>1, <2>1, <3>2 DEF ToSet
    <3>3. QED
      BY <2>1, <3>1, <3>2
  <2>4. ToSet(Append(kept, listing[k])) \subseteq ToSet(listing)
    BY <2>2, <2>3 DEF ToSet
  <2>5. QED
    BY <2>1, <2>4
<1> HIDE DEF V, Keep
<1>4. step \in [V \X (1 .. n) -> V]
  BY <1>3
<1>5. PICK g \in [SUBSET (1 .. n) -> V] : Folds(g, << >>, step, SUBSET (1 .. n))
  <2> HIDE DEF step, n
  <2>1. QED
    BY <1>1, <1>2, <1>4, FoldExists
<1>6. Fits(g)
  <2>1. ASSUME NEW s \in SUBSET (1 .. n)
        PROVE  g[s] = IF s = {} THEN << >> ELSE Keep(g[s \ {Max(s)}], listing[Max(s)])
    <3>1. CASE s = {}
      BY <1>5, <3>1 DEF Folds
    <3>2. CASE s # {}
      <4>1. Max(s) \in 1 .. n
        BY <1>1, <3>2, MaxIsGreatest
      <4>2. g[s \ {Max(s)}] \in V
        BY <1>5
      <4>3. g[s] = step[<<g[s \ {Max(s)}], Max(s)>>]
        BY <1>5, <3>2 DEF Folds
      <4>4. QED
        BY <3>2, <4>1, <4>2, <4>3
    <3>3. QED
      BY <3>1, <3>2
  <2>2. g = [s \in SUBSET (1 .. n) |-> g[s]]
    BY <1>5
  <2> HIDE DEF n
  <2>3. QED
    BY <1>1, <2>1, <2>2
<1>7. Fits(fold)
  BY <1>6
<1>8. Picked(listing, picky) = fold[DOMAIN listing]
  BY DEF Picked, FoldLeft, MapThenFoldSet, Keep
<1> HIDE DEF fold
<1>9. \A s \in SUBSET (1 .. n) :
         fold[s] = IF s = {} THEN << >> ELSE Keep(fold[s \ {Max(s)}], listing[Max(s)])
  BY <1>1, <1>7
<1> DEFINE Right(k) ==
             /\ fold[1 .. k] \in V
             /\ \A i \in 1 .. Len(fold[1 .. k]) : \E j \in 1 .. k : fold[1 .. k][i] = listing[j]
             /\ Apart(listing) => Apart(fold[1 .. k])
             /\ ~ picky => Len(fold[1 .. k]) = k /\ \A i \in 1 .. k : fold[1 .. k][i] = listing[i]
           wrong == {k \in 0 .. n : ~ Right(k)}
<1>10. Right(0)
  <2>1. fold[1 .. 0] = << >>
    <3>1. 1 .. 0 = {} /\ {} \in SUBSET (1 .. n)
      OBVIOUS
    <3>2. QED
      BY <1>9, <3>1
  <2>2. Len(<< >>) = 0 /\ DOMAIN << >> = {}
    OBVIOUS
  <2>3. QED
    BY <1>2, <2>1, <2>2 DEF Apart
<1>11. ASSUME NEW k \in 1 .. n, Right(k - 1) PROVE Right(k)
  <2> DEFINE old == fold[1 .. k - 1]
             new == fold[1 .. k]
             e   == listing[k]
  <2>1. new = Keep(old, e)
    <3>1. /\ 1 .. k \in SUBSET (1 .. n) /\ 1 .. k # {}
          /\ Max(1 .. k) = k /\ (1 .. k) \ {k} = 1 .. k - 1
      BY <1>1, Unwinds
    <3> HIDE DEF n
    <3>2. QED
      BY <1>9, <3>1
  <2>2. /\ old \in V
        /\ \A i \in 1 .. Len(old) : \E j \in 1 .. k - 1 : old[i] = listing[j]
        /\ Apart(listing) => Apart(old)
        /\ ~ picky => Len(old) = k - 1 /\ \A i \in 1 .. k - 1 : old[i] = listing[i]
    BY <1>11
  <2> HIDE DEF old, new
  <2>3. new \in V
    BY <1>3, <2>1, <2>2
  <2>4. old \in Seq(Entries) /\ Len(old) \in Nat /\ DOMAIN old = 1 .. Len(old) /\ e \in Entries
    BY <1>1, <2>2, LenProperties DEF V, Listings
  <2>5. k \in 1 .. k /\ \A j \in 1 .. k - 1 : j \in 1 .. k /\ j \in 1 .. n /\ j # k
    BY <1>1
  <2>6. CASE new = old /\ picky
    BY <2>2, <2>3, <2>5, <2>6 DEF new
  <2>7. CASE new = Append(old, e)
    <3>1. /\ Len(new) = Len(old) + 1 /\ new[Len(old) + 1] = e /\ DOMAIN new = 1 .. Len(old) + 1
          /\ \A i \in 1 .. Len(old) : new[i] = old[i]
      BY <2>4, <2>7, AppendProperties, LenProperties
    <3>2. \A i \in 1 .. Len(old) + 1 : i \in 1 .. Len(old) \/ i = Len(old) + 1
      BY <2>4
    <3>3. \A i \in 1 .. Len(new) : \E j \in 1 .. k : new[i] = listing[j]
      BY <2>2, <2>5, <3>1, <3>2
    <3>4. ASSUME Apart(listing) PROVE Apart(new)
      <4>1. \A i \in 1 .. Len(old) : old[i].event # e.event
        BY <1>1, <2>2, <2>5, <3>4 DEF Apart
      <4> SUFFICES ASSUME NEW i \in 1 .. Len(old) + 1, NEW j \in 1 .. Len(old) + 1,
                          new[i].event = new[j].event
                   PROVE  i = j
        BY <3>1 DEF Apart
      <4>2. CASE i \in 1 .. Len(old) /\ j \in 1 .. Len(old)
        BY <2>2, <2>4, <3>1, <3>4, <4>2 DEF Apart
      <4>3. CASE i = Len(old) + 1 \/ j = Len(old) + 1
        BY <3>1, <3>2, <4>1, <4>3
      <4>4. QED
        BY <3>2, <4>2, <4>3
    <3>5. ASSUME ~ picky PROVE Len(new) = k /\ \A i \in 1 .. k : new[i] = listing[i]
      <4>1. Len(old) = k - 1 /\ Len(old) + 1 = k
        BY <1>1, <2>2, <3>5
      <4>2. QED
        BY <2>2, <3>1, <3>2, <3>5, <4>1
    <3>6. QED
      BY <2>3, <3>3, <3>4, <3>5 DEF new
  <2>8. QED
    BY <2>1, <2>6, <2>7 DEF Keep
<1> HIDE DEF Right
<1>12. ASSUME wrong # {} PROVE FALSE
  <2>1. PICK k \in wrong : \A m \in wrong : k <= m
    <3>1. wrong \subseteq Nat
      BY <1>1
    <3> HIDE DEF wrong
    <3>2. QED
      BY <1>12, <3>1, Least
  <2>2. k # 0 /\ k \in 0 .. n
    BY <1>10
  <2>3. k \in 1 .. n /\ k - 1 \in 0 .. n /\ ~ (k <= k - 1)
    BY <1>1, <2>2
  <2>4. k - 1 \notin wrong
    <3> HIDE DEF wrong
    <3>1. QED
      BY <2>1, <2>3
  <2>5. QED
    BY <1>11, <2>3, <2>4
<1>13. Right(n)
  <2>1. n \in 0 .. n
    BY <1>1
  <2>2. QED
    BY <1>12, <2>1
<1>14. /\ fold[1 .. n] \in V /\ (Apart(listing) => Apart(fold[1 .. n]))
       /\ ~ picky => Len(fold[1 .. n]) = n /\ \A i \in 1 .. n : fold[1 .. n][i] = listing[i]
  BY <1>13 DEF Right
<1>15. Picked(listing, picky) = fold[1 .. n]
  BY <1>1, <1>8
<1>16. ~ picky => Begins(Picked(listing, picky), listing)
  <2> HIDE DEF fold
  <2>1. QED
    BY <1>1, <1>14, <1>15 DEF Begins
<1>17. QED
  BY <1>14, <1>15, <1>16 DEF V

\* What an adapter may make signals of: entries of a payload, each once, and the first
\* ones if there are no terms.
Chooses(chosen, listing, picky) ==
    /\ chosen \in Listings /\ ToSet(chosen) \subseteq ToSet(listing)
    /\ Apart(listing) => Apart(chosen)
    /\ ~ picky => Begins(chosen, listing)

\* Every adapter does.
LEMMA AdapterChooses ==
    ASSUME NEW listing \in Listings, NEW picky \in BOOLEAN, type \in Types
    PROVE  \E chosen \in Listings : /\ Normalize(listing, picky) = SignalsOf(chosen)
                                    /\ Chooses(chosen, listing, picky)
<1>1. \A some, all \in Listings : Begins(some, all) /\ Apart(all) => Apart(some)
  <2> SUFFICES ASSUME NEW some \in Listings, NEW all \in Listings, Begins(some, all), Apart(all)
               PROVE  Apart(some)
    OBVIOUS
  <2>1. /\ DOMAIN some = 1 .. Len(some) /\ DOMAIN all = 1 .. Len(all)
        /\ Len(some) \in Nat /\ Len(all) \in Nat
    BY LenProperties DEF Listings
  <2>2. \A i \in 1 .. Len(some) : i \in 1 .. Len(all) /\ some[i] = all[i]
    BY <2>1 DEF Begins
  <2>3. QED
    BY <2>1, <2>2 DEF Apart
<1>2. \A list \in Listings : Begins(list, list)
  <2> SUFFICES ASSUME NEW list \in Listings PROVE Begins(list, list)
    OBVIOUS
  <2>1. Len(list) \in Nat
    BY LenProperties DEF Listings
  <2>2. QED
    BY <2>1 DEF Begins
<1>3. Chooses(listing, listing, picky)
  BY <1>2 DEF Chooses
<1>4. Chooses(First(listing), listing, picky)
  BY <1>1, FirstFacts DEF Chooses
<1>5. Chooses(Picked(listing, picky), listing, picky)
  BY PickedFacts DEF Chooses
<1>6. Chooses(Picked(First(listing), picky), listing, picky)
  <2>1. First(listing) \in Listings
    BY FirstFacts
  <2>2. Chooses(Picked(First(listing), picky), First(listing), picky)
    BY <2>1, PickedFacts DEF Chooses
  <2>3. ASSUME ~ picky PROVE Begins(Picked(First(listing), picky), listing)
    <3> DEFINE short == Picked(First(listing), picky)
               first == First(listing)
    <3>1. Begins(short, first) /\ Begins(first, listing)
      BY <2>2, <2>3, FirstFacts DEF Chooses
    <3>2. Len(short) \in Nat /\ Len(first) \in Nat /\ Len(listing) \in Nat
      BY <2>1, <2>2, LenProperties DEF Chooses, Listings
    <3> HIDE DEF short, first
    <3>3. Begins(short, listing)
      BY <3>1, <3>2 DEF Begins
    <3>4. QED
      BY <3>3 DEF short
  <2>4. QED
    BY <1>4, <2>2, <2>3 DEF Chooses
<1>7. type \in {"statuspage", "nws", "nvd", "cisa_kev", "sec_edgar", "rss"}
  BY ConnectorAssumption
<1>8. CASE type \in {"statuspage", "nws", "nvd"}
  BY <1>3, <1>8 DEF Normalize, Statuspage, Nws, Nvd
<1>9. CASE type = "cisa_kev"
  BY <1>5, <1>9 DEF Normalize, Cisa, Chooses
<1>10. CASE type = "sec_edgar"
  BY <1>6, <1>10 DEF Normalize, Sec, Chooses
<1>11. CASE type = "rss"
  BY <1>4, <1>11 DEF Normalize, Rss, Chooses
<1>12. QED
  BY <1>7, <1>8, <1>9, <1>10, <1>11

\* Whatever the adapter, the signals of a payload are signals of its entries.
LEMMA NormalizeFacts ==
    ASSUME NEW listing \in Listings, NEW picky \in BOOLEAN, type \in Types
    PROVE  /\ Normalize(listing, picky) \in Seq(Signals)
           /\ ToSet(Normalize(listing, picky)) \subseteq ToSet(SignalsOf(listing))
BY AdapterChooses, SignalsOfFacts DEF Chooses
-------------------------------------------------------------------------------
(* What a cursor suppresses and what a signal names *)

\* The types of what the source, the cursor and the polls hold.
DataTypeOK ==
    /\ newestFirst \in BOOLEAN /\ feed \in Listings /\ published \in 0 .. MaxEvents
    /\ type \in Types /\ tagged \in BOOLEAN /\ visible \in BOOLEAN
    /\ cursor \in Cursors
    /\ polls \in [Polls -> PollRecords \cup {None}]
    /\ archive \in SUBSET Listings
    /\ signals \in [Signals -> Listings \cup {None}]
    /\ noticed \in SUBSET Signals /\ lost \in SUBSET Signals
    /\ requests \in 0 .. MaxRequests

\* Everything a cursor suppresses, one by one or by its tag, was kept.
Vouched(c) ==
    /\ \A s \in ToSet(c.seen) : Kept(s)
    /\ c.etag # None => \A s \in ToSet(Normalize(c.etag, c.picky)) : Kept(s)
    /\ ~ tagged => c.etag = None

\* A fresh signal of a payload that was archived.
Sourced(payload, fresh) ==
    payload \in archive /\ fresh \subseteq ToSet(SignalsOf(payload))

PollSound(record) ==
    /\ Vouched(record.cursor)
    /\ record.step # "asking" => record.reply \in Listings
    /\ record.step = "storing" => Sourced(record.reply, record.fresh)

\* The copy of the cursor that a poll holds is as good as the stored one.
DataInv ==
    /\ DataTypeOK
    /\ Vouched(cursor)
    /\ \A p \in Polls : polls[p] # None => PollSound(polls[p])
    /\ SignalsHaveSource

\* A listing in either order is a listing.
LEMMA ListingIsListing == feed \in Listings => Listing \in Listings
<1> SUFFICES ASSUME feed \in Listings PROVE Listing \in Listings
  OBVIOUS
<1>1. Reverse(feed) = [i \in 1 .. Len(feed) |-> feed[(Len(feed) - i) + 1]]
  BY DEF Reverse
<1>2. Len(feed) \in Nat /\ \A i \in 1 .. Len(feed) : feed[(Len(feed) - i) + 1] \in Entries
  BY LenProperties, ElementOfSeq DEF Listings
<1>3. Reverse(feed) \in Seq(Entries)
  BY <1>1, <1>2, SeqDef
<1>4. QED
  BY <1>3 DEF Listing, Listings

\* What a cursor vouches for is a set of signals, and stays kept with them.
LEMMA VouchedStays ==
    ASSUME DataTypeOK, NEW CONSTANT c \in Cursors, Vouched(c), UNCHANGED adapterVars,
           \A s \in Signals : Kept(s) => Kept(s)'
    PROVE  Vouched(c)'
<1>1. ToSet(c.seen) \subseteq Signals
  BY ElementOfSeq, LenProperties DEF Cursors, ToSet
<1>2. ASSUME c.etag # None PROVE ToSet(Normalize(c.etag, c.picky)) \subseteq Signals
  <2>1. Normalize(c.etag, c.picky) \in Seq(Signals)
    BY <1>2, NormalizeFacts DEF Cursors, DataTypeOK
  <2>2. QED
    BY <2>1, ElementOfSeq, LenProperties DEF ToSet
<1>3. UNCHANGED <<type, tagged, visible>>
  BY DEF adapterVars
<1>4. Normalize(c.etag, c.picky)' = Normalize(c.etag, c.picky)
  BY <1>3 DEF Normalize, Statuspage, Nws, Nvd, Cisa, Sec, Rss, SignalsOf, SignalOf
<1>5. \A s \in ToSet(c.seen) : Kept(s)'
  BY <1>1 DEF Vouched
<1>6. c.etag # None => \A s \in ToSet(Normalize(c.etag, c.picky))' : Kept(s)'
  BY <1>2, <1>4 DEF Vouched, ToSet
<1>7. QED
  BY <1>3, <1>5, <1>6 DEF Vouched

\* What a step has to show: what was kept stays kept, archives only grow, and polls and
\* the stored cursor hold nothing but what was vouched for, or is now.
LEMMA Carries ==
    ASSUME DataInv, DataTypeOK', UNCHANGED adapterVars, archive \subseteq archive',
           \A s \in Signals : Kept(s) => Kept(s)',
           \/ cursor' = cursor
           \/ \E p \in Polls : polls[p] # None /\ cursor' = polls[p].cursor
           \/ Vouched(cursor)',
           \A q \in Polls : polls'[q] # None =>
              /\ \/ polls'[q].cursor = cursor
                 \/ polls[q] # None /\ polls'[q].cursor = polls[q].cursor
              /\ polls'[q].step # "asking" => polls'[q].reply \in Listings
              /\ polls'[q].step = "storing" =>
                    /\ polls'[q].reply \in archive'
                    /\ polls'[q].fresh \subseteq ToSet(SignalsOf(polls'[q].reply)),
           \A s \in Signals : signals'[s] # None =>
              /\ signals'[s] \in archive'
              /\ s \in ToSet(SignalsOf(signals'[s]))
    PROVE  DataInv'
<1>1. UNCHANGED <<type, tagged, visible>>
  BY DEF adapterVars
<1>2. cursor \in Cursors /\ \A q \in Polls : polls[q] # None => polls[q].cursor \in Cursors
  BY DEF DataInv, DataTypeOK, PollRecords
<1>3. \A c \in Cursors : Vouched(c) => Vouched(c)'
  BY VouchedStays DEF DataInv
<1>4. Vouched(cursor)'
  <2>1. CASE cursor' = cursor
    <3>1. PICK c \in Cursors : c = cursor
      BY <1>2
    <3>2. Vouched(c)'
      BY <1>3, <3>1 DEF DataInv
    <3>3. QED
      BY <2>1, <3>1, <3>2 DEF Vouched
  <2>2. ASSUME NEW p \in Polls, polls[p] # None, cursor' = polls[p].cursor
        PROVE  Vouched(cursor)'
    <3>1. PICK c \in Cursors : c = polls[p].cursor
      BY <1>2, <2>2
    <3>2. Vouched(c)'
      BY <1>3, <2>2, <3>1 DEF DataInv, PollSound
    <3>3. QED
      BY <2>2, <3>1, <3>2 DEF Vouched
  <2>3. QED
    BY <2>1, <2>2
<1>5. ASSUME NEW q \in Polls, polls'[q] # None PROVE PollSound(polls[q])'
  <2>1. PICK c \in Cursors : c = polls'[q].cursor /\ Vouched(c)
    BY <1>2, <1>5 DEF DataInv, PollSound
  <2>2. Vouched(c)'
    BY <1>3, <2>1
  <2>3. Vouched(polls[q].cursor)'
    BY <2>1, <2>2 DEF Vouched
  <2>4. polls'[q].step # "asking" => polls'[q].reply \in Listings
    BY <1>5
  <2>5. polls'[q].step = "storing" => Sourced(polls[q].reply, polls[q].fresh)'
    BY <1>1, <1>5 DEF Sourced, SignalsOf, SignalOf
  <2>7. QED
    BY <2>3, <2>4, <2>5 DEF PollSound
<1>6. SignalsHaveSource'
  BY <1>1 DEF SignalsHaveSource, SignalsOf, SignalOf
<1>7. QED
  BY <1>4, <1>5, <1>6 DEF DataInv

\* Initially nothing is suppressed and nothing stored.
LEMMA InitData == Init => DataInv
<1> SUFFICES ASSUME Init PROVE DataInv
  OBVIOUS
<1>1. << >> \in Listings /\ << >> \in Seq(Signals)
  BY EmptySeq DEF Listings
<1>2. NewCursor \in Cursors
  BY <1>1 DEF NewCursor, Cursors
<1>3. DataTypeOK
  BY <1>1, <1>2, DeltaAssumption, ConnectorAssumption DEF Init, SourceInit, DataTypeOK
<1>4. Vouched(cursor)
  BY DEF Init, NewCursor, Vouched, ToSet
<1>5. QED
  BY <1>3, <1>4 DEF Init, DataInv, SignalsHaveSource

\* The steps of a poll that write no signal and lose none.
LEMMA PollStepsData ==
    ASSUME IInv, DataInv, NEW p \in Polls,
           \/ PollBegins(p) \/ SourceAnswers(p) \/ NotModified(p) \/ FetchFails(p)
           \/ SchemaDrifts(p)
    PROVE  DataInv'
<1>1. /\ polls \in [Polls -> PollRecords \cup {None}] /\ cursor \in Cursors
      /\ archive \in SUBSET Listings /\ Listing \in Listings
      /\ signals \in [Signals -> Listings \cup {None}]
      /\ requests \in 0 .. MaxRequests
  BY ListingIsListing DEF DataInv, DataTypeOK
<1>2. UNCHANGED <<newestFirst, feed, published, type, tagged, visible, signals, noticed, lost>>
  BY DEF PollBegins, SourceAnswers, NotModified, FetchFails, SchemaDrifts, sourceVars,
         adapterVars
<1>3. \A q \in Polls : q # p => polls'[q] = polls[q]
  BY <1>1 DEF PollBegins, SourceAnswers, NotModified, FetchFails, SchemaDrifts
<1>4. ~ Storing(p)
  BY DEF PollBegins, SourceAnswers, NotModified, FetchFails, SchemaDrifts, Storing,
         Waiting, LoopFree
<1>5. \A s \in Signals : Kept(s) => Kept(s)'
  BY <1>2, <1>3, <1>4 DEF Kept, Storing
<1>6. /\ polls' \in [Polls -> PollRecords \cup {None}]
      /\ \/ polls'[p] = None
         \/ /\ \/ polls'[p].cursor = cursor
               \/ polls[p] # None /\ polls'[p].cursor = polls[p].cursor
            /\ polls'[p].step # "asking" => polls'[p].reply \in Listings
            /\ polls'[p].step # "storing"
  <2>1. CASE PollBegins(p)
    <3> DEFINE next == [step |-> "asking", picky |-> config.picky, cursor |-> cursor,
                        reply |-> None, fresh |-> {}]
    <3>1. next \in PollRecords
      BY <1>1 DEF PollRecords, IInv, ConfigTypeOK, Configs
    <3>2. polls' = [polls EXCEPT ![p] = next]
      BY <2>1 DEF PollBegins
    <3>3. next.cursor = cursor /\ next.step = "asking"
      OBVIOUS
    <3> HIDE DEF next
    <3>4. polls'[p] = next /\ polls' \in [Polls -> PollRecords \cup {None}]
      BY <1>1, <3>1, <3>2
    <3>5. QED
      BY <3>3, <3>4
  <2>2. CASE SourceAnswers(p)
    <3>1. polls[p] \in PollRecords /\ polls[p] # None
      BY <1>1, <2>2 DEF SourceAnswers, Waiting
    <3>2. PICK step \in {"unmodified", "answered"} :
             polls' = [polls EXCEPT ![p].step = step, ![p].reply = Listing]
      BY <2>2 DEF SourceAnswers
    <3>3. /\ polls'[p] \in PollRecords /\ polls'[p].cursor = polls[p].cursor
          /\ polls'[p].reply = Listing /\ polls'[p].step = step
      BY <1>1, <3>1, <3>2 DEF PollRecords
    <3>4. QED
      BY <1>1, <3>1, <3>2, <3>3
  <2>3. CASE NotModified(p) \/ FetchFails(p) \/ SchemaDrifts(p)
    BY <1>1, <2>3 DEF NotModified, FetchFails, SchemaDrifts
  <2>4. QED
    BY <2>1, <2>2, <2>3
<1>7. \/ cursor' = cursor
      \/ polls[p] # None /\ cursor' = polls[p].cursor
  BY DEF PollBegins, SourceAnswers, NotModified, FetchFails, SchemaDrifts, Waiting
<1>8. \/ archive' = archive
      \/ /\ polls[p] # None /\ polls[p].step = "answered"
         /\ archive' = archive \cup {polls[p].reply}
  <2>1. CASE SchemaDrifts(p)
    BY <2>1 DEF SchemaDrifts, Waiting
  <2>2. CASE PollBegins(p) \/ SourceAnswers(p) \/ NotModified(p) \/ FetchFails(p)
    BY <2>2 DEF PollBegins, SourceAnswers, NotModified, FetchFails
  <2>3. QED
    BY <2>1, <2>2
<1>9. archive \subseteq archive' /\ archive' \in SUBSET Listings
  BY <1>1, <1>8 DEF DataInv, PollSound
<1>10. requests' \in 0 .. MaxRequests
  <2>1. CASE PollBegins(p)
    <3>1. requests' = requests + 1 /\ requests' <= MaxRequests
      BY <2>1 DEF PollBegins
    <3>2. QED
      BY <1>1, <3>1, ConnectorAssumption
  <2>2. CASE SourceAnswers(p) \/ NotModified(p) \/ FetchFails(p) \/ SchemaDrifts(p)
    <3>1. requests' = requests
      BY <2>2 DEF SourceAnswers, NotModified, FetchFails, SchemaDrifts
    <3>2. QED
      BY <1>1, <3>1
  <2>3. QED
    BY <2>1, <2>2
<1>11. cursor' \in Cursors
  BY <1>1, <1>7 DEF PollRecords
<1>12. DataTypeOK'
  BY <1>2, <1>6, <1>9, <1>10, <1>11 DEF DataInv, DataTypeOK
<1>13. \A q \in Polls : polls'[q] # None =>
              /\ \/ polls'[q].cursor = cursor
                 \/ polls[q] # None /\ polls'[q].cursor = polls[q].cursor
              /\ polls'[q].step # "asking" => polls'[q].reply \in Listings
              /\ polls'[q].step = "storing" =>
                    /\ polls'[q].reply \in archive'
                    /\ polls'[q].fresh \subseteq ToSet(SignalsOf(polls'[q].reply))
  <2> TAKE q \in Polls
  <2>1. CASE q = p
    BY <1>6, <2>1
  <2>2. CASE q # p
    BY <1>3, <1>9, <2>2 DEF DataInv, PollSound, Sourced
  <2>3. QED
    BY <2>1, <2>2
<1>14. \A s \in Signals : signals'[s] # None =>
              /\ signals'[s] \in archive'
              /\ s \in ToSet(SignalsOf(signals'[s]))
  BY <1>2, <1>9 DEF DataInv, SignalsHaveSource
<1>15. UNCHANGED adapterVars
  BY <1>2 DEF adapterVars
<1>16. QED
  BY <1>5, <1>7, <1>9, <1>12, <1>13, <1>14, <1>15, Carries

\* A fetch compares against the cursor the poll read, keeps what is fresh, and saves a
\* cursor that suppresses nothing else.
LEMMA FetchedData ==
    ASSUME IInv, DataInv, NEW p \in Polls, Fetched(p)
    PROVE  DataInv'
<1> DEFINE record == polls[p]
           normal == Normalize(record.reply, record.picky)
           delta  == ApplyDelta(normal, record.cursor.seen)
           etag   == IF tagged THEN record.reply ELSE record.cursor.etag
           saved  == [seen |-> delta.seen, etag |-> etag, picky |-> record.picky]
<1>1. /\ polls \in [Polls -> PollRecords \cup {None}] /\ cursor \in Cursors
      /\ archive \in SUBSET Listings /\ noticed \in SUBSET Signals
      /\ signals \in [Signals -> Listings \cup {None}]
      /\ tagged \in BOOLEAN /\ type \in Types
  BY DEF DataInv, DataTypeOK
<1>2. /\ record # None /\ record.step = "answered" /\ ~ Storing(p)
      /\ archive' = archive \cup {record.reply}
      /\ noticed' = noticed \cup delta.fresh
      /\ polls' = [polls EXCEPT ![p].step = "storing", ![p].fresh = delta.fresh]
      /\ UNCHANGED <<newestFirst, feed, published, type, tagged, visible, signals, lost,
                     requests>>
  BY DEF Fetched, FetchedFrom, Waiting, Storing, sourceVars, adapterVars
<1>3. cursor' = saved
  BY DEF Fetched, FetchedFrom, Tag
<1>4. /\ record \in PollRecords /\ record.cursor \in Cursors /\ record.picky \in BOOLEAN
      /\ record.cursor.seen \in Seq(Signals) /\ record.cursor.etag \in Listings \cup {None}
  BY <1>1, <1>2 DEF PollRecords, Cursors
<1>5. record.reply \in Listings /\ Vouched(record.cursor)
  BY <1>2 DEF DataInv, PollSound
<1>6. /\ normal \in Seq(Signals) /\ ToSet(normal) \subseteq ToSet(SignalsOf(record.reply))
  BY <1>1, <1>4, <1>5, NormalizeFacts
<1>7. /\ delta.seen \in Seq(Signals) /\ delta.fresh \in SUBSET Signals
      /\ delta.fresh \subseteq ToSet(normal)
      /\ ToSet(normal) \subseteq delta.fresh \cup ToSet(record.cursor.seen)
      /\ ToSet(delta.seen) \subseteq ToSet(record.cursor.seen) \cup delta.fresh
  BY <1>4, <1>6, DeltaFacts
<1> HIDE DEF delta, normal
<1>8. saved \in Cursors
  BY <1>4, <1>5, <1>7 DEF Cursors
<1>9. /\ polls' \in [Polls -> PollRecords \cup {None}]
      /\ polls'[p] \in PollRecords
      /\ polls'[p].step = "storing" /\ polls'[p].fresh = delta.fresh
      /\ polls'[p].cursor = record.cursor /\ polls'[p].reply = record.reply
      /\ \A q \in Polls : q # p => polls'[q] = polls[q]
  BY <1>1, <1>2, <1>4, <1>7 DEF PollRecords
<1>10. polls'[p] # None
  BY <1>9, NoneAssumption
<1>11. \A s \in Signals : Kept(s) => Kept(s)'
  BY <1>2, <1>9 DEF Kept, Storing
<1>12. \A s \in delta.fresh : Kept(s)'
  BY <1>9, <1>10 DEF Kept, Storing
<1>13. \A s \in ToSet(record.cursor.seen) : Kept(s)'
  <2>1. ToSet(record.cursor.seen) \subseteq Signals
    BY <1>4, ElementOfSeq, LenProperties DEF ToSet
  <2>2. QED
    BY <1>5, <1>11, <2>1 DEF Vouched
<1>14. Vouched(cursor)'
  <2>1. \A s \in ToSet(saved.seen) : Kept(s)'
    BY <1>7, <1>12, <1>13
  <2>2. \A listing, picky : Normalize(listing, picky)' = Normalize(listing, picky)
    BY <1>2 DEF Normalize, Statuspage, Nws, Nvd, Cisa, Sec, Rss, SignalsOf, SignalOf
  <2>3. CASE tagged
    <3>1. \A s \in ToSet(normal) : Kept(s)'
      BY <1>7, <1>12, <1>13
    <3>2. saved.etag = record.reply /\ saved.picky = record.picky
      BY <2>3
    <3>3. \A s \in ToSet(Normalize(saved.etag, saved.picky)) : Kept(s)'
      BY <3>1, <3>2 DEF normal
    <3>4. tagged'
      BY <1>2, <2>3
    <3> HIDE DEF saved
    <3>5. ToSet(Normalize(cursor.etag, cursor.picky))' = ToSet(Normalize(saved.etag, saved.picky))
      BY <1>2, <1>3 DEF Normalize, Statuspage, Nws, Nvd, Cisa, Sec, Rss, SignalsOf, SignalOf
    <3>6. QED
      BY <1>3, <2>1, <3>3, <3>4, <3>5 DEF Vouched
  <2>4. CASE ~ tagged
    <3>1. saved.etag = None
      BY <1>5, <2>4 DEF Vouched
    <3> HIDE DEF saved
    <3>2. QED
      BY <1>3, <2>1, <3>1 DEF Vouched
  <2>5. QED
    BY <2>3, <2>4
<1>15. archive \subseteq archive' /\ archive' \in SUBSET Listings
  BY <1>1, <1>2, <1>5
<1>16. DataTypeOK'
  BY <1>1, <1>2, <1>3, <1>7, <1>8, <1>9, <1>15 DEF DataInv, DataTypeOK
<1>17. \A q \in Polls : polls'[q] # None =>
              /\ \/ polls'[q].cursor = cursor
                 \/ polls[q] # None /\ polls'[q].cursor = polls[q].cursor
              /\ polls'[q].step # "asking" => polls'[q].reply \in Listings
              /\ polls'[q].step = "storing" =>
                    /\ polls'[q].reply \in archive'
                    /\ polls'[q].fresh \subseteq ToSet(SignalsOf(polls'[q].reply))
  <2> TAKE q \in Polls
  <2>1. CASE q = p
    BY <1>2, <1>5, <1>6, <1>7, <1>9, <2>1
  <2>2. CASE q # p
    BY <1>9, <1>15, <2>2 DEF DataInv, PollSound, Sourced
  <2>3. QED
    BY <2>1, <2>2
<1>18. \A s \in Signals : signals'[s] # None =>
              /\ signals'[s] \in archive'
              /\ s \in ToSet(SignalsOf(signals'[s]))
  BY <1>2, <1>15 DEF DataInv, SignalsHaveSource
<1>19. UNCHANGED adapterVars
  BY <1>2 DEF adapterVars
<1>20. QED
  BY <1>11, <1>14, <1>15, <1>16, <1>17, <1>18, <1>19, Carries

\* Storing names the archived payload and makes what was kept by the poll kept by the
\* store.
LEMMA StoredData ==
    ASSUME IInv, DataInv, NEW p \in Polls, StoreSignals(p)
    PROVE  DataInv'
<1>1. /\ polls \in [Polls -> PollRecords \cup {None}]
      /\ signals \in [Signals -> Listings \cup {None}]
      /\ None \notin Listings
  BY NoneAssumption DEF DataInv, DataTypeOK
<1>2. /\ polls[p] # None /\ polls[p].step = "storing"
      /\ polls' = [polls EXCEPT ![p] = None]
      /\ signals' = [s \in Signals |->
                       IF s \in polls[p].fresh THEN polls[p].reply ELSE signals[s]]
      /\ UNCHANGED <<newestFirst, feed, published, type, tagged, visible, cursor, archive,
                     noticed, lost, requests>>
  BY DEF StoreSignals, Storing, sourceVars, adapterVars
<1>3. /\ polls[p].reply \in archive /\ polls[p].reply \in Listings
      /\ polls[p].fresh \subseteq ToSet(SignalsOf(polls[p].reply))
  BY <1>2 DEF DataInv, PollSound, Sourced
<1>4. /\ polls' \in [Polls -> PollRecords \cup {None}]
      /\ polls'[p] = None /\ \A q \in Polls : q # p => polls'[q] = polls[q]
  BY <1>1, <1>2
<1>5. signals' \in [Signals -> Listings \cup {None}]
  BY <1>1, <1>2, <1>3
<1>6. \A s \in Signals : Kept(s) => Kept(s)'
  BY <1>1, <1>2, <1>3, <1>4 DEF Kept, Storing
<1>7. DataTypeOK'
  BY <1>2, <1>4, <1>5 DEF DataInv, DataTypeOK
<1>8. \A q \in Polls : polls'[q] # None =>
              /\ \/ polls'[q].cursor = cursor
                 \/ polls[q] # None /\ polls'[q].cursor = polls[q].cursor
              /\ polls'[q].step # "asking" => polls'[q].reply \in Listings
              /\ polls'[q].step = "storing" =>
                    /\ polls'[q].reply \in archive'
                    /\ polls'[q].fresh \subseteq ToSet(SignalsOf(polls'[q].reply))
  <2> TAKE q \in Polls
  <2> HAVE polls'[q] # None
  <2>1. polls'[q] = polls[q]
    BY <1>4
  <2>2. QED
    BY <1>2, <2>1 DEF DataInv, PollSound, Sourced
<1>9. \A s \in Signals : signals'[s] # None =>
              /\ signals'[s] \in archive'
              /\ s \in ToSet(SignalsOf(signals'[s]))
  BY <1>2, <1>3 DEF DataInv, SignalsHaveSource
<1>10. UNCHANGED adapterVars
  BY <1>2 DEF adapterVars
<1>11. QED
  BY <1>2, <1>6, <1>7, <1>8, <1>9, <1>10, Carries

\* A crash loses only what was being stored, and remembers it as lost.
LEMMA CrashData ==
    ASSUME IInv, DataInv, Crash
    PROVE  DataInv'
<1>1. /\ polls \in [Polls -> PollRecords \cup {None}] /\ lost \in SUBSET Signals
  BY DEF DataInv, DataTypeOK
<1>2. /\ polls' = [p \in Polls |-> None]
      /\ lost' = lost \cup UNION {polls[p].fresh : p \in {q \in Polls : Storing(q)}}
      /\ UNCHANGED <<newestFirst, feed, published, type, tagged, visible, cursor, archive,
                     signals, noticed, requests>>
  BY DEF Crash, sourceVars, adapterVars
<1>3. \A p \in Polls : Storing(p) => polls[p].fresh \in SUBSET Signals
  BY <1>1 DEF Storing, PollRecords
<1>4. lost' \in SUBSET Signals
  BY <1>1, <1>2, <1>3
<1>5. \A s \in Signals : Kept(s) => Kept(s)'
  BY <1>2 DEF Kept
<1>6. polls' \in [Polls -> PollRecords \cup {None}] /\ \A q \in Polls : polls'[q] = None
  BY <1>2
<1>7. DataTypeOK'
  BY <1>2, <1>4, <1>6 DEF DataInv, DataTypeOK
<1>8. \A s \in Signals : signals'[s] # None =>
              /\ signals'[s] \in archive'
              /\ s \in ToSet(SignalsOf(signals'[s]))
  BY <1>2 DEF DataInv, SignalsHaveSource
<1>9. UNCHANGED adapterVars
  BY <1>2 DEF adapterVars
<1>10. QED
  BY <1>2, <1>5, <1>6, <1>7, <1>8, <1>9, Carries

\* Patches and the source touch none of it.
LEMMA QuietData ==
    ASSUME DataInv, DataTypeOK',
           UNCHANGED <<type, tagged, visible, cursor, polls, archive, signals, lost>>
    PROVE  DataInv'
<1>1. \A s \in Signals : Kept(s) => Kept(s)'
  BY DEF Kept, Storing
<1>2. \A q \in Polls : polls'[q] # None =>
              /\ \/ polls'[q].cursor = cursor
                 \/ polls[q] # None /\ polls'[q].cursor = polls[q].cursor
              /\ polls'[q].step # "asking" => polls'[q].reply \in Listings
              /\ polls'[q].step = "storing" =>
                    /\ polls'[q].reply \in archive'
                    /\ polls'[q].fresh \subseteq ToSet(SignalsOf(polls'[q].reply))
  BY DEF DataInv, PollSound, Sourced
<1>3. \A s \in Signals : signals'[s] # None =>
              /\ signals'[s] \in archive'
              /\ s \in ToSet(SignalsOf(signals'[s]))
  BY DEF DataInv, SignalsHaveSource
<1>4. UNCHANGED adapterVars
  BY DEF adapterVars
<1>5. QED
  BY <1>1, <1>2, <1>3, <1>4, Carries

\* The source lists entries.
LEMMA SourceTypes ==
    ASSUME DataTypeOK, UNCHANGED connectorVars,
           Publish \/ \E k \in DOMAIN feed : Revise(k)
    PROVE  DataTypeOK'
<1>1. /\ feed \in Seq(Entries) /\ published \in 0 .. MaxEvents
      /\ MaxEvents \in Nat /\ MaxVersion \in Nat \ {0}
  BY DeltaAssumption DEF DataTypeOK, Listings
<1>2. CASE Publish
  <2> DEFINE entry == [event |-> published + 1, version |-> 1]
             longer == Append(feed, entry)
  <2>1. entry \in Entries
    BY <1>1, <1>2 DEF Publish, Entries, Events
  <2>2. longer \in Seq(Entries) /\ Len(longer) = Len(feed) + 1 /\ Len(feed) \in Nat
    BY <1>1, <2>1, AppendProperties, LenProperties
  <2>3. Tail(longer) \in Seq(Entries)
    <3>1. longer # << >>
      BY <2>2, EmptySeq
    <3> HIDE DEF longer
    <3>2. QED
      BY <2>2, <3>1, HeadTailProperties
  <2>4. feed' \in Listings
    BY <1>2, <2>2, <2>3 DEF Publish, Listings
  <2>5. published' \in 0 .. MaxEvents /\ newestFirst' = newestFirst
    BY <1>1, <1>2 DEF Publish
  <2>6. QED
    BY <2>4, <2>5 DEF DataTypeOK, connectorVars, adapterVars
<1>3. ASSUME NEW k \in DOMAIN feed, Revise(k) PROVE DataTypeOK'
  <2>1. k \in 1 .. Len(feed) /\ feed[k] \in Entries
    BY <1>1, LenProperties, ElementOfSeq
  <2>2. [feed[k] EXCEPT !.version = @ + 1] \in Entries
    <3>1. PICK e \in Entries : e = feed[k]
      BY <2>1
    <3>2. e.version \in 1 .. MaxVersion /\ e.version < MaxVersion
      BY <1>3, <3>1 DEF Revise, Entries
    <3>3. e.version + 1 \in 1 .. MaxVersion
      BY <1>1, <3>2
    <3>4. [e EXCEPT !.version = e.version + 1] \in Entries
      BY <3>3 DEF Entries
    <3>5. QED
      BY <3>1, <3>4
  <2>3. feed' = [feed EXCEPT ![k] = [feed[k] EXCEPT !.version = @ + 1]]
    BY <1>3 DEF Revise
  <2>4. feed' \in Listings
    <3> DEFINE entry == [feed[k] EXCEPT !.version = @ + 1]
    <3>1. entry \in Entries /\ feed' = [feed EXCEPT ![k] = entry]
      BY <2>2, <2>3
    <3> HIDE DEF entry
    <3>2. [feed EXCEPT ![k] = entry] \in Seq(Entries)
      BY <1>1, <2>1, <3>1, ExceptSeq
    <3>3. QED
      BY <3>1, <3>2 DEF Listings
  <2>5. published' = published /\ newestFirst' = newestFirst
    BY <1>3 DEF Revise
  <2>6. QED
    BY <2>4, <2>5 DEF DataTypeOK, connectorVars, adapterVars
<1>4. QED
  BY <1>2, <1>3

\* Every step keeps cursors vouched for and signals sourced.
LEMMA StepData == IInv /\ DataInv /\ [Next]_vars => DataInv'
<1> SUFFICES ASSUME IInv, DataInv, [Next]_vars PROVE DataInv'
  OBVIOUS
<1>1. ASSUME NEW p \in Polls,
             \/ PollBegins(p) \/ SourceAnswers(p) \/ NotModified(p) \/ FetchFails(p)
             \/ SchemaDrifts(p) \/ Fetched(p) \/ StoreSignals(p)
      PROVE  DataInv'
  BY <1>1, PollStepsData, FetchedData, StoredData
<1>2. ASSUME UNCHANGED <<sourceVars, adapterVars, cursor, polls, archive, signals, noticed,
                         lost>>,
             \/ requests' = requests
             \/ requests' = requests + 1 /\ requests' <= MaxRequests
      PROVE  DataInv'
  <2>1. UNCHANGED <<newestFirst, feed, published, type, tagged, visible, cursor, polls,
                    archive, signals, noticed, lost>>
    BY <1>2 DEF sourceVars, adapterVars
  <2>2. requests' \in 0 .. MaxRequests
    <3>1. requests \in 0 .. MaxRequests /\ MaxRequests \in Nat
      BY ConnectorAssumption DEF DataInv, DataTypeOK
    <3>2. QED
      BY <1>2, <3>1
  <2>3. DataTypeOK'
    BY <2>1, <2>2 DEF DataInv, DataTypeOK
  <2>4. QED
    BY <2>1, <2>3, QuietData
<1>3. ASSUME NEW w \in Workers, NEW change \in Changes, PatchReads(w, change)
      PROVE  DataInv'
  BY <1>2, <1>3 DEF PatchReads
<1>4. ASSUME NEW w \in Workers, PatchWrites(w) PROVE DataInv'
  BY <1>2, <1>4 DEF PatchWrites
<1>5. ASSUME NEW enabled \in BOOLEAN, CreateConnector(enabled) PROVE DataInv'
  BY <1>2, <1>5 DEF CreateConnector
<1>6. CASE Crash
  BY <1>6, CrashData
<1>7. CASE UNCHANGED connectorVars /\ (Publish \/ \E k \in DOMAIN feed : Revise(k))
  <2>1. DataTypeOK'
    BY <1>7, SourceTypes DEF DataInv
  <2>2. QED
    BY <1>7, <2>1, QuietData DEF connectorVars, adapterVars
<1>8. CASE UNCHANGED vars
  BY <1>2, <1>8 DEF vars, connectorVars
<1>9. QED
  BY <1>1, <1>3, <1>4, <1>5, <1>6, <1>7, <1>8 DEF Next

\* Types, for any bounds.
THEOREM TypeCorrect == Spec => []TypeOK
<1>1. IInv /\ DataInv => TypeOK
  BY DEF IInv, ConfigTypeOK, DataInv, DataTypeOK, TypeOK
<1>2. QED
  BY <1>1, InitIInv, StepIInv, InitData, StepData, PTL DEF Spec

\* Whatever the stored cursor suppresses, one by one or a whole payload by its tag, was
\* stored, is being stored, or was lost by a crash in between: for any adapter, source,
\* overlap of polls, failed fetch and changed filter (poll_connector saves the cursor
\* before any signal).
THEOREM SuppressionIsCovered == Spec => []CursorIsCovered
<1>1. DataInv => CursorIsCovered
  BY DEF DataInv, Vouched, CursorIsCovered
<1>2. QED
  BY <1>1, InitIInv, StepIInv, InitData, StepData, PTL DEF Spec

\* Every stored signal names an archived payload that lists it, whichever poll stored it
\* last.
THEOREM SourceIsArchived == Spec => []SignalsHaveSource
<1>1. DataInv => SignalsHaveSource
  BY DEF DataInv
<1>2. QED
  BY <1>1, InitIInv, StepIInv, InitData, StepData, PTL DEF Spec
-------------------------------------------------------------------------------
(* The loop of apply_delta, and its bound, over lists in order *)

\* What one signal makes of a cursor that names no event twice: it has the last word about
\* its event, and a new event comes last.
LEMMA NoticeKeepsOrder ==
    ASSUME NEW delta \in Deltas, NEW s \in Signals, Apart(delta.seen)
    PROVE  LET new == Notice(delta, s)
           IN  /\ Apart(new.seen)
               /\ s \in ToSet(new.seen)
               /\ \A c \in ToSet(delta.seen) : c.event # s.event => c \in ToSet(new.seen)
               /\ ToSet(new.seen) \subseteq ToSet(delta.seen) \cup {s}
               /\ new.fresh \subseteq delta.fresh \cup {s}
               /\ s \in ToSet(delta.seen) => new.fresh = delta.fresh
               /\ /\ Rising(delta.seen)
                  /\ \/ s.event \in EventsOf(delta.seen)
                     \/ \A c \in ToSet(delta.seen) : c.event < s.event
                  => Rising(new.seen)
<1> DEFINE seen == delta.seen
           n    == Len(seen)
           new  == Notice(delta, s)
<1>1. /\ seen \in Seq(Signals) /\ n \in Nat /\ DOMAIN seen = 1 .. n
      /\ \A k \in 1 .. n : seen[k] \in Signals
  BY LenProperties, ElementOfSeq DEF Deltas
<1>2. \A t \in Signals : t.event \in Nat /\ t.hash \in Nat \ {0} /\ t = [event |-> t.event, hash |-> t.hash]
  BY DeltaAssumption DEF Signals, Events
<1>3. CASE \A k \in 1 .. n : seen[k].event # s.event
  <2>1. Hash(seen, s.event) = 0
    BY <1>1, <1>3 DEF Hash
  <2>2. new = [seen |-> Append(seen, s), fresh |-> delta.fresh \cup {s}]
    BY <2>1 DEF Notice
  <2> DEFINE longer == Append(seen, s)
  <2>3. /\ longer \in Seq(Signals) /\ Len(longer) = n + 1
        /\ \A k \in 1 .. n : longer[k] = seen[k]
        /\ longer[n + 1] = s
    BY <1>1, AppendProperties
  <2>4. DOMAIN longer = 1 .. n + 1
    BY <2>3, LenProperties
  <2> HIDE DEF seen, n, longer
  <2>5. Apart(longer)
    <3> SUFFICES ASSUME NEW i \in 1 .. n + 1, NEW j \in 1 .. n + 1,
                        longer[i].event = longer[j].event
                 PROVE  i = j
      BY <2>4 DEF Apart
    <3>1. CASE i \in 1 .. n /\ j \in 1 .. n
      <4>1. Apart(seen)
        BY DEF seen
      <4>2. QED
        BY <1>1, <2>3, <3>1, <4>1 DEF Apart
    <3>2. CASE i = n + 1 \/ j = n + 1
      <4>1. i \in 1 .. n \/ i = n + 1
        BY <1>1
      <4>2. j \in 1 .. n \/ j = n + 1
        BY <1>1
      <4>3. QED
        BY <1>3, <2>3, <3>2, <4>1, <4>2
    <3>3. QED
      BY <1>1, <3>1, <3>2
  <2>6. ToSet(longer) = ToSet(seen) \cup {s}
    <3>1. \A k \in 1 .. n : k \in 1 .. n + 1
      BY <1>1
    <3>2. n + 1 \in 1 .. n + 1 /\ \A k \in 1 .. n + 1 : k \in 1 .. n \/ k = n + 1
      BY <1>1
    <3>3. QED
      BY <1>1, <2>3, <2>4, <3>1, <3>2 DEF ToSet
  <2>7. s \notin ToSet(seen)
    BY <1>1, <1>3 DEF ToSet
  <2>8. s.event \notin EventsOf(seen)
    BY <1>1, <1>3 DEF ToSet, EventsOf
  <2>9. ASSUME Rising(seen), \A c \in ToSet(seen) : c.event < s.event PROVE Rising(longer)
    <3> SUFFICES ASSUME NEW i \in 1 .. n + 1, NEW j \in 1 .. n + 1, i < j
                 PROVE  longer[i].event < longer[j].event
      BY <2>4 DEF Rising
    <3>1. i \in 1 .. n /\ (j \in 1 .. n \/ j = n + 1)
      BY <1>1
    <3>2. CASE j \in 1 .. n
      BY <1>1, <2>3, <2>9, <3>1, <3>2 DEF Rising
    <3>3. CASE j = n + 1
      <4>1. seen[i] \in ToSet(seen)
        BY <1>1, <3>1 DEF ToSet
      <4>2. QED
        BY <2>3, <2>9, <3>1, <3>3, <4>1
    <3>4. QED
      BY <3>1, <3>2, <3>3
  <2>10. new.seen = longer /\ new.fresh = delta.fresh \cup {s}
    BY <2>2 DEF longer, seen
  <2> HIDE DEF new
  <2>11. QED
    BY <2>5, <2>6, <2>7, <2>8, <2>9, <2>10 DEF seen, new
<1>4. ASSUME NEW k \in 1 .. n, seen[k].event = s.event
      PROVE  \/ new = delta /\ seen[k] = s
             \/ /\ new.seen = [i \in 1 .. n |-> IF seen[i].event = s.event THEN s ELSE seen[i]]
                /\ new.fresh = delta.fresh \cup {s} /\ seen[k] # s
  <2>1. \A i \in 1 .. n : seen[i].event = s.event => i = k
    BY <1>1, <1>4 DEF Apart
  <2>2. (CHOOSE i \in DOMAIN seen : seen[i].event = s.event) = k
    BY <1>1, <1>4, <2>1
  <2>3. Hash(seen, s.event) = seen[k].hash
    BY <1>1, <1>4, <2>2 DEF Hash
  <2>4. seen[k] \in Signals /\ seen[k].hash # 0
    BY <1>1, <1>2
  <2>5. CASE seen[k].hash = s.hash
    <3>1. new = delta
      BY <2>3, <2>4, <2>5 DEF Notice
    <3>2. seen[k] = s
      BY <1>2, <1>4, <2>4, <2>5
    <3>3. QED
      BY <3>1, <3>2
  <2>6. CASE seen[k].hash # s.hash
    <3>1. new = [seen  |-> [i \in DOMAIN seen |-> IF seen[i].event = s.event THEN s ELSE seen[i]],
                 fresh |-> delta.fresh \cup {s}]
      BY <2>3, <2>4, <2>6 DEF Notice
    <3>2. QED
      BY <1>1, <2>6, <3>1
  <2>7. QED
    BY <2>5, <2>6
<1>5. ASSUME NEW k \in 1 .. n, seen[k].event = s.event, new = delta, seen[k] = s
      PROVE  /\ Apart(new.seen) /\ s \in ToSet(new.seen)
             /\ Rising(seen) => Rising(new.seen)
             /\ ToSet(new.seen) = ToSet(seen) /\ new.fresh = delta.fresh
  <2>1. s \in ToSet(seen)
    BY <1>1, <1>5 DEF ToSet
  <2>2. QED
    BY <1>5, <2>1
<1>6. ASSUME NEW k \in 1 .. n, seen[k].event = s.event, seen[k] # s,
             new.seen = [i \in 1 .. n |-> IF seen[i].event = s.event THEN s ELSE seen[i]]
      PROVE  /\ Apart(new.seen) /\ s \in ToSet(new.seen) /\ s \notin ToSet(seen)
             /\ Rising(seen) => Rising(new.seen)
             /\ \A c \in ToSet(seen) : c.event # s.event => c \in ToSet(new.seen)
             /\ ToSet(new.seen) \subseteq ToSet(seen) \cup {s}
  <2> DEFINE changed == [i \in 1 .. n |-> IF seen[i].event = s.event THEN s ELSE seen[i]]
  <2>1. \A i \in 1 .. n : changed[i].event = seen[i].event
    OBVIOUS
  <2>2. DOMAIN changed = 1 .. n
    OBVIOUS
  <2>3. Apart(changed)
    BY <1>1, <2>1, <2>2 DEF Apart
  <2>4. Rising(seen) => Rising(changed)
    BY <1>1, <2>1, <2>2 DEF Rising
  <2>5. changed[k] = s /\ \A i \in 1 .. n : changed[i] \in {s, seen[i]}
    BY <1>6
  <2>6. \A i \in 1 .. n : seen[i].event # s.event => changed[i] = seen[i]
    OBVIOUS
  <2>7. s \notin ToSet(seen)
    BY <1>1, <1>6 DEF Apart, ToSet
  <2> HIDE DEF changed, seen, n
  <2>8. /\ s \in ToSet(changed)
        /\ \A c \in ToSet(seen) : c.event # s.event => c \in ToSet(changed)
        /\ ToSet(changed) \subseteq ToSet(seen) \cup {s}
    BY <1>1, <2>2, <2>5, <2>6 DEF ToSet
  <2>9. new.seen = changed
    BY <1>6 DEF changed
  <2>10. QED
    BY <2>3, <2>4, <2>7, <2>8, <2>9
<1>7. ASSUME NEW k \in 1 .. n, seen[k].event = s.event
      PROVE  /\ Apart(new.seen) /\ s \in ToSet(new.seen)
             /\ Rising(seen) => Rising(new.seen)
             /\ \A c \in ToSet(seen) : c.event # s.event => c \in ToSet(new.seen)
             /\ ToSet(new.seen) \subseteq ToSet(seen) \cup {s}
             /\ new.fresh \subseteq delta.fresh \cup {s}
             /\ s \in ToSet(seen) => new.fresh = delta.fresh
  <2> HIDE DEF seen, n, new
  <2>1. CASE new = delta /\ seen[k] = s
    BY <1>5, <1>7, <2>1
  <2>2. CASE /\ new.seen = [i \in 1 .. n |-> IF seen[i].event = s.event THEN s ELSE seen[i]]
             /\ new.fresh = delta.fresh \cup {s} /\ seen[k] # s
    BY <1>6, <1>7, <2>2
  <2>3. QED
    BY <1>4, <1>7, <2>1, <2>2
<1>8. QED
  BY <1>3, <1>7

\* What the loop over a listing makes of such a cursor: each of its events stays, with the
\* word of the listing if it has one, nothing it knew is fresh, and new events come last if
\* they are the latest.
LEMMA LoopKeepsOrder ==
    ASSUME NEW listing \in Seq(Signals), NEW seen \in Seq(Signals),
           Apart(listing), Apart(seen), NEW trail, Loops(trail, seen, listing)
    PROVE  LET last == trail[Len(listing)]
           IN  /\ last \in Deltas /\ Apart(last.seen)
               /\ \A c \in ToSet(seen) : c.event \notin EventsOf(listing) => c \in ToSet(last.seen)
               /\ ToSet(listing) \subseteq ToSet(last.seen)
               /\ ToSet(last.seen) \subseteq ToSet(seen) \cup ToSet(listing)
               /\ last.fresh \cap ToSet(seen) = {}
               /\ /\ Rising(seen) /\ Rising(listing)
                  /\ \A s \in ToSet(listing), c \in ToSet(seen) :
                        s.event <= c.event => s.event \in EventsOf(seen)
                  => Rising(last.seen)
<1> DEFINE n == Len(listing)
           Orderly == /\ Rising(seen) /\ Rising(listing)
                      /\ \A s \in ToSet(listing), c \in ToSet(seen) :
                            s.event <= c.event => s.event \in EventsOf(seen)
           Right(k) ==
             /\ trail[k] \in Deltas /\ Apart(trail[k].seen)
             /\ \A c \in ToSet(seen) :
                   (\A j \in 1 .. k : listing[j].event # c.event) => c \in ToSet(trail[k].seen)
             /\ \A j \in 1 .. k : listing[j] \in ToSet(trail[k].seen)
             /\ \A c \in ToSet(trail[k].seen) :
                   c \in ToSet(seen) \/ \E j \in 1 .. k : c = listing[j]
             /\ trail[k].fresh \cap ToSet(seen) = {}
             /\ Orderly => Rising(trail[k].seen)
           wrong == {k \in 0 .. n : ~ Right(k)}
<1>1. n \in Nat /\ DOMAIN listing = 1 .. n /\ \A k \in 1 .. n : listing[k] \in Signals
  BY LenProperties, ElementOfSeq
<1>2. Right(0)
  <2>1. trail[0] = [seen |-> seen, fresh |-> {}]
    BY DEF Loops, Opening
  <2>2. QED
    BY <2>1 DEF Deltas
<1>3. \A c \in ToSet(seen) \cup ToSet(listing) : c \in Signals /\ c.event \in Nat
  <2>1. \A list \in Seq(Signals) : ToSet(list) \subseteq Signals
    BY ElementOfSeq, LenProperties DEF ToSet
  <2>2. \A c \in Signals : c.event \in Nat
    BY DEF Signals, Events
  <2>3. QED
    BY <2>1, <2>2
<1>4. ASSUME NEW k \in 1 .. n, Right(k - 1) PROVE Right(k)
  <2> DEFINE old == trail[k - 1]
             new == trail[k]
             s   == listing[k]
  <2>1. new = Notice(old, s) /\ s \in Signals /\ old \in Deltas
    BY <1>1, <1>4 DEF Loops
  <2>2. s \in ToSet(listing)
    BY <1>1 DEF ToSet
  <2>3. /\ Apart(old.seen)
        /\ \A c \in ToSet(seen) :
              (\A j \in 1 .. k - 1 : listing[j].event # c.event) => c \in ToSet(old.seen)
        /\ \A j \in 1 .. k - 1 : listing[j] \in ToSet(old.seen)
        /\ \A c \in ToSet(old.seen) :
              c \in ToSet(seen) \/ \E j \in 1 .. k - 1 : c = listing[j]
        /\ old.fresh \cap ToSet(seen) = {}
        /\ Orderly => Rising(old.seen)
    BY <1>4
  <2> HIDE DEF old, new, Orderly
  <2>4. /\ Apart(new.seen)
        /\ s \in ToSet(new.seen)
        /\ \A c \in ToSet(old.seen) : c.event # s.event => c \in ToSet(new.seen)
        /\ ToSet(new.seen) \subseteq ToSet(old.seen) \cup {s}
        /\ new.fresh \subseteq old.fresh \cup {s}
        /\ s \in ToSet(old.seen) => new.fresh = old.fresh
        /\ /\ Rising(old.seen)
           /\ \/ s.event \in EventsOf(old.seen)
              \/ \A c \in ToSet(old.seen) : c.event < s.event
           => Rising(new.seen)
    BY <2>1, <2>3, NoticeKeepsOrder
  <2>5. new \in Deltas
    BY <2>1, NoticeFacts
  <2>6. \A j \in 1 .. k - 1 : j \in 1 .. n /\ j \in 1 .. k /\ j # k /\ listing[j].event # s.event
    BY <1>1 DEF Apart
  <2>7. \A j \in 1 .. k : j = k \/ j \in 1 .. k - 1
    BY <1>1
  <2>8. \A c \in ToSet(seen) :
           (\A j \in 1 .. k : listing[j].event # c.event) => c \in ToSet(new.seen)
    BY <2>3, <2>4, <2>6, <1>1
  <2>9. \A j \in 1 .. k : listing[j] \in ToSet(new.seen)
    BY <2>3, <2>4, <2>6, <2>7
  <2>10. k \in 1 .. k
    BY <1>1
  <2>11. \A c \in ToSet(new.seen) : c \in ToSet(seen) \/ \E j \in 1 .. k : c = listing[j]
    BY <2>3, <2>4, <2>6, <2>10
  <2>12. s \in ToSet(seen) => s \in ToSet(old.seen)
    BY <2>3, <2>6
  <2>13. new.fresh \cap ToSet(seen) = {}
    BY <2>3, <2>4, <2>12
  <2>14. ASSUME Orderly PROVE Rising(new.seen)
    <3>1. CASE s.event \in EventsOf(old.seen)
      BY <2>3, <2>4, <2>14, <3>1
    <3>2. CASE s.event \notin EventsOf(old.seen)
      <4>1. ASSUME NEW c \in ToSet(old.seen) PROVE c.event < s.event
        <5>1. CASE c \in ToSet(seen)
          <6>1. s.event \notin EventsOf(seen)
            <7> SUFFICES ASSUME NEW d \in ToSet(seen), d.event = s.event PROVE FALSE
              BY DEF EventsOf
            <7>1. \A j \in 1 .. k - 1 : listing[j].event # d.event
              BY <2>6
            <7>2. d \in ToSet(old.seen)
              BY <2>3, <7>1
            <7>3. QED
              BY <3>2, <7>2 DEF EventsOf
          <6>2. ~ (s.event <= c.event)
            BY <2>2, <2>14, <5>1, <6>1 DEF Orderly
          <6>3. s.event \in Nat /\ c.event \in Nat
            BY <1>3, <2>2, <5>1
          <6>4. QED
            BY <6>2, <6>3
        <5>2. ASSUME NEW j \in 1 .. k - 1, c = listing[j] PROVE c.event < s.event
          <6>1. j < k /\ j \in DOMAIN listing /\ k \in DOMAIN listing
            BY <1>1, <2>6
          <6>2. QED
            BY <2>14, <5>2, <6>1 DEF Orderly, Rising
        <5>3. QED
          BY <2>3, <5>1, <5>2
      <4>2. QED
        BY <2>3, <2>4, <2>14, <4>1
    <3>3. QED
      BY <3>1, <3>2
  <2>15. QED
    BY <2>4, <2>5, <2>8, <2>9, <2>11, <2>13, <2>14 DEF new
<1> HIDE DEF Right
<1>5. ASSUME wrong # {} PROVE FALSE
  <2>1. PICK k \in wrong : \A m \in wrong : k <= m
    <3>1. wrong \subseteq Nat
      BY <1>1
    <3> HIDE DEF wrong
    <3>2. QED
      BY <1>5, <3>1, Least
  <2>2. k # 0 /\ k \in 0 .. n
    BY <1>2
  <2>3. k \in 1 .. n /\ k - 1 \in 0 .. n /\ ~ (k <= k - 1)
    BY <1>1, <2>2
  <2>4. k - 1 \notin wrong
    <3> HIDE DEF wrong
    <3>1. QED
      BY <2>1, <2>3
  <2>5. QED
    BY <1>4, <2>3, <2>4
<1>6. Right(n)
  <2>1. n \in 0 .. n
    BY <1>1
  <2>2. QED
    BY <1>5, <2>1
<1>7. \A c : (\A j \in 1 .. n : listing[j].event # c.event) <=> c.event \notin EventsOf(listing)
  BY <1>1 DEF EventsOf, ToSet
<1>8. ToSet(listing) = {listing[j] : j \in 1 .. n}
  BY <1>1 DEF ToSet
<1> DEFINE last == trail[n]
<1>9. /\ last \in Deltas /\ Apart(last.seen)
      /\ \A c \in ToSet(seen) : c.event \notin EventsOf(listing) => c \in ToSet(last.seen)
      /\ ToSet(listing) \subseteq ToSet(last.seen)
      /\ ToSet(last.seen) \subseteq ToSet(seen) \cup ToSet(listing)
      /\ last.fresh \cap ToSet(seen) = {}
      /\ Orderly => Rising(last.seen)
  <2> HIDE DEF Orderly
  <2>1. QED
    BY <1>6, <1>7, <1>8 DEF Right
<1>10. QED
  BY <1>9

\* What the bound drops: the first, as far as more follow than the cursor keeps.
LEMMA EvictedKeeps ==
    ASSUME NEW seen \in Seq(Signals), Apart(seen)
    PROVE  /\ Apart(Evicted(seen)) /\ (Rising(seen) => Rising(Evicted(seen)))
           /\ \A k \in 1 .. Len(seen) :
                 Len(seen) - k + 1 <= Bound => seen[k] \in ToSet(Evicted(seen))
<1>1. /\ Len(seen) \in Nat /\ Bound \in Nat /\ DOMAIN seen = 1 .. Len(seen)
      /\ \A k \in 1 .. Len(seen) : seen[k] \in Signals
  BY LenProperties, ElementOfSeq, DeltaAssumption
<1>2. CASE ~ (Len(seen) > Bound)
  BY <1>1, <1>2 DEF Evicted, ToSet
<1>3. CASE Len(seen) > Bound
  <2> DEFINE first == Len(seen) - Bound + 1
             last  == Len(seen)
             kept  == SubSeq(seen, first, last)
  <2>1. Evicted(seen) = kept
    BY <1>3 DEF Evicted
  <2>2. /\ first \in Int /\ last \in Int /\ 1 <= first /\ first <= last + 1
        /\ last = Len(seen) /\ last - first + 1 = Bound
    BY <1>1, <1>3
  <2>3. \A i \in first .. last : seen[i] \in Signals
    BY <1>1, <2>2
  <2> HIDE DEF first, last
  <2>4. /\ kept \in Seq(Signals)
        /\ Len(kept) = IF first <= last THEN last - first + 1 ELSE 0
        /\ \A i \in 1 .. last - first + 1 : kept[i] = seen[first + i - 1]
    BY <2>2, <2>3, SubSeqProperties
  <2>5. Len(kept) = Bound
    BY <1>1, <2>2, <2>4
  <2>6. DOMAIN kept = 1 .. Bound
    BY <2>4, <2>5, LenProperties
  <2>7. \A i \in 1 .. Bound : first + i - 1 \in 1 .. Len(seen) /\ kept[i] = seen[first + i - 1]
    BY <1>1, <2>2, <2>4
  <2> HIDE DEF kept
  <2>8. Apart(kept)
    <3> SUFFICES ASSUME NEW i \in 1 .. Bound, NEW j \in 1 .. Bound,
                        kept[i].event = kept[j].event
                 PROVE  i = j
      BY <2>6 DEF Apart
    <3>1. first + i - 1 = first + j - 1
      BY <1>1, <2>7 DEF Apart
    <3>2. QED
      BY <1>1, <2>2, <3>1
  <2>9. ASSUME Rising(seen) PROVE Rising(kept)
    <3> SUFFICES ASSUME NEW i \in 1 .. Bound, NEW j \in 1 .. Bound, i < j
                 PROVE  kept[i].event < kept[j].event
      BY <2>6 DEF Rising
    <3>1. first + i - 1 < first + j - 1
      BY <1>1, <2>2
    <3>2. QED
      BY <1>1, <2>7, <2>9, <3>1 DEF Rising
  <2>10. ASSUME NEW k \in 1 .. Len(seen), Len(seen) - k + 1 <= Bound
         PROVE  seen[k] \in ToSet(kept)
    <3>1. k - first + 1 \in 1 .. Bound /\ first + (k - first + 1) - 1 = k
      BY <1>1, <2>2, <2>10
    <3>2. kept[k - first + 1] = seen[k]
      BY <2>7, <3>1
    <3>3. QED
      BY <2>6, <3>1, <3>2 DEF ToSet
  <2>11. QED
    BY <2>1, <2>8, <2>9, <2>10
<1>4. QED
  BY <1>2, <1>3

\* So an entry survives if it and those after it name no more events than the cursor keeps.
LEMMA Survives ==
    ASSUME NEW seen \in Seq(Signals), Apart(seen), NEW k \in 1 .. Len(seen),
           NEW E, IsFiniteSet(E), Cardinality(E) <= Bound,
           \A j \in k .. Len(seen) : seen[j].event \in E
    PROVE  seen[k] \in ToSet(Evicted(seen))
<1> DEFINE S == k .. Len(seen)
           f == [j \in S |-> seen[j].event]
<1>1. Len(seen) \in Nat /\ DOMAIN seen = 1 .. Len(seen) /\ Bound \in Nat
  BY LenProperties, DeltaAssumption
<1>2. IsFiniteSet(S) /\ Cardinality(S) = Len(seen) - k + 1
  <2>1. k \in Int /\ Len(seen) \in Int /\ ~ (k > Len(seen))
    BY <1>1
  <2>2. QED
    BY <2>1, FS_Interval
<1>3. f \in [S -> E]
  OBVIOUS
<1>4. \A i, j \in S : i # j => f[i] # f[j]
  BY <1>1 DEF Apart
<1>5. Cardinality(E) \in Nat
  BY FS_CardinalityType
<1> HIDE DEF S, f
<1>6. ~ (Cardinality(E) < Cardinality(S))
  BY <1>2, <1>3, <1>4, FS_PigeonHole
<1>7. Len(seen) - k + 1 <= Bound
  BY <1>1, <1>2, <1>5, <1>6
<1>8. QED
  BY <1>7, EvictedKeeps

\* A delta is the end of that loop, within the bound.
LEMMA DeltaIsLoop ==
    ASSUME NEW listing \in Seq(Signals), NEW seen \in Seq(Signals)
    PROVE  \E trail : /\ Loops(trail, seen, listing)
                      /\ ApplyDelta(listing, seen).seen = Evicted(trail[Len(listing)].seen)
                      /\ ApplyDelta(listing, seen).fresh = trail[Len(listing)].fresh
<1>1. PICK trail : /\ Loops(trail, seen, listing)
                   /\ FoldLeft(Notice, Opening(seen), listing) = trail[Len(listing)]
  BY DeltaLoops
<1> DEFINE last == FoldLeft(Notice, [seen |-> seen, fresh |-> {}], listing)
<1>2. last = trail[Len(listing)]
  BY <1>1 DEF Opening
<1>3. ApplyDelta(listing, seen) = [last EXCEPT !.seen = Evicted(last.seen)]
  BY DEF ApplyDelta
<1>4. last \in Deltas
  <2>1. PICK n \in Nat : n = Len(listing)
    BY LenProperties
  <2> DEFINE wrong == {k \in 0 .. n : trail[k] \notin Deltas}
  <2>2. \A k \in 1 .. n : listing[k] \in Signals
    BY <2>1, ElementOfSeq
  <2>3. trail[0] \in Deltas
    BY <1>1 DEF Loops, Opening, Deltas
  <2>4. \A k \in 1 .. n : trail[k - 1] \in Deltas => trail[k] \in Deltas
    BY <1>1, <2>1, <2>2, NoticeFacts DEF Loops
  <2>5. ASSUME wrong # {} PROVE FALSE
    <3>1. wrong \subseteq Nat
      OBVIOUS
    <3>2. PICK k \in wrong : \A m \in wrong : k <= m
      <4> HIDE DEF wrong
      <4>1. QED
        BY <2>5, <3>1, Least
    <3>3. k \in 1 .. n /\ k - 1 \in 0 .. n /\ ~ (k <= k - 1)
      BY <2>3, <3>2
    <3>4. k - 1 \notin wrong
      <4> HIDE DEF wrong
      <4>1. QED
        BY <3>2, <3>3
    <3>5. QED
      BY <2>4, <3>2, <3>3, <3>4
  <2>6. trail[n] \in Deltas
    BY <2>5
  <2>7. QED
    BY <1>2, <2>1, <2>6
<1> HIDE DEF last
<1>5. ApplyDelta(listing, seen).seen = Evicted(last.seen) /\ ApplyDelta(listing, seen).fresh = last.fresh
  BY <1>3, <1>4 DEF Deltas
<1>6. QED
  BY <1>1, <1>2, <1>5

\* The entries of a listing that names no event twice are as many as its events.
LEMMA EventsAreFew ==
    ASSUME NEW list \in Listings
    PROVE  IsFiniteSet(EventsOf(list)) /\ Cardinality(EventsOf(list)) <= Len(list)
<1> DEFINE n == Len(list)
           f == [k \in 1 .. n |-> list[k].event]
<1>1. n \in Nat /\ DOMAIN list = 1 .. n
  BY LenProperties DEF Listings
<1>2. IsFiniteSet(1 .. n) /\ Cardinality(1 .. n) = n
  <2>1. 1 \in Int /\ n \in Int
    BY <1>1
  <2> HIDE DEF n
  <2>2. QED
    BY <1>1, <2>1, FS_Interval
<1>3. EventsOf(list) = {list[k].event : k \in 1 .. n}
  BY <1>1 DEF EventsOf, ToSet
<1>4. f \in Surjection(1 .. n, EventsOf(list))
  BY <1>3 DEF Surjection
<1> HIDE DEF n, f
<1>5. QED
  BY <1>2, <1>4, FS_Surjection DEF n

\* The signals of what an adapter chooses are in the order of the listing.
LEMMA SignalsKeepOrder ==
    ASSUME NEW listing \in Listings, NEW chosen \in Listings, NEW picky \in BOOLEAN,
           Apart(listing), Chooses(chosen, listing, picky)
    PROVE  LET normal == SignalsOf(chosen)
           IN  /\ normal \in Seq(Signals) /\ Apart(normal)
               /\ \A s \in ToSet(normal) :
                     \E x \in ToSet(listing) : s = SignalOf(x) /\ s.event = x.event
               /\ ~ picky /\ Rising(listing) =>
                     /\ Rising(normal)
                     /\ \A s \in ToSet(normal), x \in ToSet(listing) :
                           x.event <= s.event => x.event \in EventsOf(normal)
<1> DEFINE normal == SignalsOf(chosen)
<1>1. /\ Len(chosen) \in Nat /\ DOMAIN chosen = 1 .. Len(chosen)
      /\ Len(listing) \in Nat /\ DOMAIN listing = 1 .. Len(listing)
      /\ \A k \in 1 .. Len(listing) : listing[k].event \in Nat
  <2>1. \A e \in Entries : e.event \in Nat
    BY DEF Entries, Events
  <2>2. \A k \in 1 .. Len(listing) : listing[k] \in Entries
    BY ElementOfSeq DEF Listings
  <2>3. QED
    BY <2>1, <2>2, LenProperties DEF Listings
<1>2. normal \in Seq(Signals)
  BY SignalsOfFacts
<1>3. /\ DOMAIN normal = 1 .. Len(chosen)
      /\ \A k \in 1 .. Len(chosen) : normal[k] = SignalOf(chosen[k]) /\ normal[k].event = chosen[k].event
  BY <1>1 DEF SignalsOf, SignalOf
<1> HIDE DEF normal
<1>4. Apart(normal)
  BY <1>1, <1>3 DEF Chooses, Apart
<1>5. ASSUME NEW s \in ToSet(normal)
      PROVE  \E x \in ToSet(listing) : s = SignalOf(x) /\ s.event = x.event
  <2>1. PICK k \in 1 .. Len(chosen) : s = normal[k]
    BY <1>3 DEF ToSet
  <2>2. chosen[k] \in ToSet(listing)
    BY <1>1 DEF Chooses, ToSet
  <2>3. QED
    BY <1>3, <2>1, <2>2
<1>6. ASSUME ~ picky, Rising(listing)
      PROVE  /\ Rising(normal)
             /\ \A s \in ToSet(normal), x \in ToSet(listing) :
                   x.event <= s.event => x.event \in EventsOf(normal)
  <2>1. Len(chosen) <= Len(listing) /\ \A k \in 1 .. Len(chosen) : chosen[k] = listing[k]
    BY <1>6 DEF Chooses, Begins
  <2>2. \A k \in 1 .. Len(chosen) : k \in 1 .. Len(listing) /\ normal[k].event = listing[k].event
    BY <1>1, <1>3, <2>1
  <2>3. Rising(normal)
    BY <1>1, <1>3, <1>6, <2>2 DEF Rising
  <2>4. ASSUME NEW s \in ToSet(normal), NEW x \in ToSet(listing), x.event <= s.event
        PROVE  x.event \in EventsOf(normal)
    <3>1. PICK k \in 1 .. Len(chosen) : s = normal[k]
      BY <1>3 DEF ToSet
    <3>2. PICK j \in 1 .. Len(listing) : x = listing[j]
      BY <1>1 DEF ToSet
    <3>3. ~ (k < j)
      <4> SUFFICES ASSUME k < j PROVE FALSE
        OBVIOUS
      <4>1. listing[k].event < listing[j].event
        BY <1>1, <1>6, <2>2 DEF Rising
      <4>2. listing[k].event \in Nat /\ listing[j].event \in Nat
        BY <1>1, <2>2
      <4>3. QED
        BY <2>2, <2>4, <3>1, <3>2, <4>1, <4>2
    <3>4. j \in 1 .. Len(chosen)
      BY <1>1, <3>3
    <3>5. normal[j].event = x.event /\ normal[j] \in ToSet(normal)
      BY <1>3, <2>2, <3>2, <3>4 DEF ToSet
    <3>6. QED
      BY <3>5 DEF EventsOf
  <2>5. QED
    BY <2>3, <2>4
<1>7. QED
  BY <1>2, <1>4, <1>5, <1>6 DEF normal
-------------------------------------------------------------------------------
(* What a cursor knows of a listing *)

\* As long as nothing listed was evicted: the source appends, and its listing fits.
Ordered == ~ newestFirst /\ FeedLength <= Bound /\ ~ blurred.filter
Full == Ordered \/ published <= Bound

\* A cursor holds what was noticed, in order of publication where the source lists it so.
CursorOK(seen, known) ==
    /\ seen \in Seq(Signals) /\ known \subseteq Signals
    /\ Apart(seen) /\ (Ordered => Rising(seen))
    /\ ToSet(seen) \subseteq known
    /\ \A s \in known : s.event <= published

\* Of the events of a listing the cursor holds the latest version noticed, which is none
\* that is not listed yet; and in order it holds all up to its last.
Tracks(list, seen, known) ==
    /\ \A c \in ToSet(seen), x \in ToSet(list) : c.event = x.event => c.hash <= SignalOf(x).hash
    /\ Full => \A s \in known : s.event \in EventsOf(list) =>
                  \E c \in ToSet(seen) : c.event = s.event /\ s.hash <= c.hash
    /\ Ordered => \A x \in ToSet(list), c \in ToSet(seen) : x.event <= c.event =>
                     x.event \in EventsOf(seen) /\ c.event \in EventsOf(list)

\* A listing of the source.
ListingOK(list) ==
    /\ list \in Listings
    /\ Len(list) <= FeedLength /\ Apart(list) /\ (Ordered => Rising(list))
    /\ \A x \in ToSet(list) : x.event <= published

\* A delta against a cursor that tracks a listing finds nothing it noticed before, and
\* leaves a cursor that tracks it.
LEMMA DeltaIsNews ==
    ASSUME type \in Types, visible \in BOOLEAN, published \in Nat,
           NEW reply, NEW picky \in BOOLEAN, NEW seen, NEW known,
           ListingOK(reply), CursorOK(seen, known), Tracks(reply, seen, known),
           Ordered => ~ picky
    PROVE  LET delta == ApplyDelta(Normalize(reply, picky), seen)
           IN  /\ Full => delta.fresh \cap known = {}
               /\ \A s \in delta.fresh : s.event \in EventsOf(reply)
               /\ CursorOK(delta.seen, known \cup delta.fresh)
               /\ Tracks(reply, delta.seen, known \cup delta.fresh)
<1> DEFINE normal == Normalize(reply, picky)
           delta  == ApplyDelta(normal, seen)
<1>1. /\ seen \in Seq(Signals) /\ reply \in Listings /\ known \subseteq Signals
      /\ Len(reply) \in Nat /\ Bound \in Nat /\ FeedLength \in Nat
  BY LenProperties, DeltaAssumption DEF ListingOK, CursorOK, Listings
<1>2. PICK chosen \in Listings : normal = SignalsOf(chosen) /\ Chooses(chosen, reply, picky)
  BY <1>1, AdapterChooses
<1>3. /\ normal \in Seq(Signals) /\ Apart(normal)
      /\ \A s \in ToSet(normal) : \E x \in ToSet(reply) : s = SignalOf(x) /\ s.event = x.event
      /\ ~ picky /\ Rising(reply) =>
            /\ Rising(normal)
            /\ \A s \in ToSet(normal), x \in ToSet(reply) :
                  x.event <= s.event => x.event \in EventsOf(normal)
  BY <1>1, <1>2, SignalsKeepOrder DEF ListingOK
<1> HIDE DEF normal
<1>4. PICK trail : /\ Loops(trail, seen, normal)
                   /\ delta.seen = Evicted(trail[Len(normal)].seen)
                   /\ delta.fresh = trail[Len(normal)].fresh
  BY <1>1, <1>3, DeltaIsLoop
<1> DEFINE long == trail[Len(normal)].seen
<1>5. /\ long \in Seq(Signals) /\ Apart(long)
      /\ \A c \in ToSet(seen) : c.event \notin EventsOf(normal) => c \in ToSet(long)
      /\ ToSet(normal) \subseteq ToSet(long)
      /\ ToSet(long) \subseteq ToSet(seen) \cup ToSet(normal)
      /\ delta.fresh \cap ToSet(seen) = {}
      /\ /\ Rising(seen) /\ Rising(normal)
         /\ \A s \in ToSet(normal), c \in ToSet(seen) :
               s.event <= c.event => s.event \in EventsOf(seen)
         => Rising(long)
  BY <1>1, <1>3, <1>4, LoopKeepsOrder DEF CursorOK, Deltas
<1>6. /\ delta.seen \in Seq(Signals) /\ delta.fresh \subseteq Signals
      /\ delta.fresh \subseteq ToSet(normal)
      /\ ToSet(delta.seen) \subseteq ToSet(seen) \cup delta.fresh
  BY <1>1, <1>3, DeltaFacts
<1>7. /\ Apart(delta.seen) /\ (Rising(long) => Rising(delta.seen))
      /\ ToSet(delta.seen) \subseteq ToSet(long)
  BY <1>4, <1>5, EvictedKeeps, EvictedFacts
<1> HIDE DEF delta, long
<1>8. /\ \A s \in ToSet(normal) \cup ToSet(seen) :
            /\ s \in Signals /\ s.event \in Nat \ {0} /\ s.hash \in Nat
            /\ s = [event |-> s.event, hash |-> s.hash]
      /\ \A s \in known : /\ s \in Signals /\ s.event \in Nat \ {0} /\ s.hash \in Nat
                          /\ s = [event |-> s.event, hash |-> s.hash]
      /\ \A x \in ToSet(reply) : x.event \in Nat \ {0}
  <2>1. \A list \in Seq(Signals) : ToSet(list) \subseteq Signals
    BY ElementOfSeq, LenProperties DEF ToSet
  <2>2. \A s \in Signals : /\ s.event \in Nat \ {0} /\ s.hash \in Nat
                           /\ s = [event |-> s.event, hash |-> s.hash]
    BY DEF Signals, Events
  <2>3. ToSet(reply) \subseteq Entries
    BY <1>1, ElementOfSeq, LenProperties DEF ToSet, Listings
  <2>4. \A x \in Entries : x.event \in Nat \ {0}
    BY DEF Entries, Events
  <2>5. QED
    BY <1>1, <1>3, <2>1, <2>2, <2>3, <2>4
<1>9. \A x, y \in ToSet(reply) : x.event = y.event => x = y
  BY DEF ListingOK, Apart, ToSet
<1>10. \A s \in ToSet(normal) : s.event \in EventsOf(reply)
  BY <1>3 DEF EventsOf
<1>11. ASSUME Ordered
       PROVE  /\ Rising(normal) /\ Rising(long)
              /\ \A s \in ToSet(normal), x \in ToSet(reply) :
                    x.event <= s.event => x.event \in EventsOf(normal)
  <2>1. ~ picky /\ Rising(reply) /\ Rising(seen)
    BY <1>11 DEF ListingOK, CursorOK
  <2>2. \A s \in ToSet(normal), c \in ToSet(seen) :
           s.event <= c.event => s.event \in EventsOf(seen)
    BY <1>3, <1>11 DEF Tracks
  <2>3. QED
    BY <1>3, <1>5, <2>1, <2>2
<1>12. ASSUME Full, NEW c \in ToSet(long), c.event \in EventsOf(reply)
       PROVE  c \in ToSet(delta.seen)
  <2>1. Len(long) \in Nat /\ DOMAIN long = 1 .. Len(long)
    BY <1>5, LenProperties
  <2>2. PICK k \in 1 .. Len(long) : c = long[k]
    BY <2>1 DEF ToSet
  <2>3. \A j \in k .. Len(long) : j \in 1 .. Len(long) /\ long[j] \in ToSet(long)
    BY <2>1 DEF ToSet
  <2>4. CASE Ordered
    <3>1. \A j \in k .. Len(long) : long[j].event \in EventsOf(reply)
      <4> TAKE j \in k .. Len(long)
      <4>1. CASE long[j] \in ToSet(normal)
        BY <1>10, <4>1
      <4>2. CASE long[j] \in ToSet(seen)
        <5>1. c.event <= long[j].event
          <6>1. CASE j = k
            BY <1>8, <2>2, <4>2, <6>1
          <6>2. CASE j # k
            <7>1. k < j /\ j \in DOMAIN long /\ k \in DOMAIN long
              BY <2>1, <2>3, <6>2
            <7>2. c.event < long[j].event
              BY <1>11, <2>2, <2>4, <7>1 DEF Rising
            <7>3. c.event \in Nat /\ long[j].event \in Nat
              BY <1>5, <1>8, <4>2
            <7>4. QED
              BY <7>2, <7>3
          <6>3. QED
            BY <6>1, <6>2
        <5>2. PICK x \in ToSet(reply) : x.event = c.event
          BY <1>12 DEF EventsOf
        <5>3. QED
          BY <2>4, <4>2, <5>1, <5>2 DEF Tracks
      <4>3. QED
        BY <1>5, <2>3, <4>1, <4>2
    <3>2. IsFiniteSet(EventsOf(reply)) /\ Cardinality(EventsOf(reply)) <= Len(reply)
      BY <1>1, EventsAreFew
    <3>3. Cardinality(EventsOf(reply)) <= Bound
      <4>1. Cardinality(EventsOf(reply)) \in Nat
        BY <3>2, FS_CardinalityType
      <4>2. Len(reply) <= FeedLength /\ FeedLength <= Bound
        BY <2>4 DEF ListingOK, Ordered
      <4>3. QED
        BY <1>1, <3>2, <4>1, <4>2
    <3>4. QED
      BY <1>4, <1>5, <2>2, <3>1, <3>2, <3>3, Survives DEF long
  <2>5. CASE published <= Bound
    <3>1. \A j \in k .. Len(long) : long[j].event \in 1 .. published
      <4> TAKE j \in k .. Len(long)
      <4>1. long[j].event \in Nat \ {0}
        BY <1>5, <1>8, <2>3
      <4>2. long[j].event <= published
        <5>1. CASE long[j] \in ToSet(normal)
          BY <1>3, <5>1 DEF ListingOK
        <5>2. CASE long[j] \in ToSet(seen)
          BY <5>2 DEF CursorOK
        <5>3. QED
          BY <1>5, <2>3, <5>1, <5>2
      <4>3. QED
        BY <4>1, <4>2
    <3>2. IsFiniteSet(1 .. published) /\ Cardinality(1 .. published) <= Bound
      <4>1. 1 \in Int /\ published \in Int
        OBVIOUS
      <4>2. IsFiniteSet(1 .. published)
            /\ Cardinality(1 .. published) = IF 1 > published THEN 0 ELSE published - 1 + 1
        BY <4>1, FS_Interval
      <4>3. QED
        BY <1>1, <2>5, <4>2
    <3> DEFINE E == 1 .. published
    <3>3. IsFiniteSet(E) /\ Cardinality(E) <= Bound /\ \A j \in k .. Len(long) : long[j].event \in E
      BY <3>1, <3>2
    <3> HIDE DEF E
    <3>4. long[k] \in ToSet(Evicted(long))
      BY <1>5, <3>3, Survives
    <3>5. QED
      BY <1>4, <2>2, <3>4 DEF long
  <2>6. QED
    BY <1>12, <2>4, <2>5 DEF Full
<1>13. ASSUME NEW c \in ToSet(seen), NEW x \in ToSet(reply), x.event = c.event, Full
       PROVE  \E d \in ToSet(delta.seen) : d.event = c.event /\ c.hash <= d.hash
  <2>1. c.event \in EventsOf(reply)
    BY <1>13 DEF EventsOf
  <2>2. CASE c.event \notin EventsOf(normal)
    <3>1. c \in ToSet(delta.seen)
      BY <1>5, <1>12, <1>13, <2>1, <2>2
    <3>2. QED
      BY <1>8, <3>1
  <2>3. CASE c.event \in EventsOf(normal)
    <3>1. PICK d \in ToSet(normal) : d.event = c.event
      BY <2>3 DEF EventsOf
    <3>2. d \in ToSet(delta.seen)
      BY <1>5, <1>12, <1>13, <2>1, <3>1
    <3>3. PICK y \in ToSet(reply) : d = SignalOf(y) /\ d.event = y.event
      BY <1>3
    <3>4. c.hash <= d.hash
      BY <3>1, <3>3 DEF Tracks
    <3>5. QED
      BY <3>1, <3>2, <3>4
  <2>4. QED
    BY <2>2, <2>3
<1>14. ASSUME Full, NEW s \in delta.fresh, s \in known PROVE FALSE
  <2>1. s \in ToSet(normal)
    BY <1>6, <1>14
  <2>2. PICK x \in ToSet(reply) : s = SignalOf(x) /\ s.event = x.event
    BY <1>3, <2>1
  <2>3. PICK c \in ToSet(seen) : c.event = s.event /\ s.hash <= c.hash
    BY <1>10, <1>14, <2>1 DEF Tracks
  <2>4. c.hash <= s.hash
    BY <2>2, <2>3 DEF Tracks
  <2>5. c = s
    BY <1>8, <2>1, <2>3, <2>4
  <2>6. QED
    BY <1>5, <1>14, <2>3, <2>5
<1>15. CursorOK(delta.seen, known \cup delta.fresh)
  <2>1. \A s \in known \cup delta.fresh : s.event <= published
    BY <1>3, <1>6 DEF CursorOK, ListingOK
  <2>2. ToSet(delta.seen) \subseteq known \cup delta.fresh
    BY <1>6 DEF CursorOK
  <2>3. QED
    BY <1>1, <1>6, <1>7, <1>11, <2>1, <2>2 DEF CursorOK
<1>16. \A c \in ToSet(delta.seen), x \in ToSet(reply) : c.event = x.event => c.hash <= SignalOf(x).hash
  <2> TAKE c \in ToSet(delta.seen), x \in ToSet(reply)
  <2> HAVE c.event = x.event
  <2>1. CASE c \in ToSet(seen)
    BY <2>1 DEF Tracks
  <2>2. CASE c \in ToSet(normal)
    <3>1. PICK y \in ToSet(reply) : c = SignalOf(y) /\ c.event = y.event
      BY <1>3, <2>2
    <3>2. y = x
      BY <1>9, <3>1
    <3>3. QED
      BY <1>8, <2>2, <3>1, <3>2
  <2>3. QED
    BY <1>5, <1>7, <2>1, <2>2
<1>17. ASSUME Full, NEW s \in known \cup delta.fresh, s.event \in EventsOf(reply)
       PROVE  \E c \in ToSet(delta.seen) : c.event = s.event /\ s.hash <= c.hash
  <2>1. CASE s \in delta.fresh
    <3>1. s \in ToSet(normal) /\ s.hash \in Nat
      BY <1>6, <1>8, <2>1
    <3>2. s \in ToSet(delta.seen)
      BY <1>5, <1>12, <1>17, <3>1
    <3>3. QED
      BY <3>1, <3>2
  <2>2. CASE s \in known
    <3>1. PICK c \in ToSet(seen) : c.event = s.event /\ s.hash <= c.hash
      BY <1>17, <2>2 DEF Tracks
    <3>2. PICK x \in ToSet(reply) : x.event = c.event
      BY <1>17, <3>1 DEF EventsOf
    <3>3. PICK d \in ToSet(delta.seen) : d.event = c.event /\ c.hash <= d.hash
      BY <1>13, <1>17, <3>2
    <3>4. d \in Signals /\ d.hash \in Nat /\ c.hash \in Nat /\ s.hash \in Nat
      BY <1>5, <1>7, <1>8, <2>2
    <3>5. s.hash <= d.hash
      BY <3>1, <3>3, <3>4
    <3>6. QED
      BY <3>1, <3>3, <3>5
  <2>3. QED
    BY <1>17, <2>1, <2>2
<1>18. ASSUME Ordered, NEW x \in ToSet(reply), NEW c \in ToSet(delta.seen), x.event <= c.event
       PROVE  x.event \in EventsOf(delta.seen) /\ c.event \in EventsOf(reply)
  <2>1. Full
    BY <1>18 DEF Full
  <2>2. CASE c \in ToSet(seen)
    <3>1. x.event \in EventsOf(seen) /\ c.event \in EventsOf(reply)
      BY <1>18, <2>2 DEF Tracks
    <3>2. PICK e \in ToSet(seen) : e.event = x.event
      BY <3>1 DEF EventsOf
    <3>3. PICK d \in ToSet(delta.seen) : d.event = e.event
      BY <1>13, <2>1, <3>2
    <3>4. QED
      BY <3>1, <3>2, <3>3 DEF EventsOf
  <2>3. CASE c \in ToSet(normal)
    <3>1. c.event \in EventsOf(reply) /\ x.event \in EventsOf(normal)
      BY <1>10, <1>11, <1>18, <2>3
    <3>2. PICK d \in ToSet(normal) : d.event = x.event
      BY <3>1 DEF EventsOf
    <3>3. d \in ToSet(delta.seen)
      BY <1>5, <1>10, <1>12, <2>1
    <3>4. QED
      BY <3>1, <3>2, <3>3 DEF EventsOf
  <2>4. QED
    BY <1>5, <1>7, <1>18, <2>2, <2>3
<1>19. Tracks(reply, delta.seen, known \cup delta.fresh)
  BY <1>16, <1>17, <1>18 DEF Tracks
<1>20. \A s \in delta.fresh : s.event \in EventsOf(reply)
  BY <1>6, <1>10
<1>21. Full => delta.fresh \cap known = {}
  BY <1>14
<1>22. QED
  BY <1>15, <1>19, <1>20, <1>21 DEF delta, normal
-------------------------------------------------------------------------------
(* What happens to a listing between its fetch and the next *)

\* What the source lists `now` is later than `list`: what it lists again did not get older,
\* and what it lists newly is newer than everything of the list and everything known.
Precedes(list, now, known) ==
    /\ \A x \in ToSet(list), y \in ToSet(now) : x.event = y.event => x.version <= y.version
    /\ \A y \in ToSet(now) :
          \/ y.event \in EventsOf(list)
          \/ \A s \in ToSet(list) \cup known : s.event < y.event

\* From its oldest event on it lists all that were published.
Complete(list) ==
    \A x \in ToSet(list), e \in Nat : x.event <= e /\ e <= published => e \in EventsOf(list)

\* The source lists its latest events.
SourceOK ==
    /\ Len(feed) <= FeedLength
    /\ \A k \in DOMAIN feed : feed[k].event = published - Len(feed) + k

\* An entry of a listing.
LEMMA EntryFacts ==
    ASSUME NEW list \in Listings, NEW x \in ToSet(list)
    PROVE  /\ x.event \in Nat \ {0} /\ x.version \in Nat
           /\ x \in Entries
<1>1. ToSet(list) \subseteq Entries
  BY ElementOfSeq, LenProperties DEF ToSet, Listings
<1>2. \A e \in Entries : e.event \in Nat \ {0} /\ e.version \in Nat
  BY DEF Entries, Events
<1>3. QED
  BY <1>1, <1>2

\* A cursor that tracks a listing tracks every later one.
LEMMA TracksLater ==
    ASSUME NEW list, NEW now, NEW seen, NEW known, published \in Nat,
           ListingOK(list), now \in Listings, CursorOK(seen, known),
           Tracks(list, seen, known), Precedes(list, now, known), Complete(now)
    PROVE  Tracks(now, seen, known)
<1>1. /\ \A x \in ToSet(list) : x.event \in Nat \ {0} /\ x.version \in Nat
      /\ \A x \in ToSet(now) : x.event \in Nat \ {0} /\ x.version \in Nat
  BY EntryFacts DEF ListingOK
<1>2. \A s \in known : s.event \in Nat /\ s.hash \in Nat /\ s.event <= published
  <2>1. \A s \in Signals : s.event \in Nat /\ s.hash \in Nat
    BY DEF Signals, Events
  <2>2. QED
    BY <2>1 DEF CursorOK
<1>3. ToSet(seen) \subseteq known
  BY DEF CursorOK
<1>4. ASSUME NEW y \in ToSet(now), NEW s \in known, y.event <= s.event
      PROVE  \E x \in ToSet(list) : x.event = y.event
  <2>1. ~ (s.event < y.event)
    BY <1>1, <1>2, <1>4
  <2>2. y.event \in EventsOf(list)
    BY <2>1 DEF Precedes
  <2>3. QED
    BY <2>2 DEF EventsOf
<1>5. ASSUME NEW c \in ToSet(seen), NEW y \in ToSet(now), c.event = y.event
      PROVE  c.hash <= SignalOf(y).hash
  <2>1. PICK x \in ToSet(list) : x.event = y.event
    BY <1>1, <1>3, <1>4, <1>5
  <2>2. c.hash <= SignalOf(x).hash /\ x.version <= y.version
    BY <1>5, <2>1 DEF Tracks, Precedes
  <2>3. x.version \in Nat /\ y.version \in Nat /\ c.hash \in Nat
    BY <1>1, <1>2, <1>3
  <2>4. QED
    BY <2>2, <2>3 DEF SignalOf
<1>6. ASSUME Full, NEW s \in known, s.event \in EventsOf(now)
      PROVE  \E c \in ToSet(seen) : c.event = s.event /\ s.hash <= c.hash
  <2>1. PICK y \in ToSet(now) : y.event = s.event
    BY <1>6 DEF EventsOf
  <2>2. s.event \in EventsOf(list)
    BY <1>1, <1>4, <2>1 DEF EventsOf
  <2>3. QED
    BY <1>6, <2>2 DEF Tracks
<1>7. ASSUME Ordered, NEW y \in ToSet(now), NEW c \in ToSet(seen), y.event <= c.event
      PROVE  y.event \in EventsOf(seen) /\ c.event \in EventsOf(now)
  <2>1. PICK x \in ToSet(list) : x.event = y.event
    BY <1>3, <1>4, <1>7
  <2>2. y.event \in EventsOf(seen)
    BY <1>7, <2>1 DEF Tracks
  <2>3. c.event \in Nat /\ c.event <= published
    BY <1>2, <1>3
  <2>4. c.event \in EventsOf(now)
    BY <1>7, <2>3 DEF Complete
  <2>5. QED
    BY <2>2, <2>4
<1>8. QED
  BY <1>5, <1>6, <1>7 DEF Tracks

\* What a cursor tracks depends on what is listed, not on the order.
LEMMA TracksEntries ==
    ASSUME NEW list, NEW other, ToSet(list) = ToSet(other), NEW seen, NEW known,
           Tracks(list, seen, known)
    PROVE  Tracks(other, seen, known)
BY DEF Tracks, EventsOf

\* A listing stays earlier than what the source lists.
LEMMA PrecedesStays ==
    ASSUME NEW list, NEW now, NEW then, NEW seen, NEW known, published \in Nat,
           ListingOK(list), now \in Listings, then \in Listings, CursorOK(seen, known),
           Precedes(list, now, known),
           \A y \in ToSet(then) :
              \/ y.event > published
              \/ \E x \in ToSet(now) : x.event = y.event /\ x.version <= y.version
    PROVE  Precedes(list, then, known)
<1>1. /\ \A x \in ToSet(list) : x.event \in Nat \ {0} /\ x.version \in Nat /\ x.event <= published
      /\ \A x \in ToSet(now) : x.event \in Nat \ {0} /\ x.version \in Nat
      /\ \A x \in ToSet(then) : x.event \in Nat \ {0} /\ x.version \in Nat
  BY EntryFacts DEF ListingOK
<1>2. \A s \in known : s.event \in Nat /\ s.event <= published
  <2>1. \A s \in Signals : s.event \in Nat
    BY DEF Signals, Events
  <2>2. QED
    BY <2>1 DEF CursorOK
<1>3. ASSUME NEW y \in ToSet(then), y.event > published
      PROVE  \A s \in ToSet(list) \cup known : s.event < y.event
  BY <1>1, <1>2, <1>3
<1>4. ASSUME NEW x \in ToSet(list), NEW y \in ToSet(then), x.event = y.event
      PROVE  x.version <= y.version
  <2>1. ~ (y.event > published)
    BY <1>1, <1>4
  <2>2. PICK z \in ToSet(now) : z.event = y.event /\ z.version <= y.version
    BY <2>1
  <2>3. x.version <= z.version
    BY <1>4, <2>2 DEF Precedes
  <2>4. QED
    BY <1>1, <2>2, <2>3
<1>5. ASSUME NEW y \in ToSet(then)
      PROVE  \/ y.event \in EventsOf(list)
             \/ \A s \in ToSet(list) \cup known : s.event < y.event
  <2>1. CASE y.event > published
    BY <1>3, <2>1
  <2>2. CASE \E x \in ToSet(now) : x.event = y.event /\ x.version <= y.version
    BY <2>2 DEF Precedes
  <2>3. QED
    BY <2>1, <2>2
<1>6. QED
  BY <1>4, <1>5 DEF Precedes

\* A list of consecutive events misses none up to its last.
LEMMA ConsecutiveIsComplete ==
    ASSUME NEW list \in Listings, NEW top \in Nat,
           \A k \in DOMAIN list : list[k].event = top - Len(list) + k,
           NEW x \in ToSet(list), NEW e \in Nat, x.event <= e, e <= top
    PROVE  e \in EventsOf(list)
<1>1. /\ Len(list) \in Nat /\ DOMAIN list = 1 .. Len(list)
      /\ \A k \in 1 .. Len(list) : list[k] \in ToSet(list)
  BY LenProperties DEF Listings, ToSet
<1>2. PICK k \in 1 .. Len(list) : x = list[k]
  BY <1>1 DEF ToSet
<1>3. top - Len(list) + k <= e
  BY <1>1, <1>2
<1> DEFINE j == e - top + Len(list)
<1>4. j \in 1 .. Len(list) /\ top - Len(list) + j = e
  BY <1>1, <1>3
<1>5. list[j].event = e
  BY <1>1, <1>4
<1>6. QED
  BY <1>1, <1>4, <1>5 DEF EventsOf

\* What the source lists is in order, complete, and earlier than itself.
LEMMA FeedFacts ==
    ASSUME feed \in Listings, published \in Nat, SourceOK
    PROVE  /\ Apart(feed) /\ Rising(feed)
           /\ ListingOK(feed) /\ Complete(feed)
           /\ \A known : Precedes(feed, feed, known)
<1>1. /\ Len(feed) \in Nat /\ DOMAIN feed = 1 .. Len(feed)
      /\ \A k \in 1 .. Len(feed) : feed[k] \in Entries
  BY LenProperties, ElementOfSeq DEF Listings
<1>2. \A k \in 1 .. Len(feed) : feed[k].event = published - Len(feed) + k
  BY <1>1 DEF SourceOK
<1>3. \A x \in ToSet(feed) : \E k \in 1 .. Len(feed) : x = feed[k]
  BY <1>1 DEF ToSet
<1>4. \A k \in 1 .. Len(feed) : feed[k] \in ToSet(feed)
  BY <1>1 DEF ToSet
<1>5. Apart(feed)
  <2> SUFFICES ASSUME NEW i \in 1 .. Len(feed), NEW j \in 1 .. Len(feed),
                      feed[i].event = feed[j].event
               PROVE  i = j
    BY <1>1 DEF Apart
  <2>1. published - Len(feed) + i = published - Len(feed) + j
    BY <1>2
  <2>2. QED
    BY <1>1, <2>1
<1>6. Rising(feed)
  <2> SUFFICES ASSUME NEW i \in 1 .. Len(feed), NEW j \in 1 .. Len(feed), i < j
               PROVE  feed[i].event < feed[j].event
    BY <1>1 DEF Rising
  <2>1. published - Len(feed) + i < published - Len(feed) + j
    BY <1>1
  <2>2. QED
    BY <1>2, <2>1
<1>7. \A x \in ToSet(feed) : x.event <= published
  <2> TAKE x \in ToSet(feed)
  <2>1. PICK k \in 1 .. Len(feed) : x = feed[k]
    BY <1>3
  <2>2. published - Len(feed) + k <= published
    BY <1>1
  <2>3. QED
    BY <1>2, <2>1, <2>2
<1>8. ListingOK(feed)
  BY <1>5, <1>6, <1>7 DEF ListingOK, SourceOK
<1>9. Complete(feed)
  BY ConsecutiveIsComplete DEF Complete, SourceOK
<1>10. ASSUME NEW known PROVE Precedes(feed, feed, known)
  <2>1. \A x, y \in ToSet(feed) : x.event = y.event => x = y
    BY <1>1, <1>5 DEF Apart, ToSet
  <2>2. \A x \in ToSet(feed) : x.event \in EventsOf(feed) /\ x.version <= x.version
    BY EntryFacts DEF EventsOf
  <2>3. QED
    BY <2>1, <2>2 DEF Precedes
<1>11. QED
  BY <1>5, <1>6, <1>8, <1>9, <1>10

\* In either order.
LEMMA ListingFacts ==
    ASSUME feed \in Listings, published \in Nat, newestFirst \in BOOLEAN, SourceOK
    PROVE  ListingOK(Listing) /\ ToSet(Listing) = ToSet(feed)
<1>1. ListingOK(feed)
  BY FeedFacts
<1>2. CASE ~ newestFirst
  BY <1>1, <1>2 DEF Listing
<1>3. CASE newestFirst
  <2> DEFINE n == Len(feed)
             back == [i \in 1 .. n |-> feed[(n - i) + 1]]
  <2>1. Reverse(feed) = back
    BY DEF Reverse
  <2>2. n \in Nat /\ DOMAIN feed = 1 .. n
    BY LenProperties DEF Listings
  <2>3. Listing = back /\ Listing \in Listings
    BY <1>3, <2>1, ListingIsListing DEF Listing
  <2>4. DOMAIN back = 1 .. n
    OBVIOUS
  <2>5. Len(back) = n
    <3>1. Len(back) \in Nat /\ DOMAIN back = 1 .. Len(back)
      BY <2>3, LenProperties DEF Listings
    <3>2. 1 .. Len(back) = 1 .. n
      BY <2>4, <3>1
    <3> DEFINE m == Len(back)
    <3>3. m \in Nat /\ n \in Nat /\ \A k \in Nat : k \in 1 .. m <=> k \in 1 .. n
      BY <2>2, <3>1, <3>2
    <3> HIDE DEF m, back, n
    <3>4. m <= n
      <4>1. m = 0 \/ m \in 1 .. m
        BY <3>3
      <4>2. QED
        BY <3>3, <4>1
    <3>5. n <= m
      <4>1. n = 0 \/ n \in 1 .. n
        BY <3>3
      <4>2. QED
        BY <3>3, <4>1
    <3>6. m = n
      BY <3>3, <3>4, <3>5
    <3>7. QED
      BY <3>6 DEF m
  <2>6. \A i \in 1 .. n : (n - i) + 1 \in 1 .. n /\ back[i] = feed[(n - i) + 1]
    BY <2>2
  <2>7. ToSet(back) = ToSet(feed)
    <3>1. \A i \in 1 .. n : back[(n - i) + 1] = feed[i]
      BY <2>2
    <3> HIDE DEF back, n
    <3>2. ToSet(back) \subseteq ToSet(feed)
      BY <2>2, <2>4, <2>6 DEF ToSet
    <3>3. ToSet(feed) \subseteq ToSet(back)
      BY <2>2, <2>4, <2>6, <3>1 DEF ToSet
    <3>4. QED
      BY <3>2, <3>3
  <2>8. Apart(back)
    <3> SUFFICES ASSUME NEW i \in 1 .. n, NEW j \in 1 .. n, back[i].event = back[j].event
                 PROVE  i = j
      BY <2>4 DEF Apart
    <3>1. (n - i) + 1 = (n - j) + 1
      BY <1>1, <2>2, <2>6 DEF ListingOK, Apart
    <3>2. QED
      BY <2>2, <3>1
  <2>9. ~ Ordered
    BY <1>3 DEF Ordered
  <2> HIDE DEF back
  <2>10. Len(Listing) <= FeedLength /\ \A x \in ToSet(Listing) : x.event <= published
    BY <1>1, <2>3, <2>5, <2>7 DEF ListingOK
  <2>11. QED
    BY <2>3, <2>7, <2>8, <2>9, <2>10 DEF ListingOK
<1>4. QED
  BY <1>2, <1>3
-------------------------------------------------------------------------------
(* Nothing is repeated *)

\* Unless it was changed, the filter is off, for every poll too.
FilterIsKnown ==
    ~ blurred.filter => /\ ~ config.picky
                        /\ \A p \in Polls : polls[p] # None => ~ polls[p].picky

Answered(p) == Waiting(p, "answered") \/ Waiting(p, "unmodified")

\* As long as polls do not overlap, a poll compares against the stored cursor, and that
\* tracks what the source lists and what it answered.
NewsInv ==
    ~ blurred.polls =>
        /\ \A p, q \in Polls : polls[p] # None /\ polls[q] # None => p = q
        /\ \A p \in Polls : polls[p] # None /\ ~ Storing(p) => polls[p].cursor = cursor
        /\ CursorOK(cursor.seen, noticed)
        /\ Tracks(feed, cursor.seen, noticed)
        /\ \A p \in Polls : Answered(p) =>
              /\ ListingOK(polls[p].reply)
              /\ Tracks(polls[p].reply, cursor.seen, noticed)
              /\ Precedes(polls[p].reply, feed, noticed)

RepeatInv == SourceOK /\ FilterIsKnown /\ NewsInv

\* What holds of a list holds on while more is published and the filter is changed.
LEMMA StaysTracked ==
    ASSUME UNCHANGED <<newestFirst, visible>>, published \in Nat, published' \in Nat,
           published <= published', blurred.filter => blurred'.filter
    PROVE  /\ (Ordered' => Ordered) /\ (Full' => Full)
           /\ \A seen, known : CursorOK(seen, known) => CursorOK(seen, known)'
           /\ \A list : ListingOK(list) => ListingOK(list)'
           /\ \A list, seen, known : Tracks(list, seen, known) => Tracks(list, seen, known)'
<1>1. Ordered' => Ordered
  BY DEF Ordered
<1>2. Full' => Full
  BY <1>1, DeltaAssumption DEF Full
<1>3. ASSUME NEW e \in Nat, e <= published PROVE e <= published'
  BY <1>3
<1>4. ASSUME NEW seen, NEW known, CursorOK(seen, known) PROVE CursorOK(seen, known)'
  <2>1. \A s \in known : s.event \in Nat /\ s.event <= published
    BY <1>4 DEF CursorOK, Signals, Events
  <2>2. \A s \in known : s.event <= published'
    BY <1>3, <2>1
  <2>3. QED
    BY <1>1, <1>4, <2>2 DEF CursorOK
<1>5. ASSUME NEW list, ListingOK(list) PROVE ListingOK(list)'
  <2>1. \A x \in ToSet(list) : x.event \in Nat /\ x.event <= published
    BY <1>5, EntryFacts DEF ListingOK
  <2>2. \A x \in ToSet(list) : x.event <= published'
    BY <1>3, <2>1
  <2>3. QED
    BY <1>1, <1>5, <2>2 DEF ListingOK
<1>6. ASSUME NEW list, NEW seen, NEW known, Tracks(list, seen, known)
      PROVE  Tracks(list, seen, known)'
  BY <1>1, <1>2, <1>6 DEF Tracks, SignalOf
<1>7. QED
  BY <1>1, <1>2, <1>4, <1>5, <1>6

\* At the start nothing is listed, noticed or asked.
LEMMA InitRepeats == Init => RepeatInv
<1> SUFFICES ASSUME Init PROVE RepeatInv
  OBVIOUS
<1>1. /\ feed = << >> /\ published = 0 /\ noticed = {} /\ cursor.seen = << >>
      /\ \A p \in Polls : polls[p] = None
      /\ ~ config.picky /\ Len(feed) = 0 /\ DOMAIN feed = {}
  BY DEF Init, SourceInit, NewCursor, Created
<1>2. ToSet(cursor.seen) = {} /\ ToSet(feed) = {} /\ DOMAIN cursor.seen = {}
  BY <1>1 DEF ToSet
<1>3. SourceOK
  BY <1>1, DeltaAssumption DEF SourceOK
<1>4. FilterIsKnown
  BY <1>1 DEF FilterIsKnown
<1>5. CursorOK(cursor.seen, noticed)
  BY <1>1, <1>2, EmptySeq DEF CursorOK, Apart, Rising
<1>6. Tracks(feed, cursor.seen, noticed)
  BY <1>1, <1>2 DEF Tracks
<1>7. NewsInv
  BY <1>1, <1>5, <1>6 DEF NewsInv, Answered, Waiting
<1>8. QED
  BY <1>3, <1>4, <1>7 DEF RepeatInv

\* A step that publishes, fetches and notices nothing.
LEMMA QuietNews ==
    ASSUME RepeatInv, DataInv,
           UNCHANGED <<sourceVars, adapterVars, noticed>>,
           blurred.polls => blurred'.polls, blurred.filter => blurred'.filter,
           ~ blurred'.polls =>
              /\ cursor' = cursor
              /\ \A p, q \in Polls : polls'[p] # None /\ polls'[q] # None => p = q
              /\ \A q \in Polls :
                    \/ polls'[q] = None \/ polls'[q] = polls[q]
                    \/ /\ polls'[q].cursor = cursor
                       /\ polls'[q].step = "asking" \/ polls'[q].reply = Listing
    PROVE  NewsInv'
<1> SUFFICES ASSUME ~ blurred'.polls PROVE NewsInv'
  BY DEF NewsInv
<1>1. /\ UNCHANGED <<newestFirst, feed, published, type, tagged, visible, noticed, cursor>>
      /\ published \in Nat /\ feed \in Listings /\ newestFirst \in BOOLEAN /\ ~ blurred.polls
  BY DEF sourceVars, adapterVars, DataInv, DataTypeOK
<1>2. /\ CursorOK(cursor.seen, noticed)
      /\ Tracks(feed, cursor.seen, noticed)
      /\ \A p \in Polls : polls[p] # None /\ ~ Storing(p) => polls[p].cursor = cursor
      /\ \A p \in Polls : Answered(p) =>
            /\ ListingOK(polls[p].reply)
            /\ Tracks(polls[p].reply, cursor.seen, noticed)
            /\ Precedes(polls[p].reply, feed, noticed)
  BY <1>1 DEF RepeatInv, NewsInv
<1>3. published <= published'
  BY <1>1
<1>4. /\ \A seen, known : CursorOK(seen, known) => CursorOK(seen, known)'
      /\ \A list : ListingOK(list) => ListingOK(list)'
      /\ \A list, seen, known : Tracks(list, seen, known) => Tracks(list, seen, known)'
  BY <1>1, <1>3, StaysTracked
<1>5. PICK c, f, k : c = cursor /\ f = feed /\ k = noticed
  OBVIOUS
<1>6. CursorOK(cursor.seen, noticed)'
  <2>1. CursorOK(c.seen, k)'
    BY <1>2, <1>4, <1>5
  <2>2. QED
    BY <1>1, <1>5, <2>1 DEF CursorOK
<1>7. Tracks(feed, cursor.seen, noticed)'
  <2>1. Tracks(f, c.seen, k)'
    BY <1>2, <1>4, <1>5
  <2>2. QED
    BY <1>1, <1>5, <2>1 DEF Tracks
<1>8. ASSUME NEW list, ListingOK(list), Tracks(list, c.seen, k), Precedes(list, f, k),
             NEW q \in Polls, polls'[q].reply = list
      PROVE  /\ ListingOK(polls[q].reply)' /\ Tracks(polls[q].reply, cursor.seen, noticed)'
             /\ Precedes(polls[q].reply, feed, noticed)'
  <2>1. ListingOK(list)' /\ Tracks(list, c.seen, k)'
    BY <1>4, <1>8
  <2>2. ListingOK(polls[q].reply)'
    BY <1>8, <2>1 DEF ListingOK
  <2>3. Tracks(polls[q].reply, cursor.seen, noticed)'
    BY <1>1, <1>5, <1>8, <2>1 DEF Tracks
  <2>4. Precedes(polls[q].reply, feed, noticed)'
    BY <1>1, <1>5, <1>8 DEF Precedes
  <2>5. QED
    BY <2>2, <2>3, <2>4
<1>9. PICK l : l = Listing
  OBVIOUS
<1>10. ListingOK(l) /\ Tracks(l, c.seen, k) /\ Precedes(l, f, k)
  <2>1. ListingOK(l) /\ ToSet(l) = ToSet(f) /\ SourceOK
    BY <1>1, <1>5, <1>9, ListingFacts DEF RepeatInv
  <2>2. Tracks(l, c.seen, k)
    BY <1>2, <1>5, <2>1, TracksEntries
  <2>3. Precedes(f, f, k)
    BY <1>1, <1>5, <2>1, FeedFacts
  <2>4. Precedes(l, f, k)
    BY <2>1, <2>3 DEF Precedes, EventsOf
  <2>5. QED
    BY <2>1, <2>2, <2>4
<1>11. ASSUME NEW q \in Polls, Answered(q)'
       PROVE  /\ ListingOK(polls[q].reply)' /\ Tracks(polls[q].reply, cursor.seen, noticed)'
              /\ Precedes(polls[q].reply, feed, noticed)'
  <2>1. polls'[q] # None /\ polls'[q].step \in {"answered", "unmodified"}
    BY <1>11 DEF Answered, Waiting
  <2>2. CASE polls'[q] = polls[q]
    <3>1. PICK r : r = polls[q].reply
      OBVIOUS
    <3>2. Answered(q)
      BY <2>1, <2>2 DEF Answered, Waiting
    <3>3. ListingOK(r) /\ Tracks(r, c.seen, k) /\ Precedes(r, f, k)
      BY <1>2, <1>5, <3>1, <3>2
    <3>4. polls'[q].reply = r
      BY <2>2, <3>1
    <3>5. QED
      BY <1>8, <3>3, <3>4
  <2>3. CASE polls'[q].reply = Listing
    BY <1>8, <1>9, <1>10, <2>3
  <2>4. QED
    BY <2>1, <2>2, <2>3
<1>12. ASSUME NEW q \in Polls, polls'[q] # None, ~ Storing(q)'
       PROVE  polls'[q].cursor = cursor'
  <2>1. CASE polls'[q] = polls[q]
    BY <1>1, <1>2, <1>12, <2>1 DEF Storing
  <2>2. QED
    BY <1>1, <1>12, <2>1
<1>13. QED
  BY <1>6, <1>7, <1>11, <1>12 DEF NewsInv

\* The steps of a poll but for the comparison.
LEMMA PollNews ==
    ASSUME RepeatInv, IInv, DataInv, NEW p \in Polls,
           \/ PollBegins(p) \/ SourceAnswers(p) \/ NotModified(p) \/ FetchFails(p)
           \/ SchemaDrifts(p) \/ StoreSignals(p)
    PROVE  NewsInv'
<1>1. /\ polls \in [Polls -> PollRecords \cup {None}]
      /\ ~ blurred.polls =>
            /\ \A q, r \in Polls : polls[q] # None /\ polls[r] # None => q = r
            /\ \A q \in Polls : polls[q] # None /\ ~ Storing(q) => polls[q].cursor = cursor
  BY DEF DataInv, DataTypeOK, RepeatInv, NewsInv
<1>2. CASE PollBegins(p)
  <2> DEFINE next == [step |-> "asking", picky |-> config.picky, cursor |-> cursor,
                      reply |-> None, fresh |-> {}]
  <2>1. /\ polls' = [polls EXCEPT ![p] = next]
        /\ blurred' = [blurred EXCEPT !.polls = @ \/ \E q \in Polls : polls[q] # None]
        /\ UNCHANGED <<sourceVars, adapterVars, noticed, cursor>>
    BY <1>2 DEF PollBegins
  <2>2. next.cursor = cursor /\ next.step = "asking"
    OBVIOUS
  <2> HIDE DEF next
  <2>3. polls'[p] = next /\ \A q \in Polls : q # p => polls'[q] = polls[q]
    BY <1>1, <2>1
  <2>4. /\ blurred'.filter = blurred.filter
        /\ ~ blurred'.polls => ~ blurred.polls /\ \A q \in Polls : polls[q] = None
    BY <2>1 DEF IInv, ConfigTypeOK
  <2>5. ~ blurred'.polls =>
           \A q, r \in Polls : polls'[q] # None /\ polls'[r] # None => q = r
    BY <2>3, <2>4
  <2>6. \A q \in Polls :
           \/ polls'[q] = None \/ polls'[q] = polls[q]
           \/ polls'[q].cursor = cursor /\ polls'[q].step = "asking"
    BY <2>2, <2>3
  <2>7. UNCHANGED <<sourceVars, adapterVars, noticed>> /\ cursor' = cursor
    BY <2>1
  <2>8. (blurred.polls => blurred'.polls) /\ (blurred.filter => blurred'.filter)
    BY <2>4
  <2>9. QED
    BY <2>5, <2>6, <2>7, <2>8, QuietNews
<1>3. CASE SourceAnswers(p)
  <2>1. /\ polls[p] # None /\ ~ Storing(p)
        /\ UNCHANGED <<sourceVars, adapterVars, noticed, cursor, blurred>>
    BY <1>3 DEF SourceAnswers, Waiting, Storing
  <2>2. PICK step : polls' = [polls EXCEPT ![p].step = step, ![p].reply = Listing]
    BY <1>3 DEF SourceAnswers
  <2>3. polls[p] \in PollRecords
    BY <1>1, <2>1
  <2>4. /\ polls'[p].cursor = polls[p].cursor /\ polls'[p].reply = Listing
        /\ \A q \in Polls : q # p => polls'[q] = polls[q]
    BY <1>1, <2>2, <2>3 DEF PollRecords
  <2>5. QED
    BY <1>1, <2>1, <2>4, QuietNews
<1>4. CASE NotModified(p) \/ FetchFails(p) \/ SchemaDrifts(p) \/ StoreSignals(p)
  <2>1. /\ polls' = [polls EXCEPT ![p] = None]
        /\ UNCHANGED <<sourceVars, adapterVars, noticed, blurred>>
    BY <1>4 DEF NotModified, FetchFails, SchemaDrifts, StoreSignals
  <2>2. ~ blurred.polls => cursor' = cursor
    <3>1. CASE NotModified(p)
      <4>1. cursor' = polls[p].cursor /\ polls[p] # None /\ ~ Storing(p)
        BY <3>1 DEF NotModified, Waiting, Storing
      <4>2. QED
        BY <1>1, <4>1
    <3>2. QED
      BY <1>4, <3>1 DEF FetchFails, SchemaDrifts, StoreSignals
  <2>3. polls'[p] = None /\ \A q \in Polls : q # p => polls'[q] = polls[q]
    BY <1>1, <2>1
  <2>4. QED
    BY <1>1, <2>1, <2>2, <2>3, QuietNews
<1>5. QED
  BY <1>2, <1>3, <1>4

\* A comparison finds only news, and leaves a cursor that tracks what it was made with and
\* what the source lists by now.
LEMMA FetchedNews ==
    ASSUME RepeatInv, DataInv, NEW p \in Polls, Fetched(p)
    PROVE  /\ NewsInv'
           /\ \A q \in Polls : Storing(q)' /\ ~ Storing(q) => q = p
           /\ ~ blurred.polls /\ Full => polls'[p].fresh \cap noticed = {}
<1>1. /\ polls \in [Polls -> PollRecords \cup {None}]
      /\ noticed \in SUBSET Signals /\ feed \in Listings /\ published \in Nat
      /\ type \in Types /\ visible \in BOOLEAN /\ newestFirst \in BOOLEAN
  BY DEF DataInv, DataTypeOK
<1>2. PICK record \in PollRecords : polls[p] = record
  BY <1>1 DEF Fetched, FetchedFrom, Waiting
<1> DEFINE reply == record.reply
           seen  == record.cursor.seen
           delta == ApplyDelta(Normalize(reply, record.picky), seen)
<1>3. /\ polls[p] # None /\ record.step = "answered" /\ ~ Storing(p) /\ Answered(p)
      /\ noticed' = noticed \cup delta.fresh /\ cursor'.seen = delta.seen
      /\ polls' = [polls EXCEPT ![p].step = "storing", ![p].fresh = delta.fresh]
      /\ UNCHANGED <<newestFirst, feed, published, type, visible, blurred>>
  BY <1>2 DEF Fetched, FetchedFrom, Waiting, Storing, Answered, sourceVars, adapterVars
<1> HIDE DEF delta
<1>4. /\ polls'[p].step = "storing" /\ polls'[p].fresh = delta.fresh
      /\ \A q \in Polls : q # p => polls'[q] = polls[q]
  BY <1>1, <1>2, <1>3 DEF PollRecords
<1>5. \A q \in Polls : Storing(q)' /\ ~ Storing(q) => q = p
  BY <1>4 DEF Storing
<1>6. ASSUME ~ blurred.polls
      PROVE  /\ Full => delta.fresh \cap noticed = {}
             /\ CursorOK(delta.seen, noticed \cup delta.fresh)
             /\ Tracks(feed, delta.seen, noticed \cup delta.fresh)
  <2>1. /\ record.cursor = cursor
        /\ CursorOK(cursor.seen, noticed)
        /\ ListingOK(reply) /\ Tracks(reply, cursor.seen, noticed)
        /\ Precedes(reply, feed, noticed)
    BY <1>2, <1>3, <1>6 DEF RepeatInv, NewsInv
  <2>2. CursorOK(seen, noticed) /\ Tracks(reply, seen, noticed)
    BY <2>1
  <2>3. record.picky \in BOOLEAN
    BY DEF PollRecords
  <2>4. Ordered => ~ record.picky
    BY <1>2, <1>3 DEF RepeatInv, FilterIsKnown, Ordered
  <2> HIDE DEF reply, seen
  <2>5. /\ Full => delta.fresh \cap noticed = {}
        /\ \A s \in delta.fresh : s.event \in EventsOf(reply)
        /\ CursorOK(delta.seen, noticed \cup delta.fresh)
        /\ Tracks(reply, delta.seen, noticed \cup delta.fresh)
    BY <1>1, <2>1, <2>2, <2>3, <2>4, DeltaIsNews DEF delta
  <2>6. Precedes(reply, feed, noticed \cup delta.fresh)
    <3>1. ASSUME NEW y \in ToSet(feed), y.event \notin EventsOf(reply)
          PROVE  \A s \in ToSet(reply) \cup (noticed \cup delta.fresh) : s.event < y.event
      <4>1. \A s \in ToSet(reply) \cup noticed : s.event < y.event
        BY <2>1, <3>1 DEF Precedes
      <4>2. \A s \in delta.fresh : \E x \in ToSet(reply) : x.event = s.event
        BY <2>5 DEF EventsOf
      <4>3. QED
        BY <4>1, <4>2
    <3>2. QED
      BY <2>1, <3>1 DEF Precedes
  <2>7. Complete(feed)
    BY <1>1, FeedFacts DEF RepeatInv
  <2>8. Tracks(feed, delta.seen, noticed \cup delta.fresh)
    BY <1>1, <2>1, <2>5, <2>6, <2>7, TracksLater
  <2>9. QED
    BY <2>5, <2>8
<1>7. NewsInv'
  <2> SUFFICES ASSUME ~ blurred.polls PROVE NewsInv'
    BY <1>3 DEF NewsInv
  <2>1. \A q, r \in Polls : polls[q] # None /\ polls[r] # None => q = r
    BY DEF RepeatInv, NewsInv
  <2>2. \A q \in Polls : q # p => polls'[q] = None
    BY <1>3, <1>4, <2>1
  <2>3. PICK s, k, f : s = delta.seen /\ k = noticed \cup delta.fresh /\ f = feed
    OBVIOUS
  <2>4. /\ \A a, b : CursorOK(a, b) => CursorOK(a, b)'
        /\ \A list, a, b : Tracks(list, a, b) => Tracks(list, a, b)'
    <3>1. published <= published' /\ published' \in Nat /\ UNCHANGED <<newestFirst, visible>>
          /\ (blurred.filter => blurred'.filter)
      BY <1>1, <1>3
    <3>2. QED
      BY <1>1, <3>1, StaysTracked
  <2>5. CursorOK(s, k)' /\ Tracks(f, s, k)'
    BY <1>6, <2>3, <2>4
  <2>6. cursor'.seen = s /\ noticed' = k /\ feed' = f
    BY <1>3, <2>3
  <2>7. CursorOK(cursor.seen, noticed)'
    BY <2>5, <2>6 DEF CursorOK
  <2>8. Tracks(feed, cursor.seen, noticed)'
    BY <2>5, <2>6 DEF Tracks
  <2>9. \A q \in Polls : polls'[q] # None => q = p /\ Storing(q)' /\ ~ Answered(q)'
    BY <1>4, <2>2 DEF Storing, Answered, Waiting
  <2>10. \A q, r \in Polls : polls'[q] # None /\ polls'[r] # None => q = r
    BY <2>9
  <2>11. \A q \in Polls : (polls[q] # None /\ ~ Storing(q))' => (polls[q].cursor = cursor)'
    BY <2>9
  <2>12. \A q \in Polls : ~ Answered(q)'
    BY <2>9 DEF Answered, Waiting
  <2> HIDE DEF reply, seen
  <2>13. QED
    BY <2>7, <2>8, <2>10, <2>11, <2>12 DEF NewsInv
<1>8. QED
  BY <1>4, <1>5, <1>6, <1>7

\* The source lists its latest events, in order.
LEMMA SourceNews ==
    ASSUME feed \in Listings, published \in Nat, SourceOK, DataTypeOK',
           Publish \/ \E k \in DOMAIN feed : Revise(k)
    PROVE  /\ SourceOK' /\ published <= published' /\ UNCHANGED newestFirst
           /\ \A y \in ToSet(feed') :
                 \/ y.event > published
                 \/ \E x \in ToSet(feed) : x.event = y.event /\ x.version <= y.version
<1> DEFINE n == Len(feed)
<1>1. /\ n \in Nat /\ DOMAIN feed = 1 .. n /\ FeedLength \in Nat
      /\ \A k \in 1 .. n : feed[k] \in Entries
  BY LenProperties, ElementOfSeq, DeltaAssumption DEF Listings
<1>2. n <= FeedLength /\ \A k \in 1 .. n : feed[k].event = published - n + k
  BY <1>1 DEF SourceOK
<1>3. \A e \in Entries : e.event \in Nat /\ e.version \in Nat
  BY DEF Entries, Events
<1>4. \A k \in 1 .. n : feed[k] \in ToSet(feed)
  BY <1>1 DEF ToSet
<1>5. CASE Publish
  <2> DEFINE entry  == [event |-> published + 1, version |-> 1]
             longer == Append(feed, entry)
  <2>1. /\ published' = published + 1 /\ newestFirst' = newestFirst
        /\ feed' = IF Len(longer) > FeedLength THEN Tail(longer) ELSE longer
        /\ published <= published'
    <3>1. published' = published + 1
      BY <1>5 DEF Publish
    <3>2. published <= published'
      BY <3>1
    <3>3. QED
      BY <1>5, <3>2 DEF Publish
  <2>2. entry \in Entries
    <3>1. published + 1 \in Events
      <4>1. published + 1 <= MaxEvents /\ MaxEvents \in Nat
        BY <1>5, DeltaAssumption DEF Publish
      <4>2. QED
        BY <4>1 DEF Events
    <3>2. QED
      BY <3>1, DeltaAssumption DEF Entries
  <2> DEFINE here == entry
  <2>3. here.event = published + 1
    OBVIOUS
  <2> HIDE DEF entry
  <2>4. /\ longer \in Seq(Entries) /\ Len(longer) = n + 1
        /\ \A k \in 1 .. n : longer[k] = feed[k]
        /\ longer[n + 1] = entry
    BY <2>2, AppendProperties DEF Listings
  <2>5. \A k \in 1 .. n + 1 : longer[k].event = published - n + k
    <3> TAKE k \in 1 .. n + 1
    <3>1. CASE k \in 1 .. n
      BY <1>2, <2>4, <3>1
    <3>2. CASE k = n + 1
      <4>1. published - n + k = published + 1
        BY <1>1, <3>2
      <4>2. QED
        BY <2>3, <2>4, <3>2, <4>1
    <3>3. QED
      BY <1>1, <3>1, <3>2
  <2> HIDE DEF longer, here, n
  <2>6. CASE ~ (Len(longer) > FeedLength)
    <3>1. feed' = longer /\ Len(longer) \in Nat /\ DOMAIN longer = 1 .. n + 1
      BY <2>1, <2>4, <2>6, LenProperties
    <3>2. \A k \in 1 .. n + 1 : longer[k].event = (published + 1) - (n + 1) + k
      BY <1>1, <2>5
    <3>3. SourceOK'
      <4>1. Len(feed') = n + 1 /\ DOMAIN feed' = 1 .. n + 1 /\ n + 1 <= FeedLength
        BY <1>1, <2>4, <2>6, <3>1
      <4>2. \A k \in 1 .. n + 1 : feed'[k].event = published' - (n + 1) + k
        BY <2>1, <3>1, <3>2
      <4> DEFINE m == n + 1
      <4> HIDE DEF m
      <4>3. QED
        BY <4>1, <4>2 DEF SourceOK
    <3>4. ASSUME NEW y \in ToSet(longer)
          PROVE  \/ y.event > published
                 \/ \E x \in ToSet(feed) : x.event = y.event /\ x.version <= y.version
      <4>1. PICK k \in 1 .. n + 1 : y = longer[k]
        BY <3>1 DEF ToSet
      <4>2. CASE k \in 1 .. n
        BY <1>1, <1>3, <1>4, <2>4, <4>1, <4>2
      <4>3. CASE k = n + 1
        <5>1. y.event = published + 1
          BY <2>3, <2>4, <4>1, <4>3 DEF here
        <5>2. QED
          BY <5>1
      <4>4. QED
        BY <1>1, <4>2, <4>3
    <3>5. QED
      BY <2>1, <3>1, <3>3, <3>4
  <2>7. CASE Len(longer) > FeedLength
    <3> DEFINE rest == Tail(longer)
    <3>1. longer # << >>
      BY <1>1, <2>4, EmptySeq
    <3>2. /\ rest \in Seq(Entries) /\ Len(rest) = n
          /\ \A i \in 1 .. n : rest[i] = longer[i + 1]
      BY <1>1, <2>4, <3>1, HeadTailProperties
    <3>3. feed' = rest /\ DOMAIN rest = 1 .. n
      BY <2>1, <2>7, <3>2, LenProperties
    <3> HIDE DEF rest
    <3>4. \A i \in 1 .. n : i + 1 \in 1 .. n + 1 /\ rest[i].event = (published + 1) - n + i
      <4> TAKE i \in 1 .. n
      <4>1. i + 1 \in 1 .. n + 1 /\ published - n + (i + 1) = (published + 1) - n + i
        BY <1>1
      <4>2. longer[i + 1].event = published - n + (i + 1)
        BY <2>5, <4>1
      <4>3. rest[i] = longer[i + 1]
        BY <3>2
      <4>4. QED
        BY <4>1, <4>2, <4>3
    <3>5. SourceOK'
      BY <1>1, <1>2, <2>1, <3>2, <3>3, <3>4 DEF SourceOK
    <3>6. ASSUME NEW y \in ToSet(rest)
          PROVE  \/ y.event > published
                 \/ \E x \in ToSet(feed) : x.event = y.event /\ x.version <= y.version
      <4>1. PICK i \in 1 .. n : y = rest[i]
        BY <3>3 DEF ToSet
      <4>2. CASE i + 1 \in 1 .. n
        BY <1>1, <1>3, <1>4, <2>4, <3>2, <4>1, <4>2
      <4>3. CASE i = n
        <5>1. y.event = published + 1
          <6>1. y = longer[n + 1]
            BY <3>2, <4>1, <4>3
          <6>2. QED
            BY <2>3, <2>4, <6>1 DEF here
        <5>2. QED
          BY <5>1
      <4>4. QED
        BY <1>1, <4>2, <4>3
    <3>7. QED
      BY <2>1, <3>3, <3>5, <3>6
  <2>8. QED
    BY <2>6, <2>7
<1>6. ASSUME NEW k \in 1 .. n, Revise(k)
      PROVE  /\ SourceOK' /\ published <= published' /\ UNCHANGED newestFirst
             /\ \A y \in ToSet(feed') :
                   \E x \in ToSet(feed) : x.event = y.event /\ x.version <= y.version
  <2> DEFINE entry == [feed[k] EXCEPT !.version = @ + 1]
  <2>1. PICK e \in Entries : e = feed[k]
    BY <1>1
  <2>2. entry = [e EXCEPT !.version = e.version + 1]
    BY <2>1
  <2>3. entry.event = e.event /\ entry.version = e.version + 1
    BY <2>2 DEF Entries
  <2>4. feed' = [feed EXCEPT ![k] = entry] /\ published' = published /\ newestFirst' = newestFirst
    BY <1>6 DEF Revise
  <2> HIDE DEF entry
  <2>5. /\ DOMAIN feed' = 1 .. n /\ feed'[k] = entry
        /\ \A i \in 1 .. n : i # k => feed'[i] = feed[i]
    <3>1. feed \in Seq(Entries) /\ entry \in Entries
      <4>1. e.version + 1 \in 1 .. MaxVersion
        <5>1. e.version \in 1 .. MaxVersion /\ e.version < MaxVersion /\ MaxVersion \in Nat
          BY <1>6, <2>1, DeltaAssumption DEF Revise, Entries
        <5>2. QED
          BY <5>1
      <4>2. QED
        BY <2>2, <4>1 DEF Entries, Listings
    <3>2. QED
      BY <1>1, <2>4, <3>1, ExceptSeq
  <2>6. Len(feed') = n
    BY <1>1, <2>1, <2>4, ExceptSeq
  <2>7. ASSUME NEW i \in 1 .. n
        PROVE  /\ feed'[i].event = feed[i].event /\ feed[i].version <= feed'[i].version
    <3>1. CASE i = k
      <4>1. e.version \in Nat
        BY <1>3
      <4>2. QED
        BY <2>1, <2>3, <2>5, <3>1, <4>1
    <3>2. CASE i # k
      BY <1>1, <1>3, <2>5, <3>2
    <3>3. QED
      BY <3>1, <3>2
  <2> HIDE DEF n
  <2>8. SourceOK'
    BY <1>2, <2>4, <2>5, <2>6, <2>7 DEF SourceOK
  <2>9. \A y \in ToSet(feed') :
           \E x \in ToSet(feed) : x.event = y.event /\ x.version <= y.version
    BY <1>4, <2>5, <2>7 DEF ToSet
  <2>10. published <= published'
    BY <2>4
  <2>11. QED
    BY <2>4, <2>8, <2>9, <2>10
<1>7. QED
  BY <1>1, <1>5, <1>6

\* What is published or revised meanwhile is tracked as well.
LEMMA SourceKeepsNews ==
    ASSUME RepeatInv, DataInv, DataTypeOK', UNCHANGED connectorVars,
           Publish \/ \E k \in DOMAIN feed : Revise(k)
    PROVE  SourceOK' /\ NewsInv'
<1>1. /\ feed \in Listings /\ published \in Nat /\ SourceOK
      /\ feed' \in Listings /\ published' \in Nat
  BY DEF DataInv, DataTypeOK, RepeatInv
<1>2. /\ SourceOK' /\ published <= published' /\ UNCHANGED newestFirst
      /\ \A y \in ToSet(feed') :
            \/ y.event > published
            \/ \E x \in ToSet(feed) : x.event = y.event /\ x.version <= y.version
  BY <1>1, SourceNews
<1>3. UNCHANGED <<polls, cursor, noticed, blurred, visible>>
  BY DEF connectorVars, adapterVars
<1>4. ASSUME ~ blurred.polls PROVE NewsInv'
  <2>1. /\ \A p, q \in Polls : polls[p] # None /\ polls[q] # None => p = q
        /\ \A p \in Polls : polls[p] # None /\ ~ Storing(p) => polls[p].cursor = cursor
        /\ CursorOK(cursor.seen, noticed)
        /\ Tracks(feed, cursor.seen, noticed)
        /\ \A p \in Polls : Answered(p) =>
              /\ ListingOK(polls[p].reply)
              /\ Tracks(polls[p].reply, cursor.seen, noticed)
              /\ Precedes(polls[p].reply, feed, noticed)
    BY <1>4 DEF RepeatInv, NewsInv
  <2>2. PICK s, k, f, g : s = cursor.seen /\ k = noticed /\ f = feed /\ g = feed'
    OBVIOUS
  <2>3. ListingOK(f) /\ Precedes(f, f, k) /\ g \in Listings /\ f \in Listings
    BY <1>1, <2>2, FeedFacts
  <2>4. CursorOK(s, k) /\ Tracks(f, s, k)
    BY <2>1, <2>2
  <2>5. \A y \in ToSet(g) :
           \/ y.event > published
           \/ \E x \in ToSet(f) : x.event = y.event /\ x.version <= y.version
    BY <1>2, <2>2
  <2>6. \A list : ListingOK(list) /\ Precedes(list, f, k) => Precedes(list, g, k)
    BY <1>1, <2>3, <2>4, <2>5, PrecedesStays
  <2>7. Complete(g)
    <3>1. \A x \in ToSet(feed'), e \in Nat :
             x.event <= e /\ e <= published' => e \in EventsOf(feed')
      <4>1. \A i \in DOMAIN g : g[i].event = published' - Len(g) + i
        BY <1>2, <2>2 DEF SourceOK
      <4>2. QED
        BY <1>1, <2>2, <4>1, ConsecutiveIsComplete
    <3>2. \A e \in Nat : e <= published => e <= published'
      BY <1>1, <1>2
    <3>3. QED
      BY <2>2, <3>1, <3>2 DEF Complete
  <2>8. Tracks(g, s, k)
    BY <1>1, <2>3, <2>4, <2>6, <2>7, TracksLater
  <2>9. /\ \A a, b : CursorOK(a, b) => CursorOK(a, b)'
        /\ \A list : ListingOK(list) => ListingOK(list)'
        /\ \A list, a, b : Tracks(list, a, b) => Tracks(list, a, b)'
    <3>1. blurred.filter => blurred'.filter
      BY <1>3
    <3>2. QED
      BY <1>1, <1>2, <1>3, <3>1, StaysTracked
  <2>10. CursorOK(cursor.seen, noticed)'
    <3>1. CursorOK(s, k)'
      BY <2>4, <2>9
    <3>2. QED
      BY <1>3, <2>2, <3>1 DEF CursorOK
  <2>11. Tracks(feed, cursor.seen, noticed)'
    <3>1. Tracks(g, s, k)'
      BY <2>8, <2>9
    <3>2. QED
      BY <1>3, <2>2, <3>1 DEF Tracks
  <2>12. ASSUME NEW p \in Polls, Answered(p)'
         PROVE  /\ ListingOK(polls[p].reply)' /\ Tracks(polls[p].reply, cursor.seen, noticed)'
                /\ Precedes(polls[p].reply, feed, noticed)'
    <3>1. Answered(p)
      BY <1>3, <2>12 DEF Answered, Waiting
    <3>2. PICK r : r = polls[p].reply
      OBVIOUS
    <3>3. ListingOK(r) /\ Tracks(r, s, k) /\ Precedes(r, f, k)
      BY <2>1, <2>2, <3>1, <3>2
    <3>4. ListingOK(r)' /\ Tracks(r, s, k)' /\ Precedes(r, g, k)
      BY <2>6, <2>9, <3>3
    <3>5. polls'[p].reply = r
      BY <1>3, <3>2
    <3>6. ListingOK(polls[p].reply)'
      BY <3>4, <3>5 DEF ListingOK
    <3>7. Tracks(polls[p].reply, cursor.seen, noticed)'
      BY <1>3, <2>2, <3>4, <3>5 DEF Tracks
    <3>8. Precedes(polls[p].reply, feed, noticed)'
      BY <1>3, <2>2, <3>4, <3>5 DEF Precedes
    <3>9. QED
      BY <3>6, <3>7, <3>8
  <2>13. /\ \A p, q \in Polls : (polls[p] # None)' /\ (polls[q] # None)' => p = q
         /\ \A p \in Polls : (polls[p] # None /\ ~ Storing(p))' => (polls[p].cursor = cursor)'
    BY <1>3, <2>1 DEF Storing
  <2>14. QED
    BY <2>10, <2>11, <2>12, <2>13 DEF NewsInv
<1>5. NewsInv'
  BY <1>3, <1>4 DEF NewsInv
<1>6. QED
  BY <1>2, <1>5

\* A filter that changes is remembered as changed, and a poll takes the stored one.
LEMMA FilterStays ==
    ASSUME IInv, DataInv, FilterIsKnown, [Next]_vars
    PROVE  FilterIsKnown' /\ (blurred.filter => blurred'.filter)
<1>1. /\ polls \in [Polls -> PollRecords \cup {None}]
      /\ blurred \in [polls : BOOLEAN, patches : BOOLEAN, filter : BOOLEAN]
  BY DEF IInv, ConfigTypeOK, DataInv, DataTypeOK
<1>2. ASSUME UNCHANGED config, blurred'.filter = blurred.filter,
             \A q \in Polls : polls'[q] # None =>
                \/ polls'[q].picky = config.picky
                \/ polls[q] # None /\ polls'[q].picky = polls[q].picky
      PROVE  FilterIsKnown' /\ (blurred.filter => blurred'.filter)
  BY <1>2 DEF FilterIsKnown
<1>3. ASSUME UNCHANGED polls, blurred.filter \/ config'.picky # config.picky => blurred'.filter
      PROVE  FilterIsKnown' /\ (blurred.filter => blurred'.filter)
  BY <1>3 DEF FilterIsKnown
<1>4. ASSUME NEW p \in Polls, PollBegins(p)
      PROVE  FilterIsKnown' /\ (blurred.filter => blurred'.filter)
  <2> DEFINE next == [step |-> "asking", picky |-> config.picky, cursor |-> cursor,
                      reply |-> None, fresh |-> {}]
  <2>1. polls' = [polls EXCEPT ![p] = next] /\ UNCHANGED config /\ next.picky = config.picky
    BY <1>4 DEF PollBegins
  <2>2. blurred'.filter = blurred.filter
    BY <1>1, <1>4 DEF PollBegins
  <2> HIDE DEF next
  <2>3. polls'[p] = next /\ \A q \in Polls : q # p => polls'[q] = polls[q]
    BY <1>1, <2>1
  <2>4. QED
    BY <1>2, <2>1, <2>2, <2>3
<1>5. ASSUME NEW p \in Polls, SourceAnswers(p) \/ Fetched(p)
      PROVE  FilterIsKnown' /\ (blurred.filter => blurred'.filter)
  <2>1. UNCHANGED <<config, blurred>> /\ polls[p] # None
    BY <1>5 DEF SourceAnswers, Fetched, FetchedFrom, Waiting
  <2>2. PICK record \in PollRecords : polls[p] = record
    BY <1>1, <2>1
  <2>3. polls'[p].picky = record.picky
    <3>1. CASE SourceAnswers(p)
      BY <1>1, <2>2, <3>1 DEF SourceAnswers, PollRecords
    <3>2. CASE Fetched(p)
      <4>1. PICK d : polls' = [polls EXCEPT ![p].step = "storing", ![p].fresh = d]
        BY <3>2 DEF Fetched, FetchedFrom
      <4>2. QED
        BY <1>1, <2>2, <4>1 DEF PollRecords
    <3>3. QED
      BY <1>5, <3>1, <3>2
  <2>4. \A q \in Polls : q # p => polls'[q] = polls[q]
    BY <1>1, <1>5 DEF SourceAnswers, Fetched, FetchedFrom
  <2>5. QED
    BY <1>2, <2>1, <2>2, <2>3, <2>4
<1>6. ASSUME NEW p \in Polls,
             NotModified(p) \/ FetchFails(p) \/ SchemaDrifts(p) \/ StoreSignals(p)
      PROVE  FilterIsKnown' /\ (blurred.filter => blurred'.filter)
  <2>1. polls' = [polls EXCEPT ![p] = None] /\ UNCHANGED <<config, blurred>>
    BY <1>6 DEF NotModified, FetchFails, SchemaDrifts, StoreSignals
  <2>2. polls'[p] = None /\ \A q \in Polls : q # p => polls'[q] = polls[q]
    BY <1>1, <2>1
  <2>3. QED
    BY <1>2, <2>1, <2>2
<1>7. ASSUME NEW w \in Workers, NEW change \in Changes, PatchReads(w, change)
      PROVE  FilterIsKnown' /\ (blurred.filter => blurred'.filter)
  <2>1. UNCHANGED <<config, polls>> /\ blurred'.filter = blurred.filter
    BY <1>1, <1>7 DEF PatchReads
  <2>2. QED
    BY <1>2, <2>1
<1>8. ASSUME NEW w \in Workers, PatchWrites(w)
      PROVE  FilterIsKnown' /\ (blurred.filter => blurred'.filter)
  <2>1. UNCHANGED polls
    BY <1>8 DEF PatchWrites
  <2>2. blurred'.filter = (blurred.filter \/ config'.picky # config.picky)
    BY <1>1, <1>8 DEF PatchWrites
  <2>3. QED
    BY <1>3, <2>1, <2>2
<1>9. ASSUME NEW enabled \in BOOLEAN, CreateConnector(enabled)
      PROVE  FilterIsKnown' /\ (blurred.filter => blurred'.filter)
  <2>1. UNCHANGED polls /\ config'.picky = FALSE
    BY <1>9 DEF CreateConnector, Created
  <2>2. blurred'.filter = (blurred.filter \/ config.picky)
    BY <1>1, <1>9 DEF CreateConnector
  <2>3. config.picky \in BOOLEAN
    BY DEF IInv, ConfigTypeOK, Configs
  <2>4. QED
    BY <1>3, <2>1, <2>2, <2>3
<1>10. CASE Crash
  <2>1. UNCHANGED <<config, blurred>> /\ \A q \in Polls : polls'[q] = None
    BY <1>10 DEF Crash
  <2>2. QED
    BY <1>2, <2>1
<1>11. CASE UNCHANGED connectorVars
  <2>1. UNCHANGED <<config, blurred, polls>>
    BY <1>11 DEF connectorVars
  <2>2. QED
    BY <1>2, <2>1
<1>12. QED
  BY <1>4, <1>5, <1>6, <1>7, <1>8, <1>9, <1>10, <1>11 DEF Next, vars

\* Every step keeps the invariant.
LEMMA StepRepeats == IInv /\ DataInv /\ DataInv' /\ RepeatInv /\ [Next]_vars => RepeatInv'
<1> SUFFICES ASSUME IInv, DataInv, DataInv', RepeatInv, [Next]_vars PROVE RepeatInv'
  OBVIOUS
<1>1. FilterIsKnown' /\ (blurred.filter => blurred'.filter)
  BY FilterStays DEF RepeatInv
<1>2. SourceOK' /\ NewsInv'
  <2>1. ASSUME UNCHANGED sourceVars PROVE SourceOK'
    BY <2>1 DEF sourceVars, RepeatInv, SourceOK
  <2>2. ASSUME NEW p \in Polls,
               \/ PollBegins(p) \/ SourceAnswers(p) \/ NotModified(p) \/ FetchFails(p)
               \/ SchemaDrifts(p) \/ StoreSignals(p)
        PROVE  SourceOK' /\ NewsInv'
    <3>1. UNCHANGED sourceVars
      BY <2>2 DEF PollBegins, SourceAnswers, NotModified, FetchFails, SchemaDrifts, StoreSignals
    <3>2. QED
      BY <2>1, <2>2, <3>1, PollNews
  <2>3. ASSUME NEW p \in Polls, Fetched(p) PROVE SourceOK' /\ NewsInv'
    <3>1. UNCHANGED sourceVars
      BY <2>3 DEF Fetched, FetchedFrom
    <3>2. QED
      BY <2>1, <2>3, <3>1, FetchedNews
  <2>4. ASSUME UNCHANGED <<sourceVars, adapterVars, noticed, cursor>>,
               \/ UNCHANGED polls
               \/ polls' = [p \in Polls |-> None],
               blurred'.polls = blurred.polls
        PROVE  SourceOK' /\ NewsInv'
    <3>1. ~ blurred.polls =>
             \A p, q \in Polls : polls[p] # None /\ polls[q] # None => p = q
      BY DEF RepeatInv, NewsInv
    <3>2. \A q \in Polls : polls'[q] = None \/ polls'[q] = polls[q]
      BY <2>4
    <3>3. ~ blurred'.polls =>
             \A p, q \in Polls : polls'[p] # None /\ polls'[q] # None => p = q
      BY <2>4, <3>1, <3>2
    <3>4. UNCHANGED <<sourceVars, adapterVars, noticed>> /\ cursor' = cursor
      BY <2>4
    <3>5. NewsInv'
      BY <1>1, <2>4, <3>2, <3>3, <3>4, QuietNews
    <3>6. QED
      BY <2>1, <2>4, <3>5
  <2>5. blurred \in [polls : BOOLEAN, patches : BOOLEAN, filter : BOOLEAN]
    BY DEF IInv, ConfigTypeOK
  <2>6. ASSUME NEW w \in Workers, NEW change \in Changes, PatchReads(w, change)
        PROVE  SourceOK' /\ NewsInv'
    BY <2>4, <2>5, <2>6 DEF PatchReads
  <2>7. ASSUME NEW w \in Workers, PatchWrites(w) PROVE SourceOK' /\ NewsInv'
    BY <2>4, <2>5, <2>7 DEF PatchWrites
  <2>8. ASSUME NEW enabled \in BOOLEAN, CreateConnector(enabled) PROVE SourceOK' /\ NewsInv'
    BY <2>4, <2>5, <2>8 DEF CreateConnector
  <2>9. CASE Crash
    BY <2>4, <2>9 DEF Crash
  <2>10. CASE UNCHANGED connectorVars /\ (Publish \/ \E k \in DOMAIN feed : Revise(k))
    BY <2>10, SourceKeepsNews DEF DataInv
  <2>11. CASE UNCHANGED vars
    BY <2>4, <2>11 DEF vars, connectorVars
  <2>12. QED
    BY <2>2, <2>3, <2>6, <2>7, <2>8, <2>9, <2>10, <2>11 DEF Next
<1>3. QED
  BY <1>1, <1>2 DEF RepeatInv

\* Only a comparison makes a poll store.
LEMMA StepIsNews ==
    IInv /\ DataInv /\ RepeatInv /\ [Next]_vars =>
        \A p \in Polls :
           /\ Storing(p)' /\ ~ Storing(p) /\ ~ blurred.polls
           /\ newestFirst \/ FeedLength > Bound \/ blurred.filter => published <= Bound
           => polls[p]'.fresh \cap noticed = {}
<1> SUFFICES ASSUME IInv, DataInv, RepeatInv, [Next]_vars, NEW p \in Polls,
                    Storing(p)', ~ Storing(p), ~ blurred.polls,
                    newestFirst \/ FeedLength > Bound \/ blurred.filter => published <= Bound
             PROVE  polls[p]'.fresh \cap noticed = {}
  OBVIOUS
<1>1. polls \in [Polls -> PollRecords \cup {None}]
  BY DEF DataInv, DataTypeOK
<1>2. polls'[p] # None /\ polls'[p].step = "storing" /\ polls'[p] # polls[p]
  BY DEF Storing
<1>3. Full
  BY DeltaAssumption DEF Full, Ordered
<1>4. ASSUME NEW q \in Polls,
             \/ PollBegins(q) \/ NotModified(q) \/ FetchFails(q) \/ SchemaDrifts(q)
             \/ StoreSignals(q)
      PROVE  FALSE
  <2> DEFINE next == [step |-> "asking", picky |-> config.picky, cursor |-> cursor,
                      reply |-> None, fresh |-> {}]
  <2>1. polls' = [polls EXCEPT ![q] = None] \/ polls' = [polls EXCEPT ![q] = next]
    BY <1>4 DEF PollBegins, NotModified, FetchFails, SchemaDrifts, StoreSignals
  <2>2. next.step = "asking"
    OBVIOUS
  <2> HIDE DEF next
  <2>3. polls'[p] = polls[p] \/ polls'[p] = None \/ polls'[p] = next
    BY <1>1, <2>1
  <2>4. QED
    BY <1>2, <2>2, <2>3
<1>5. ASSUME NEW q \in Polls, SourceAnswers(q) PROVE FALSE
  <2>1. polls[q] # None
    BY <1>5 DEF SourceAnswers, Waiting
  <2>2. PICK record \in PollRecords : polls[q] = record
    BY <1>1, <2>1
  <2>3. PICK step \in {"unmodified", "answered"} :
           polls' = [polls EXCEPT ![q].step = step, ![q].reply = Listing]
    BY <1>5 DEF SourceAnswers
  <2>4. polls'[q].step = step /\ \A r \in Polls : r # q => polls'[r] = polls[r]
    BY <1>1, <2>2, <2>3 DEF PollRecords
  <2>5. QED
    BY <1>2, <2>4
<1>6. ASSUME NEW q \in Polls, Fetched(q) PROVE polls[p]'.fresh \cap noticed = {}
  <2>1. /\ p = q
        /\ polls'[q].fresh \cap noticed = {}
    BY <1>3, <1>6, FetchedNews
  <2>2. QED
    BY <2>1
<1>7. ASSUME NEW w \in Workers,
             PatchWrites(w) \/ \E change \in Changes : PatchReads(w, change)
      PROVE  FALSE
  BY <1>2, <1>7 DEF PatchWrites, PatchReads
<1>8. CASE \E enabled \in BOOLEAN : CreateConnector(enabled)
  BY <1>2, <1>8 DEF CreateConnector
<1>9. CASE Crash
  BY <1>2, <1>9 DEF Crash
<1>10. CASE UNCHANGED connectorVars
  BY <1>2, <1>10 DEF connectorVars
<1>11. QED
  BY <1>4, <1>5, <1>6, <1>7, <1>8, <1>9, <1>10 DEF Next, vars

\* While polls do not overlap, what a poll finds new or updated none before it did: for
\* any adapter, interleaving with the source and crash, as long as the source lists its
\* oldest event first, no more than the cursor keeps, and the filter stays off, or no more
\* was published than the cursor keeps (apply_delta and its bound).
THEOREM NewsIsNew == Spec => NothingRepeated
<1>1. IInv /\ DataInv /\ RepeatInv /\ [Next]_vars =>
        [\A p \in Polls :
            /\ Storing(p)' /\ ~ Storing(p) /\ ~ blurred.polls
            /\ newestFirst \/ FeedLength > Bound \/ blurred.filter => published <= Bound
            => polls[p]'.fresh \cap noticed = {}]_vars
  BY StepIsNews
<1>2. QED
  BY <1>1, InitIInv, StepIInv, InitData, StepData, InitRepeats, StepRepeats, PTL
     DEF Spec, NothingRepeated
=============================================================================
