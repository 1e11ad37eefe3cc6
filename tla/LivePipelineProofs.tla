-------------------------- MODULE LivePipelineProofs --------------------------
(***************************************************************************)
(* The safety of the live pipeline for any number of connectors, events,   *)
(* packs, polls, handlers, exceptions and crashes.                         *)
(*                                                                         *)
(* First the stored hypotheses: types, audit trails, attached signals and  *)
(* the evidence behind a state.  A record is written whole from a copy     *)
(* taken earlier, so the invariant speaks of the copies in flight as well: *)
(* a copy was sound when taken, and nothing that happens to the store      *)
(* later makes it unsound, because the set of stored signals only grows.   *)
(*                                                                         *)
(* Then the signals: what a cursor has seen is kept, and as long as the    *)
(* polls of a connector do not overlap, nothing is announced twice.        *)
(*                                                                         *)
(* Last, what a lock around every read-modify-write would give: a copy in  *)
(* flight then always grew out of the record it replaces, so trails and    *)
(* signals only grow, a confirmation stays, and the records implement      *)
(* HypothesisLifecycle.                                                    *)
(***************************************************************************)
EXTENDS LivePipeline, FiniteSetTheorems, SequenceTheorems, TLAPS

USE DEF outcome

SoundRecord(id, hyp) ==
    /\ hyp \in Hypotheses
    /\ Explains(hyp.audit, hyp.state)
    /\ \A s \in hyp.signals : s \in signals /\ s.event \in Matching[id[1]]
    /\ hyp.state # Unconfirmed => Supported(hyp.signals)

RecordsSound ==
    \A id \in HypothesisIds : Stored(id) => SoundRecord(id, hyps[id])

PollsSound ==
    \A p \in Polls :
        /\ poll[p].fresh \subseteq signals
        /\ poll[p].pc \in {"compiling", "writing", "analysing", "merging"} =>
              poll[p].stream \in Packs
        /\ poll[p].pc \in {"writing", "analysing", "merging"} =>
              poll[p].id \in HypothesisIds
        /\ poll[p].pc \in {"writing", "merging"} =>
              SoundRecord(poll[p].id, poll[p].copy)
        /\ poll[p].pc = "analysing" => Stored(poll[p].id)

HandlersSound ==
    \A w \in Handlers : handler[w].pc = "writing" =>
        handler[w].id \in HypothesisIds /\ SoundRecord(handler[w].id, handler[w].copy)

\* The inductive invariant.
IInv == TypeOK /\ RecordsSound /\ PollsSound /\ HandlersSound
-------------------------------------------------------------------------------
\* A transition that the tables permit keeps a record well-formed and its audit
\* trail an explanation of its state (state.py transition).
LEMMA TransitionExplained ==
    ASSUME NEW hyp \in Hypotheses, Explains(hyp.audit, hyp.state),
           NEW to \in STATES, NEW actor \in Users \cup {System},
           CanTransition(hyp, to, actor)
    PROVE  LET moved == Transition(hyp, to, actor)
           IN  /\ moved \in Hypotheses
               /\ Explains(moved.audit, moved.state)
               /\ moved.signals = hyp.signals
               /\ moved.state = to
<1>1. CASE hyp.state = to
  BY <1>1 DEF Transition
<1>2. CASE hyp.state # to
  <2> DEFINE entry == [from |-> hyp.state, to |-> to, actor |-> actor]
             moved == [hyp EXCEPT !.state = to, !.audit = Append(@, entry)]
             Entries == [from : STATES, to : STATES, actor : Users \cup {System}]
  <2>1. /\ hyp.audit \in Seq(Entries) /\ entry \in Entries
        /\ hyp.state \in STATES
    BY DEF Hypotheses
  <2>2. /\ Append(hyp.audit, entry) \in Seq(Entries)
        /\ Len(Append(hyp.audit, entry)) = Len(hyp.audit) + 1
        /\ \A k \in 1 .. Len(hyp.audit) : Append(hyp.audit, entry)[k] = hyp.audit[k]
        /\ Append(hyp.audit, entry)[Len(hyp.audit) + 1] = entry
        /\ Len(hyp.audit) \in Nat
    BY <2>1, AppendProperties, LenProperties
  <2>3. moved \in Hypotheses
    BY <2>1, <2>2 DEF Hypotheses
  <2>4. Permitted(hyp.state, to, actor)
    BY <1>2 DEF CanTransition
  <2>5. /\ <<hyp.state, to>> \in AUTO_TRANSITIONS \cup HUMAN_TRANSITIONS
        /\ to = Confirmed => actor # System
    BY <2>4 DEF Permitted, AUTO_TRANSITIONS, HUMAN_TRANSITIONS, Unconfirmed, Observed,
                Corroborated, Relevant, Contested, Resolved, Confirmed
  <2>6. /\ moved.audit = Append(hyp.audit, entry) /\ moved.state = to
        /\ moved.signals = hyp.signals
    BY DEF Hypotheses
  <2>7. hyp.state = IF Len(hyp.audit) = 0 THEN Unconfirmed
                    ELSE hyp.audit[Len(hyp.audit)].to
    BY <2>1, EmptySeq DEF Explains
  <2>8. Explains(moved.audit, moved.state)
    <3>1. ASSUME NEW k \in 1 .. Len(moved.audit)
          PROVE  /\ <<moved.audit[k].from, moved.audit[k].to>>
                        \in AUTO_TRANSITIONS \cup HUMAN_TRANSITIONS
                 /\ moved.audit[k].to = Confirmed => moved.audit[k].actor # System
                 /\ moved.audit[k].from = IF k = 1 THEN Unconfirmed
                                          ELSE moved.audit[k - 1].to
      <4>1. CASE k \in 1 .. Len(hyp.audit)
        BY <4>1, <2>2, <2>6 DEF Explains
      <4>2. CASE k = Len(hyp.audit) + 1
        BY <4>2, <2>2, <2>5, <2>6, <2>7
      <4>3. QED
        BY <4>1, <4>2, <2>2, <2>6
    <3>2. moved.audit # << >>
      <4>1. Len(moved.audit) # 0
        BY <2>2, <2>6
      <4>2. QED
        BY <4>1, EmptySeq
    <3>3. moved.state = moved.audit[Len(moved.audit)].to
      <4>1. moved.audit[Len(moved.audit)] = entry
        BY <2>2, <2>6
      <4>2. QED
        BY <4>1, <2>6
    <3> HIDE DEF moved
    <3>4. QED
      BY <3>1, <3>2, <3>3 DEF Explains
  <2>9. QED
    BY <1>2, <2>3, <2>6, <2>8 DEF Transition
<1>3. QED
  BY <1>1, <1>2

\* A quorum target other than UNCONFIRMED rests on a strong source or on two
\* independent groups (quorum.py compute_quorum, without contradictions).
LEMMA QuorumIsSupported ==
    ASSUME NEW ids, ids # {},
           QuorumTarget(Evidence(ids), TRUE, FALSE) # Unconfirmed
    PROVE  Supported(ids)
<1> DEFINE groups == {e.group : e \in Evidence(ids)}
<1>1. Cardinality(groups) >= 2 \/ \E e \in Evidence(ids) : e.strength = "strong"
  BY DEF QuorumTarget, Contested, Relevant, Corroborated, Observed
<1>2. CASE \E e \in Evidence(ids) : e.strength = "strong"
  BY <1>2 DEF Evidence, Supported
<1>3. CASE Cardinality(groups) >= 2
  <2>1. SUFFICES ASSUME \A s, t \in ids : Group[Source[s.event]] = Group[Source[t.event]]
                 PROVE  FALSE
    BY DEF Supported
  <2>2. PICK s \in ids : TRUE
    OBVIOUS
  <2>3. groups = {Group[Source[t.event]] : t \in ids}
    <3>1. ASSUME NEW e \in Evidence(ids)
          PROVE  \E t \in ids : e.group = Group[Source[t.event]]
      BY DEF Evidence
    <3>2. ASSUME NEW t \in ids
          PROVE  \E e \in Evidence(ids) : e.group = Group[Source[t.event]]
      <4> DEFINE e == [group    |-> Group[Source[t.event]],
                       strength |-> Strength[Source[t.event]]]
      <4>1. e \in Evidence(ids) /\ e.group = Group[Source[t.event]]
        BY DEF Evidence
      <4>2. QED
        BY <4>1
    <3>3. QED
      BY <3>1, <3>2
  <2>31. groups = {Group[Source[s.event]]}
    BY <2>1, <2>2, <2>3
  <2>4. Cardinality(groups) = 1
    BY <2>31, FS_Singleton
  <2>5. QED
    BY <2>4, <1>3
<1>4. QED
  BY <1>1, <1>2, <1>3

\* The target of a quorum is a state.
LEMMA QuorumIsAState ==
    ASSUME NEW evidence PROVE QuorumTarget(evidence, TRUE, FALSE) \in STATES
BY DEF QuorumTarget, STATES

\* What the compiler makes of a sound record is sound (live_service.py _compile):
\* support never goes away because attaching only adds signals.
LEMMA CompiledSound ==
    ASSUME NEW id \in HypothesisIds, NEW hyp, SoundRecord(id, hyp),
           NEW matched \in SUBSET SignalIds, matched # {}, matched \subseteq signals,
           \A s \in matched : s.event \in Matching[id[1]]
    PROVE  SoundRecord(id, Compiled(hyp, matched))
<1> DEFINE attached == hyp.signals \cup matched
           grown    == [hyp EXCEPT !.signals = attached]
           target   == QuorumTarget(Evidence(attached), TRUE, FALSE)
<1>1. /\ grown \in Hypotheses /\ grown.audit = hyp.audit /\ grown.state = hyp.state
      /\ grown.signals = attached
  BY DEF SoundRecord, Hypotheses
<1>2. Explains(grown.audit, grown.state)
  BY <1>1 DEF SoundRecord
<1>3. \A s \in attached : s \in signals /\ s.event \in Matching[id[1]]
  BY DEF SoundRecord
<1>4. Supported(hyp.signals) => Supported(attached)
  BY DEF Supported
<1>5. target # Unconfirmed => Supported(attached)
  BY QuorumIsSupported
<1>6. target \in STATES
  BY QuorumIsAState
<1>7. Compiled(hyp, matched) = IF CanTransition(grown, target, System)
                               THEN Transition(grown, target, System) ELSE grown
  <2>1. QuorumTarget(Evidence(attached), attached # {}, FALSE) = target
    <3>1. attached # {}
      OBVIOUS
    <3>2. QED
      BY <3>1 DEF QuorumTarget
  <2>2. QED
    BY <2>1 DEF Compiled
<1>8. CASE CanTransition(grown, target, System)
  <2> DEFINE moved == Transition(grown, target, System)
  <2>1. /\ moved \in Hypotheses /\ Explains(moved.audit, moved.state)
        /\ moved.signals = grown.signals /\ moved.state = target
    <3>1. System \in Users \cup {System}
      OBVIOUS
    <3> HIDE DEF grown, target
    <3>2. QED
      BY <1>1, <1>2, <1>6, <1>8, <3>1, TransitionExplained
  <2>2. QED
    BY <2>1, <1>1, <1>3, <1>5, <1>7, <1>8 DEF SoundRecord
<1>9. CASE ~ CanTransition(grown, target, System)
  BY <1>1, <1>2, <1>3, <1>4, <1>7, <1>9 DEF SoundRecord
<1>10. QED
  BY <1>8, <1>9

-------------------------------------------------------------------------------
\* A sound record stays sound while the store of signals only grows.
LEMMA SoundMonotone ==
    ASSUME NEW CONSTANT id, NEW CONSTANT hyp, SoundRecord(id, hyp),
           signals \subseteq signals'
    PROVE  SoundRecord(id, hyp)'
BY DEF SoundRecord, Supported

\* An idle coroutine and an idle worker are well-typed, with nothing in flight.
LEMMA IdleOK ==
    /\ IdlePoll \in PollRecords /\ IdlePoll.pc = "idle" /\ IdlePoll.fresh = {}
    /\ IdleHandler \in HandlerRecords /\ IdleHandler.pc = "idle"
    /\ NewCursor \in Cursors
<1> USE PipelineAssumption
<1>1. NewCursor \in Cursors
  BY DEF NewCursor, Nothing, Cursors, Listing
<1>2. QED
  BY <1>1 DEF IdlePoll, PollRecords, IdleHandler, HandlerRecords

\* What a poll has in hand are signals.
LEMMA InHandOK ==
    ASSUME TypeOK, NEW p \in Polls PROVE InHand(p) \in SUBSET SignalIds
BY DEF TypeOK, PollRecords, InHand

\* Nothing in flight, nothing stored: the invariant holds initially.
LEMMA InitIInv == Init => IInv
<1> SUFFICES ASSUME Init PROVE IInv
  OBVIOUS
<1>1. TypeOK
  BY IdleOK, PipelineAssumption DEF Init, TypeOK
<1>2. RecordsSound /\ PollsSound /\ HandlersSound
  BY IdleOK DEF Init, RecordsSound, PollsSound, HandlersSound, Stored
<1>3. QED
  BY <1>1, <1>2 DEF IInv

\* The steps that touch only what one coroutine is doing: it becomes `next`, and
\* no document changes.
LEMMA PollMoves ==
    ASSUME IInv, NEW p \in Polls, NEW CONSTANT next \in PollRecords,
           poll' = [poll EXCEPT ![p] = next],
           UNCHANGED <<signals, announced, hyps, handler, feed, now>>,
           supervised' \in SUBSET Packs, dropped' \in SUBSET SignalIds,
           faults' \in 0 .. MaxFaults,
           cursor' \in [Connectors -> Cursors],
           next.fresh \subseteq signals,
           next.pc \in {"compiling", "writing", "analysing", "merging"} =>
              next.stream \in Packs,
           next.pc \in {"writing", "analysing", "merging"} => next.id \in HypothesisIds,
           next.pc \in {"writing", "merging"} => SoundRecord(next.id, next.copy),
           next.pc = "analysing" => Stored(next.id)
    PROVE  IInv'
<1>1. TypeOK'
  BY DEF IInv, TypeOK
<1>2. RecordsSound'
  BY SoundMonotone DEF IInv, RecordsSound, Stored, SoundRecord, Supported
<1>3. HandlersSound'
  BY DEF IInv, HandlersSound, SoundRecord, Supported
<1>4. PollsSound'
  <2> SUFFICES ASSUME NEW q \in Polls
               PROVE  /\ poll'[q].fresh \subseteq signals
                      /\ poll'[q].pc \in {"compiling", "writing", "analysing", "merging"} =>
                            poll'[q].stream \in Packs
                      /\ poll'[q].pc \in {"writing", "analysing", "merging"} =>
                            poll'[q].id \in HypothesisIds
                      /\ poll'[q].pc \in {"writing", "merging"} =>
                            SoundRecord(poll'[q].id, poll'[q].copy)
                      /\ poll'[q].pc = "analysing" => Stored(poll'[q].id)
    BY DEF PollsSound, SoundRecord, Supported, Stored
  <2>1. CASE q = p
    BY <2>1 DEF IInv, TypeOK
  <2>2. CASE q # p
    BY <2>2 DEF IInv, TypeOK, PollsSound
  <2>3. QED
    BY <2>1, <2>2
<1>5. QED
  BY <1>1, <1>2, <1>3, <1>4 DEF IInv

\* A put of a sound copy keeps every stored record sound and stored.
LEMMA RecordWritten ==
    ASSUME IInv, NEW CONSTANT id \in HypothesisIds, NEW CONSTANT copy,
           SoundRecord(id, copy), hyps' = [hyps EXCEPT ![id] = copy],
           UNCHANGED signals
    PROVE  /\ hyps' \in [HypothesisIds -> Hypotheses \cup {NoHypothesis}]
           /\ RecordsSound'
           /\ \A other \in HypothesisIds : Stored(other) => Stored(other)'
<1>1. copy \in Hypotheses /\ copy # NoHypothesis
  BY NoHypothesisAssumption DEF SoundRecord
<1>2. hyps \in [HypothesisIds -> Hypotheses \cup {NoHypothesis}]
  BY DEF IInv, TypeOK
<1>3. ASSUME NEW other \in HypothesisIds, Stored(other)'
      PROVE  SoundRecord(other, hyps[other])'
  <2>1. CASE other = id
    <3>1. hyps'[other] = copy
      BY <1>2, <2>1
    <3>2. QED
      BY <3>1, <2>1 DEF SoundRecord, Supported
  <2>2. CASE other # id
    <3>1. hyps'[other] = hyps[other]
      BY <1>2, <2>2
    <3>2. SoundRecord(other, hyps[other])
      BY <1>3, <3>1 DEF Stored, IInv, RecordsSound
    <3>3. QED
      BY <3>1, <3>2 DEF SoundRecord, Supported
  <2>3. QED
    BY <2>1, <2>2
<1>4. QED
  BY <1>1, <1>2, <1>3 DEF RecordsSound, Stored

\* A poll that puts its copy and becomes `next`.
LEMMA PollWrites ==
    ASSUME IInv, NEW p \in Polls, poll[p].pc \in {"writing", "merging"},
           hyps' = [hyps EXCEPT ![poll[p].id] = poll[p].copy],
           NEW CONSTANT next \in PollRecords, poll' = [poll EXCEPT ![p] = next],
           next = IdlePoll \/ /\ next.pc = "analysing"
                              /\ next.fresh = poll[p].fresh
                              /\ next.stream = poll[p].stream
                              /\ next.id = poll[p].id,
           UNCHANGED <<feed, cursor, signals, announced, handler, now, outcome>>
    PROVE  IInv'
<1>1. /\ poll[p].id \in HypothesisIds /\ poll[p].stream \in Packs
      /\ SoundRecord(poll[p].id, poll[p].copy) /\ poll[p].fresh \subseteq signals
  BY DEF IInv, PollsSound
<1>2. /\ hyps' \in [HypothesisIds -> Hypotheses \cup {NoHypothesis}]
      /\ RecordsSound'
      /\ \A other \in HypothesisIds : Stored(other) => Stored(other)'
  BY <1>1, RecordWritten
<1>3. hyps'[poll[p].id] # NoHypothesis
  BY <1>1, NoHypothesisAssumption DEF IInv, TypeOK, Stored, SoundRecord
<1>4. TypeOK'
  BY <1>2 DEF IInv, TypeOK
<1>5. HandlersSound'
  BY DEF IInv, HandlersSound, SoundRecord, Supported
<1>6. PollsSound'
  <2> SUFFICES ASSUME NEW q \in Polls
               PROVE  /\ poll'[q].fresh \subseteq signals
                      /\ poll'[q].pc \in {"compiling", "writing", "analysing", "merging"} =>
                            poll'[q].stream \in Packs
                      /\ poll'[q].pc \in {"writing", "analysing", "merging"} =>
                            poll'[q].id \in HypothesisIds
                      /\ poll'[q].pc \in {"writing", "merging"} =>
                            SoundRecord(poll'[q].id, poll'[q].copy)
                      /\ poll'[q].pc = "analysing" => hyps'[poll'[q].id] # NoHypothesis
    BY DEF PollsSound, SoundRecord, Supported, Stored
  <2>1. CASE q = p
    BY <2>1, <1>1, <1>3, IdleOK DEF IInv, TypeOK
  <2>2. CASE q # p
    BY <2>2, <1>2 DEF IInv, TypeOK, PollsSound, Stored
  <2>3. QED
    BY <2>1, <2>2
<1>7. QED
  BY <1>2, <1>4, <1>5, <1>6 DEF IInv

\* A step that changes only the feeds, the clock or what a worker holds.
LEMMA HandlerMoves ==
    ASSUME IInv, UNCHANGED <<signals, announced, hyps, poll, cursor>>,
           feed' \in [Events -> 0 .. MaxVersion], now' \in 0 .. MaxTime,
           supervised' \in SUBSET Packs, UNCHANGED <<dropped, faults>>,
           handler' \in [Handlers -> HandlerRecords],
           \A w \in Handlers : handler'[w].pc = "writing" =>
              /\ handler'[w].id \in HypothesisIds
              /\ SoundRecord(handler'[w].id, handler'[w].copy)
    PROVE  IInv'
<1>1. TypeOK'
  BY DEF IInv, TypeOK
<1>2. RecordsSound' /\ PollsSound'
  BY DEF IInv, RecordsSound, PollsSound, Stored, SoundRecord, Supported
<1>3. HandlersSound'
  BY DEF HandlersSound, SoundRecord, Supported
<1>4. QED
  BY <1>1, <1>2, <1>3 DEF IInv

\* The invariant survives every step of a coroutine.
LEMMA PollStepIInv == ASSUME IInv, NEW p \in Polls, PollStep(p) PROVE IInv'
<1> USE DEF vars
<1>1. /\ poll \in [Polls -> PollRecords] /\ poll[p] \in PollRecords
      /\ cursor \in [Connectors -> Cursors]
      /\ poll[p].fresh \subseteq signals
      /\ supervised \in SUBSET Packs /\ dropped \in SUBSET SignalIds
      /\ faults \in 0 .. MaxFaults
  BY DEF IInv, TypeOK, PollsSound
<1>2. CASE FetchFails(p)
  BY <1>1, <1>2, IdleOK, PollMoves DEF FetchFails, EndPoll
<1>3. CASE NotModified(p)
  <2>1. cursor' \in [Connectors -> Cursors]
    BY <1>1, <1>3 DEF NotModified, PollRecords
  <2>2. QED
    BY <1>1, <1>3, <2>1, IdleOK, PollMoves DEF NotModified, EndPoll
<1>4. CASE Fetched(p)
  <2> DEFINE c == poll[p].connector
             next == [poll[p] EXCEPT !.pc = "storing", !.base = NewCursor, !.at = now,
                         !.todo = Fresh(Response(c), poll[p].base.seen)]
  <2>1. Response(c) \in Listing /\ Seen(Response(c), poll[p].base.seen) \in Listing
    BY <1>1, PipelineAssumption
       DEF IInv, TypeOK, Response, Seen, Listing, PollRecords, Cursors
  <2>2. cursor' \in [Connectors -> Cursors]
    BY <1>1, <1>4, <2>1 DEF Fetched, Cursors
  <2>3. next \in PollRecords
    BY <1>1, IdleOK DEF IInv, TypeOK, PollRecords, Fresh, OnLoop
  <2>4. poll' = [poll EXCEPT ![p] = next]
    BY <1>1, <1>4 DEF Fetched, PollRecords
  <2>5. next.pc = "storing" /\ next.fresh = poll[p].fresh
    BY <1>1 DEF PollRecords
  <2> HIDE DEF next
  <2>6. QED
    BY <1>1, <1>4, <2>2, <2>3, <2>4, <2>5, PollMoves DEF Fetched
<1>5. ASSUME NEW s \in SignalIds, StoreSignal(p, s) PROVE IInv'
  <2>1. signals \subseteq signals' /\ signals' \subseteq SignalIds /\ s \in signals'
    BY <1>5 DEF StoreSignal, IInv, TypeOK
  <2>2. TypeOK'
    <3>1. announced' \in [SignalIds -> 0 .. 2]
      BY <1>5 DEF StoreSignal, IInv, TypeOK
    <3>2. poll' \in [Polls -> PollRecords]
      BY <1>1, <1>5 DEF StoreSignal, PollRecords
    <3>3. QED
      BY <1>5, <2>1, <3>1, <3>2 DEF StoreSignal, IInv, TypeOK
  <2>3. RecordsSound'
    BY <1>5, <2>1, SoundMonotone DEF StoreSignal, IInv, RecordsSound, Stored
  <2>4. HandlersSound'
    <3>1. ASSUME NEW w \in Handlers, handler'[w].pc = "writing"
          PROVE  handler'[w].id \in HypothesisIds
                 /\ SoundRecord(handler[w].id, handler[w].copy)'
      <4>1. handler'[w].id \in HypothesisIds
            /\ SoundRecord(handler[w].id, handler[w].copy)
        BY <1>5, <3>1 DEF StoreSignal, IInv, HandlersSound
      <4>2. handler' = handler
        BY <1>5 DEF StoreSignal
      <4>3. QED
        BY <4>1, <4>2, <2>1 DEF SoundRecord, Supported
    <3>2. QED
      BY <3>1 DEF HandlersSound
  <2>5. PollsSound'
    <3> SUFFICES ASSUME NEW q \in Polls
                 PROVE  /\ poll'[q].fresh \subseteq signals'
                        /\ poll'[q].pc \in {"compiling", "writing", "analysing", "merging"} =>
                              poll'[q].stream \in Packs
                        /\ poll'[q].pc \in {"writing", "analysing", "merging"} =>
                              poll'[q].id \in HypothesisIds
                        /\ poll'[q].pc \in {"writing", "merging"} =>
                              SoundRecord(poll[q].id, poll[q].copy)'
                        /\ poll'[q].pc = "analysing" => hyps'[poll'[q].id] # NoHypothesis
      BY DEF PollsSound, Stored
    <3>1. CASE q = p
      BY <1>1, <1>5, <2>1, <3>1 DEF StoreSignal, PollRecords
    <3>2. CASE q # p
      <4>1. poll'[q] = poll[q]
        BY <1>1, <1>5, <3>2 DEF StoreSignal
      <4>2. poll[q].pc \in {"writing", "merging"} => SoundRecord(poll[q].id, poll[q].copy)
        BY DEF IInv, PollsSound
      <4>3. poll'[q].pc \in {"writing", "merging"} => SoundRecord(poll[q].id, poll[q].copy)'
        BY <4>1, <4>2, <2>1 DEF SoundRecord, Supported
      <4>4. QED
        BY <1>5, <2>1, <4>1, <4>3 DEF StoreSignal, IInv, PollsSound, Stored
    <3>3. QED
      BY <3>1, <3>2
  <2>6. QED
    BY <2>2, <2>3, <2>4, <2>5 DEF IInv
<1>6. CASE SignalsStored(p)
  <2>1. CASE poll[p].stream # Global /\ poll[p].fresh # {}
    <3> DEFINE next == [poll[p] EXCEPT !.pc = "compiling"]
    <3>1. /\ next \in PollRecords /\ next.pc = "compiling" /\ next.stream \in Packs
          /\ next.fresh = poll[p].fresh
      BY <1>1, <2>1 DEF PollRecords, OnLoop
    <3>2. poll' = [poll EXCEPT ![p] = next]
      BY <1>1, <1>6, <2>1 DEF SignalsStored
    <3> HIDE DEF next
    <3>3. QED
      BY <1>1, <1>6, <3>1, <3>2, PollMoves DEF SignalsStored
  <2>2. CASE ~ (poll[p].stream # Global /\ poll[p].fresh # {})
    BY <1>1, <1>6, <2>2, IdleOK, PollMoves DEF SignalsStored, EndPoll
  <2>3. QED
    BY <2>1, <2>2
<1>7. CASE CompileNothing(p)
  BY <1>1, <1>7, IdleOK, PollMoves DEF CompileNothing, EndPoll
<1>8. ASSUME NEW id \in HypothesisIds, NEW hyp, SoundRecord(id, hyp),
             id[1] = poll[p].stream, poll[p].pc = "compiling", Matched(p) # {},
             CompileInto(p, id, hyp)
      PROVE  IInv'
  <2> DEFINE compiled == Compiled(hyp, Matched(p))
             next == [poll[p] EXCEPT !.pc = "writing", !.id = id, !.copy = compiled]
  <2>1. poll[p].stream \in Packs
    BY <1>8 DEF IInv, PollsSound
  <2>2. /\ Matched(p) \in SUBSET SignalIds /\ Matched(p) \subseteq signals
        /\ \A s \in Matched(p) : s.event \in Matching[id[1]]
    BY <1>1, <1>8 DEF Matched, PollRecords
  <2>3. SoundRecord(id, compiled)
    BY <1>8, <2>2, CompiledSound
  <2>4. compiled \in Hypotheses
    BY <2>3 DEF SoundRecord
  <2> HIDE DEF compiled
  <2>5. /\ next \in PollRecords /\ next.pc = "writing" /\ next.stream = poll[p].stream
        /\ next.fresh = poll[p].fresh /\ next.id = id /\ next.copy = compiled
    BY <1>1, <2>4 DEF PollRecords, OnLoop
  <2>6. poll' = [poll EXCEPT ![p] = next]
    BY <1>1, <1>8 DEF CompileInto, PollRecords, compiled
  <2> HIDE DEF next
  <2>7. QED
    BY <1>1, <1>8, <2>1, <2>3, <2>5, <2>6, PollMoves DEF CompileInto
<1>9. ASSUME NEW id \in HypothesisIds, CompileOpen(p, id) PROVE IInv'
  <2>1. Stored(id) /\ id[1] = poll[p].stream
    BY <1>9 DEF CompileOpen, NewestOpen, Open
  <2>2. SoundRecord(id, hyps[id])
    BY <2>1 DEF IInv, RecordsSound
  <2>3. QED
    BY <1>8, <1>9, <2>1, <2>2 DEF CompileOpen
<1>10. CASE CompileNew(p)
  <2> DEFINE id == <<poll[p].stream, poll[p].at>>
  <2>1. id \in HypothesisIds /\ id[1] = poll[p].stream
    BY <1>1, <1>10 DEF CompileNew, IInv, PollsSound, HypothesisIds, PollRecords
  <2>2. SoundRecord(id, NewHypothesis)
    <3>1. NewHypothesis \in Hypotheses
      BY EmptySeq DEF NewHypothesis, Hypotheses, STATES
    <3>2. Explains(<< >>, Unconfirmed)
      BY EmptySeq DEF Explains
    <3>3. QED
      BY <3>1, <3>2 DEF SoundRecord, NewHypothesis
  <2>3. QED
    BY <1>8, <1>10, <2>1, <2>2 DEF CompileNew
<1>11. CASE WriteHypothesis(p)
  <2>1. CASE EndPoll(p)
    BY <1>11, <2>1, IdleOK, PollWrites DEF WriteHypothesis, EndPoll
  <2>2. CASE poll' = [poll EXCEPT ![p].pc = "analysing", ![p].copy = NoHypothesis]
    <3> DEFINE next == [poll[p] EXCEPT !.pc = "analysing", !.copy = NoHypothesis]
    <3>1. /\ next \in PollRecords /\ next.pc = "analysing" /\ next.stream = poll[p].stream
          /\ next.fresh = poll[p].fresh /\ next.id = poll[p].id
      BY <1>1 DEF PollRecords, OnLoop
    <3>2. poll' = [poll EXCEPT ![p] = next]
      BY <1>1, <2>2 DEF PollRecords
    <3> HIDE DEF next
    <3>3. QED
      BY <1>11, <3>1, <3>2, PollWrites DEF WriteHypothesis
  <2>3. QED
    BY <1>11, <2>1, <2>2 DEF WriteHypothesis
<1>12. CASE AnalysisRead(p)
  <2> DEFINE id == poll[p].id
             copy == [hyps[id] EXCEPT !.analysed = TRUE]
             next == [poll[p] EXCEPT !.pc = "merging", !.copy = copy]
  <2>1. id \in HypothesisIds /\ Stored(id) /\ poll[p].stream \in Packs
    BY <1>12 DEF AnalysisRead, IInv, PollsSound
  <2>2. SoundRecord(id, hyps[id])
    BY <2>1 DEF IInv, RecordsSound
  <2>3. SoundRecord(id, copy) /\ copy \in Hypotheses
    BY <2>2 DEF SoundRecord, Hypotheses
  <2> HIDE DEF copy
  <2>4. /\ next \in PollRecords /\ next.pc = "merging" /\ next.stream = poll[p].stream
        /\ next.fresh = poll[p].fresh /\ next.id = id /\ next.copy = copy
    BY <1>1, <2>3 DEF PollRecords, OnLoop
  <2>5. poll' = [poll EXCEPT ![p] = next]
    BY <1>1, <1>12 DEF AnalysisRead, PollRecords, copy
  <2> HIDE DEF next
  <2>6. QED
    BY <1>1, <1>12, <2>1, <2>3, <2>4, <2>5, PollMoves DEF AnalysisRead
<1>13. CASE AnalysisWrite(p)
  BY <1>13, IdleOK, PollWrites DEF AnalysisWrite, EndPoll
<1>14. CASE NothingToSimulate(p)
  BY <1>1, <1>14, IdleOK, PollMoves DEF NothingToSimulate, EndPoll
<1>15. QED
  BY <1>2, <1>3, <1>4, <1>5, <1>6, <1>7, <1>9, <1>10, <1>11, <1>12, <1>13, <1>14
     DEF PollStep

\* ... of a worker ...
LEMMA HandlerStepIInv == ASSUME IInv, NEW w \in Handlers, HandlerStep(w) PROVE IInv'
<1>1. /\ handler \in [Handlers -> HandlerRecords] /\ feed \in [Events -> 0 .. MaxVersion]
      /\ now \in 0 .. MaxTime /\ supervised \in SUBSET Packs
  BY DEF IInv, TypeOK
<1>2. ASSUME NEW id \in HypothesisIds, NEW target \in {Confirmed, Contested, Resolved},
             NEW actor \in Users \cup {System}, HandlerReads(w, id, target, actor)
      PROVE  IInv'
  <2> DEFINE copy == Transition(hyps[id], target, actor)
             next == [pc |-> "writing", id |-> id, copy |-> copy]
  <2>1. Stored(id) /\ CanTransition(hyps[id], target, actor)
    BY <1>2 DEF HandlerReads
  <2>2. SoundRecord(id, hyps[id])
    BY <2>1 DEF IInv, RecordsSound
  <2>3. target \in STATES
    BY DEF STATES
  <2>4. /\ copy \in Hypotheses /\ Explains(copy.audit, copy.state)
        /\ copy.signals = hyps[id].signals /\ copy.state = target
    BY <2>1, <2>2, <2>3, TransitionExplained DEF SoundRecord
  <2>5. hyps[id].state # Unconfirmed
    BY <2>1 DEF CanTransition, Permitted, AUTO_TRANSITIONS, HUMAN_TRANSITIONS, Unconfirmed,
                Observed, Corroborated, Relevant, Contested, Resolved, Confirmed
  <2>6. SoundRecord(id, copy)
    BY <2>2, <2>4, <2>5 DEF SoundRecord
  <2> HIDE DEF copy
  <2>7. next \in HandlerRecords
    BY <2>4 DEF HandlerRecords
  <2>8. handler' = [handler EXCEPT ![w] = next]
    BY <1>2 DEF HandlerReads, copy
  <2>9. \A v \in Handlers : handler'[v].pc = "writing" =>
            handler'[v].id \in HypothesisIds /\ SoundRecord(handler'[v].id, handler'[v].copy)
    BY <1>1, <2>6, <2>8 DEF IInv, HandlersSound
  <2>10. handler' \in [Handlers -> HandlerRecords]
    BY <1>1, <2>7, <2>8
  <2>11. QED
    BY <1>1, <1>2, <2>9, <2>10, HandlerMoves DEF HandlerReads
<1>3. CASE HandlerWrites(w)
  <2>1. handler[w].id \in HypothesisIds /\ SoundRecord(handler[w].id, handler[w].copy)
    BY <1>3 DEF HandlerWrites, IInv, HandlersSound
  <2>2. /\ hyps' \in [HypothesisIds -> Hypotheses \cup {NoHypothesis}]
        /\ RecordsSound'
        /\ \A other \in HypothesisIds : Stored(other) => Stored(other)'
    BY <1>3, <2>1, RecordWritten DEF HandlerWrites
  <2>3. handler' \in [Handlers -> HandlerRecords]
    BY <1>1, <1>3, IdleOK DEF HandlerWrites
  <2>4. TypeOK'
    BY <1>3, <2>2, <2>3 DEF HandlerWrites, IInv, TypeOK
  <2>5. HandlersSound'
    <3>1. \A v \in Handlers : handler'[v].pc = "writing" => handler'[v] = handler[v]
      BY <1>1, <1>3, IdleOK DEF HandlerWrites
    <3>2. QED
      BY <1>3, <3>1 DEF HandlerWrites, IInv, HandlersSound, SoundRecord, Supported
  <2>6. PollsSound'
    BY <1>3, <2>2 DEF HandlerWrites, IInv, PollsSound, SoundRecord, Supported, Stored
  <2>7. QED
    BY <2>2, <2>4, <2>5, <2>6 DEF IInv
<1>4. QED
  BY <1>2, <1>3 DEF HandlerStep

\* ... and every step at all.
LEMMA NextIInv == IInv /\ [Next]_vars => IInv'
<1> SUFFICES ASSUME IInv, [Next]_vars PROVE IInv'
  OBVIOUS
<1>1. ASSUME NEW p \in Polls, NEW c \in Connectors, NEW stream \in Streams,
             PollConnector(p, c, stream)
      PROVE  IInv'
  <2> DEFINE next == [IdlePoll EXCEPT !.pc = "fetching", !.connector = c,
                                      !.stream = stream, !.base = cursor[c]]
  <2>1. next \in PollRecords /\ next.pc = "fetching" /\ next.fresh = {}
    BY IdleOK, PipelineAssumption DEF PollRecords, IInv, TypeOK
  <2>2. poll' = [poll EXCEPT ![p] = next] /\ cursor' = cursor
    BY <1>1 DEF PollConnector
  <2>3. /\ cursor' \in [Connectors -> Cursors] /\ supervised' \in SUBSET Packs
        /\ dropped' \in SUBSET SignalIds /\ faults' \in 0 .. MaxFaults
    BY <1>1, <2>2 DEF PollConnector, IInv, TypeOK
  <2> HIDE DEF next
  <2>4. QED
    BY <1>1, <2>1, <2>2, <2>3, PollMoves DEF PollConnector
<1>2. ASSUME NEW e \in Events, Publish(e) PROVE IInv'
  BY <1>2, PipelineAssumption, HandlerMoves DEF Publish, IInv, TypeOK, HandlersSound
<1>3. CASE Tick
  BY <1>3, PipelineAssumption, HandlerMoves DEF Tick, IInv, TypeOK, HandlersSound
<1>4. CASE Crash
  <2>1. TypeOK'
    <3>1. dropped' \in SUBSET SignalIds
      BY <1>4, InHandOK DEF Crash, IInv, TypeOK
    <3>2. QED
      BY <1>4, <3>1, IdleOK, PipelineAssumption DEF Crash, IInv, TypeOK
  <2>2. RecordsSound'
    BY <1>4 DEF Crash, IInv, RecordsSound, Stored, SoundRecord, Supported
  <2>3. PollsSound' /\ HandlersSound'
    BY <1>4, IdleOK DEF Crash, PollsSound, HandlersSound
  <2>4. QED
    BY <2>1, <2>2, <2>3 DEF IInv
<1>5. CASE UNCHANGED vars
  BY <1>5 DEF vars, IInv, TypeOK, RecordsSound, PollsSound, HandlersSound, Stored,
              SoundRecord, Supported
<1>6. ASSUME NEW p \in Polls, PollRaises(p) PROVE IInv'
  <2>1. /\ dropped' \in SUBSET SignalIds /\ supervised' \in SUBSET Packs
        /\ faults' \in 0 .. MaxFaults
    BY <1>6, InHandOK, PipelineAssumption DEF PollRaises, IInv, TypeOK
  <2>2. cursor' \in [Connectors -> Cursors]
    BY <1>6 DEF PollRaises, IInv, TypeOK
  <2>3. QED
    BY <1>6, <2>1, <2>2, IdleOK, PollMoves DEF PollRaises, EndPoll
<1>7. ASSUME NEW pack \in Packs, StartWatchPack(pack) PROVE IInv'
  <2>1. supervised' \in SUBSET Packs
    BY <1>7 DEF StartWatchPack, IInv, TypeOK
  <2>2. QED
    BY <1>7, <2>1, HandlerMoves DEF StartWatchPack, IInv, TypeOK, HandlersSound
<1>8. QED
  BY <1>1, <1>2, <1>3, <1>4, <1>5, <1>6, <1>7, PollStepIInv, HandlerStepIInv DEF Next

\* The types of every document and of every copy in flight.
THEOREM TypeCorrect == Spec => []TypeOK
<1>1. IInv => TypeOK
  BY DEF IInv
<1>2. QED
  BY <1>1, InitIInv, NextIInv, PTL DEF Spec

\* Whatever overlaps and wherever the process dies, the audit trail of a stored
\* hypothesis explains its state, and only a human ever confirmed one.
THEOREM AuditIsTrue == Spec => []AuditExplainsState
<1>1. IInv => AuditExplainsState
  BY DEF IInv, RecordsSound, SoundRecord, AuditExplainsState
<1>2. QED
  BY <1>1, InitIInv, NextIInv, PTL DEF Spec

\* A hypothesis refers to stored signals of its pack only.
THEOREM NoDanglingSignal == Spec => []AttachedAreStored
<1>1. IInv => AttachedAreStored
  BY DEF IInv, RecordsSound, SoundRecord, AttachedAreStored
<1>2. QED
  BY <1>1, InitIInv, NextIInv, PTL DEF Spec

\* A state above UNCONFIRMED always rests on evidence still in the record.
THEOREM NoUnsupportedState == Spec => []RelevanceIsSupported
<1>1. IInv => RelevanceIsSupported
  BY DEF IInv, RecordsSound, SoundRecord, RelevanceIsSupported
<1>2. QED
  BY <1>1, InitIInv, NextIInv, PTL DEF Spec
-------------------------------------------------------------------------------
(* What a cursor has seen *)

Kept(s) == s \in signals \cup dropped \/ \E p \in Polls : s \in poll[p].todo

KeptSeen(seen) == \A s \in SignalIds : seen[s.event] = s.hash => Kept(s)

\* Only a poll that stores has signals left to store, and everything a cursor or the
\* base of a poll has seen is kept.
SeenSoFar ==
    /\ \A p \in Polls : poll[p].pc # "storing" => poll[p].todo = {}
    /\ \A c \in Connectors : KeptSeen(cursor[c].seen)
    /\ \A p \in Polls : KeptSeen(poll[p].base.seen)

\* An idle coroutine has nothing left to store and has seen nothing.
LEMMA IdleSeesNothing ==
    /\ IdlePoll.pc = "idle" /\ IdlePoll.todo = {} /\ IdlePoll.base = NewCursor
    /\ \A s \in SignalIds : NewCursor.seen[s.event] # s.hash
<1>1. \A s \in SignalIds : NewCursor.seen[s.event] # s.hash
  BY DEF NewCursor, Nothing, SignalIds
<1>2. QED
  BY <1>1 DEF IdlePoll

\* A step of a coroutine that neither fetches nor stores a signal keeps what was kept.
LEMMA QuietPoll ==
    ASSUME SeenSoFar, NEW p \in Polls, UNCHANGED <<signals, dropped>>,
           \A q \in Polls : q # p => poll'[q] = poll[q],
           poll[p].todo = {}, poll'[p].todo = {},
           poll'[p].base \in {poll[p].base, NewCursor} \cup {cursor[c] : c \in Connectors},
           \A c \in Connectors : cursor'[c] = cursor[c] \/ cursor'[c] = poll[p].base
    PROVE  SeenSoFar'
<1>1. \A s \in SignalIds : Kept(s) => Kept(s)'
  BY DEF Kept
<1>2. KeptSeen(poll'[p].base.seen)
  BY IdleSeesNothing DEF SeenSoFar, KeptSeen
<1>3. ASSUME NEW c \in Connectors PROVE KeptSeen(cursor'[c].seen)
  BY <1>3 DEF SeenSoFar
<1>4. \A q \in Polls : KeptSeen(poll'[q].base.seen)
  BY <1>2 DEF SeenSoFar
<1>5. \A q \in Polls : poll'[q].pc # "storing" => poll'[q].todo = {}
  BY DEF SeenSoFar
<1>6. QED
  BY <1>1, <1>3, <1>4, <1>5 DEF SeenSoFar, KeptSeen

\* What was seen before a step of a coroutine is kept after it.
LEMMA PollStepSeen ==
    ASSUME IInv, SeenSoFar, NEW p \in Polls, PollStep(p)
    PROVE  SeenSoFar'
<1>1. /\ poll \in [Polls -> PollRecords] /\ poll[p] \in PollRecords
      /\ cursor \in [Connectors -> Cursors]
  BY DEF IInv, TypeOK
<1>2. poll[p].pc # "storing" => poll[p].todo = {}
  BY DEF SeenSoFar
<1>3. ASSUME EndPoll(p), poll[p].todo = {}, UNCHANGED <<signals, dropped>>,
             \A c \in Connectors : cursor'[c] = cursor[c] \/ cursor'[c] = poll[p].base
      PROVE  SeenSoFar'
  <2>1. poll'[p] = IdlePoll /\ \A q \in Polls : q # p => poll'[q] = poll[q]
    BY <1>1, <1>3 DEF EndPoll
  <2>2. QED
    BY <1>3, <2>1, IdleSeesNothing, QuietPoll
<1>4. ASSUME poll[p].todo = {}, UNCHANGED <<cursor, signals, dropped>>,
             poll'[p].todo = poll[p].todo, poll'[p].base = poll[p].base,
             \A q \in Polls : q # p => poll'[q] = poll[q]
      PROVE  SeenSoFar'
  BY <1>4, QuietPoll
<1>5. CASE FetchFails(p)
  BY <1>2, <1>3, <1>5 DEF FetchFails
<1>6. CASE NotModified(p)
  <2>1. \A c \in Connectors : cursor'[c] = cursor[c] \/ cursor'[c] = poll[p].base
    BY <1>1, <1>6 DEF NotModified
  <2>2. QED
    BY <1>2, <1>3, <1>6, <2>1 DEF NotModified
<1>7. CASE Fetched(p)
  <2> DEFINE c    == poll[p].connector
             old  == poll[p].base.seen
             seen == Seen(Response(c), old)
             todo == Fresh(Response(c), old)
  <2>1. /\ poll'[p].pc = "storing" /\ poll'[p].base = NewCursor /\ poll'[p].todo = todo
        /\ \A q \in Polls : q # p => poll'[q] = poll[q]
    BY <1>1, <1>7 DEF Fetched, PollRecords
  <2>2. poll[p].todo = {} /\ signals' = signals /\ dropped' = dropped
    BY <1>2, <1>7 DEF Fetched
  <2>3. \A s \in SignalIds : seen[s.event] = s.hash => old[s.event] = s.hash \/ s \in todo
    BY DEF Seen, Fresh, SignalIds
  <2>4. \A d \in Connectors : cursor'[d].seen = IF d = c THEN seen ELSE cursor[d].seen
    BY <1>1, <1>7 DEF Fetched
  <2> HIDE DEF seen, todo
  <2>5. \A s \in SignalIds : Kept(s) => Kept(s)'
    BY <2>1, <2>2 DEF Kept
  <2>6. \A s \in todo : Kept(s)'
    BY <2>1 DEF Kept
  <2>7. ASSUME NEW d \in Connectors, NEW s \in SignalIds,
               cursor'[d].seen[s.event] = s.hash
        PROVE  Kept(s)'
    <3>1. CASE d = c
      BY <2>3, <2>4, <2>5, <2>6, <2>7, <3>1 DEF SeenSoFar, KeptSeen
    <3>2. CASE d # c
      BY <2>4, <2>5, <2>7, <3>2 DEF SeenSoFar, KeptSeen
    <3>3. QED
      BY <3>1, <3>2
  <2>8. ASSUME NEW q \in Polls, NEW s \in SignalIds,
               poll'[q].base.seen[s.event] = s.hash
        PROVE  Kept(s)'
    <3>1. q # p
      BY <2>1, <2>8, IdleSeesNothing
    <3>2. QED
      BY <2>1, <2>5, <2>8, <3>1 DEF SeenSoFar, KeptSeen
  <2>9. \A q \in Polls : poll'[q].pc # "storing" => poll'[q].todo = {}
    BY <2>1 DEF SeenSoFar
  <2>10. QED
    BY <2>2, <2>7, <2>8, <2>9 DEF SeenSoFar, KeptSeen
<1>8. ASSUME NEW s \in SignalIds, StoreSignal(p, s) PROVE SeenSoFar'
  <2>1. /\ poll'[p].pc = "storing" /\ poll'[p].base = poll[p].base
        /\ poll'[p].todo = poll[p].todo \ {s}
        /\ \A q \in Polls : q # p => poll'[q] = poll[q]
    BY <1>1, <1>8 DEF StoreSignal, PollRecords
  <2>2. signals' = signals \cup {s} /\ cursor' = cursor /\ dropped' = dropped
    BY <1>8 DEF StoreSignal
  <2>3. \A t \in SignalIds : Kept(t) => Kept(t)'
    BY <2>1, <2>2 DEF Kept
  <2>4. \A q \in Polls : poll'[q].base = poll[q].base
    BY <2>1
  <2>5. \A q \in Polls : poll'[q].pc # "storing" => poll'[q].todo = {}
    BY <2>1 DEF SeenSoFar
  <2>6. QED
    BY <2>2, <2>3, <2>4, <2>5 DEF SeenSoFar, KeptSeen
<1>9. CASE SignalsStored(p)
  <2>1. CASE EndPoll(p)
    BY <1>3, <1>9, <2>1 DEF SignalsStored
  <2>2. CASE poll' = [poll EXCEPT ![p].pc = "compiling"]
    BY <1>1, <1>4, <1>9, <2>2 DEF SignalsStored, PollRecords
  <2>3. QED
    BY <1>9, <2>1, <2>2 DEF SignalsStored
<1>10. CASE CompileNothing(p)
  BY <1>2, <1>3, <1>10 DEF CompileNothing
<1>11. ASSUME NEW id, NEW hyp, poll[p].pc = "compiling", CompileInto(p, id, hyp)
       PROVE  SeenSoFar'
  BY <1>1, <1>2, <1>4, <1>11 DEF CompileInto, PollRecords
<1>12. CASE WriteHypothesis(p)
  <2>1. CASE EndPoll(p)
    BY <1>2, <1>3, <1>12, <2>1 DEF WriteHypothesis
  <2>2. CASE poll' = [poll EXCEPT ![p].pc = "analysing", ![p].copy = NoHypothesis]
    BY <1>1, <1>2, <1>4, <1>12, <2>2 DEF WriteHypothesis, PollRecords
  <2>3. QED
    BY <1>12, <2>1, <2>2 DEF WriteHypothesis
<1>13. CASE AnalysisRead(p)
  BY <1>1, <1>2, <1>4, <1>13 DEF AnalysisRead, PollRecords
<1>14. CASE AnalysisWrite(p)
  BY <1>2, <1>3, <1>14 DEF AnalysisWrite
<1>15. CASE NothingToSimulate(p)
  BY <1>2, <1>3, <1>15 DEF NothingToSimulate
<1>16. QED
  BY <1>5, <1>6, <1>7, <1>8, <1>9, <1>10, <1>11, <1>12, <1>13, <1>14, <1>15
     DEF PollStep, CompileOpen, CompileNew

\* Every step keeps what was seen.
LEMMA NextSeen == IInv /\ SeenSoFar /\ [Next]_vars => SeenSoFar'
<1> SUFFICES ASSUME IInv, SeenSoFar, [Next]_vars PROVE SeenSoFar'
  OBVIOUS
<1>1. ASSUME NEW p \in Polls, NEW c \in Connectors, NEW stream \in Streams,
             PollConnector(p, c, stream)
      PROVE  SeenSoFar'
  <2>1. /\ poll'[p].todo = {} /\ poll'[p].base = cursor[c]
        /\ \A q \in Polls : q # p => poll'[q] = poll[q]
    BY <1>1, IdleSeesNothing DEF PollConnector, IInv, TypeOK, IdlePoll
  <2>2. poll[p].todo = {} /\ UNCHANGED <<signals, dropped, cursor>>
    BY <1>1 DEF PollConnector, SeenSoFar
  <2>3. QED
    BY <2>1, <2>2, QuietPoll
<1>2. CASE UNCHANGED <<cursor, signals, poll, dropped>>
  BY <1>2 DEF SeenSoFar, KeptSeen, Kept
<1>3. ASSUME NEW w \in Handlers, HandlerStep(w) PROVE SeenSoFar'
  BY <1>2, <1>3 DEF HandlerStep, HandlerReads, HandlerWrites
<1>4. CASE Crash
  <2>1. \A q \in Polls : poll'[q] = IdlePoll
    BY <1>4 DEF Crash
  <2>2. signals' = signals /\ cursor' = cursor /\ dropped \subseteq dropped'
        /\ \A p \in Polls : poll[p].todo \subseteq dropped'
    BY <1>4 DEF Crash, InHand
  <2>3. \A s \in SignalIds : Kept(s) => Kept(s)'
    BY <2>2 DEF Kept
  <2>4. QED
    BY <2>1, <2>2, <2>3, IdleSeesNothing DEF SeenSoFar, KeptSeen
<1>5. ASSUME NEW p \in Polls, PollRaises(p) PROVE SeenSoFar'
  <2>1. poll'[p] = IdlePoll /\ \A q \in Polls : q # p => poll'[q] = poll[q]
    BY <1>5 DEF PollRaises, EndPoll, IInv, TypeOK
  <2>2. signals' = signals /\ cursor' = cursor /\ dropped \subseteq dropped'
        /\ poll[p].todo \subseteq dropped'
    BY <1>5 DEF PollRaises, InHand
  <2>3. \A s \in SignalIds : Kept(s) => Kept(s)'
    BY <2>1, <2>2 DEF Kept
  <2>4. QED
    BY <2>1, <2>2, <2>3, IdleSeesNothing DEF SeenSoFar, KeptSeen
<1>6. QED
  BY <1>1, <1>2, <1>3, <1>4, <1>5, PollStepSeen
     DEF Next, Publish, Tick, StartWatchPack, vars

\* What a cursor has seen is in the store, about to be, or was in the hand of a poll
\* that an exception or a crash cut short.
THEOREM SeenIsNotLost == Spec => []SeenIsKept
<1>1. Init => SeenSoFar
  BY IdleSeesNothing DEF Init, SeenSoFar, KeptSeen
<1>2. SeenSoFar => SeenIsKept
  BY DEF SeenSoFar, SeenIsKept, KeptSeen, Kept
<1>3. QED
  BY <1>1, <1>2, InitIInv, NextIInv, NextSeen, PTL DEF Spec
-------------------------------------------------------------------------------
(* One announcement per signal *)

\* No two polls of one connector overlap.
PollsApart ==
    \A p, q \in Polls : p # q =>
        "idle" \in {poll[p].pc, poll[q].pc} \/ poll[p].connector # poll[q].connector

ApartSpec == Init /\ [][Next /\ PollsApart']_vars

\* What is announced or about to be is seen, in its version or a later one that the
\* source has published; what is about to be was not announced before; and the cursor of
\* a poll has not moved since the poll read it.
HeardSoFar ==
    /\ PollsApart
    /\ \A p \in Polls : poll[p].pc = "fetching" => poll[p].base = cursor[poll[p].connector]
    /\ \A c \in Connectors, e \in Events : cursor[c].seen[e] <= feed[e]
    /\ \A s \in SignalIds : announced[s] > 0 => s.hash <= cursor[Source[s.event]].seen[s.event]
    /\ \A s \in SignalIds, p \in Polls : s \in poll[p].todo =>
          /\ announced[s] = 0 /\ Source[s.event] = poll[p].connector
          /\ s.hash <= cursor[Source[s.event]].seen[s.event]
    /\ AnnouncedOnce

\* A step of a coroutine that neither stores a signal nor moves a cursor.
LEMMA QuietHeard ==
    ASSUME HeardSoFar, PollsApart', NEW p \in Polls, UNCHANGED <<announced, cursor>>,
           \A q \in Polls : q # p => poll'[q] = poll[q],
           poll'[p].todo = {},
           poll'[p].pc = "fetching" => poll'[p].base = cursor[poll'[p].connector],
           feed' = feed
    PROVE  HeardSoFar'
<1>1. \A q \in Polls : poll'[q].pc = "fetching" => poll'[q].base = cursor'[poll'[q].connector]
  BY DEF HeardSoFar
<1>2. \A s \in SignalIds, q \in Polls : s \in poll'[q].todo => s \in poll[q].todo /\ q # p
  OBVIOUS
<1>3. QED
  BY <1>1, <1>2 DEF HeardSoFar, AnnouncedOnce

\* A signal is announced at most once as a poll goes on.
LEMMA PollStepHeard ==
    ASSUME IInv, SeenSoFar, HeardSoFar, PollsApart', NEW p \in Polls, PollStep(p)
    PROVE  HeardSoFar'
<1>1. /\ poll \in [Polls -> PollRecords] /\ poll[p] \in PollRecords
      /\ cursor \in [Connectors -> Cursors] /\ feed \in [Events -> 0 .. MaxVersion]
      /\ announced \in [SignalIds -> 0 .. 2]
      /\ Source \in [Events -> Connectors] /\ MaxVersion \in Nat
  BY PipelineAssumption DEF IInv, TypeOK
<1>2. poll[p].pc # "storing" => poll[p].todo = {}
  BY DEF SeenSoFar
<1>3. ASSUME EndPoll(p), UNCHANGED <<announced, cursor, feed>> PROVE HeardSoFar'
  <2>1. poll'[p] = IdlePoll /\ \A q \in Polls : q # p => poll'[q] = poll[q]
    BY <1>1, <1>3 DEF EndPoll
  <2>2. QED
    BY <1>3, <2>1, IdleSeesNothing, QuietHeard
<1>4. ASSUME UNCHANGED <<announced, cursor, feed>>, poll[p].todo = {},
             poll'[p].todo = poll[p].todo, poll'[p].pc # "fetching",
             \A q \in Polls : q # p => poll'[q] = poll[q]
      PROVE  HeardSoFar'
  BY <1>4, QuietHeard
<1>5. CASE FetchFails(p)
  BY <1>3, <1>5 DEF FetchFails
<1>6. CASE NotModified(p)
  <2>1. cursor' = cursor
    <3>1. poll[p].base = cursor[poll[p].connector]
      BY <1>6 DEF NotModified, HeardSoFar
    <3>2. QED
      BY <1>1, <1>6, <3>1 DEF NotModified
  <2>2. QED
    BY <1>3, <1>6, <2>1 DEF NotModified
<1>7. CASE Fetched(p)
  <2> DEFINE c    == poll[p].connector
             old  == cursor[c].seen
             seen == Seen(Response(c), old)
             todo == Fresh(Response(c), old)
  <2>1. poll[p].base = cursor[c] /\ c \in Connectors
    BY <1>1, <1>7 DEF Fetched, HeardSoFar, PollRecords
  <2>2. /\ poll'[p].pc = "storing" /\ poll'[p].connector = c /\ poll'[p].todo = todo
        /\ \A q \in Polls : q # p => poll'[q] = poll[q]
    BY <1>1, <1>7, <2>1 DEF Fetched, PollRecords
  <2>3. announced' = announced /\ feed' = feed
    BY <1>7 DEF Fetched
  <2>4. \A d \in Connectors : /\ d # c => cursor'[d] = cursor[d]
                              /\ d = c => cursor'[d].seen = seen
    BY <1>1, <1>7, <2>1 DEF Fetched
  <2>5. \A e \in Events : old[e] \in Nat /\ feed[e] \in Nat /\ old[e] <= feed[e]
    BY <1>1, <2>1 DEF HeardSoFar, Cursors, Listing
  <2>6. \A e \in Events : old[e] <= seen[e] /\ seen[e] <= feed[e] /\ seen[e] \in Nat
    BY <2>5 DEF Seen, Response
  <2>7. \A s \in todo : /\ s \in SignalIds /\ Source[s.event] = c
                        /\ s.hash = feed[s.event] /\ seen[s.event] = s.hash
                        /\ old[s.event] # s.hash
    BY <1>1 DEF Fresh, Response, Seen, SignalIds
  <2>8. \A s \in SignalIds : s.event \in Events /\ s.hash \in Nat
                             /\ Source[s.event] \in Connectors
    BY <1>1 DEF SignalIds
  <2> HIDE DEF seen, todo, old, c
  <2>9. \A d \in Connectors, e \in Events : cursor'[d].seen[e] <= feed'[e]
    BY <2>3, <2>4, <2>6 DEF HeardSoFar
  <2>10. \A d \in Connectors, e \in Events : cursor[d].seen[e] <= cursor'[d].seen[e]
                                            /\ cursor[d].seen[e] \in Nat
                                            /\ cursor'[d].seen[e] \in Nat
    <3> TAKE d \in Connectors, e \in Events
    <3>1. cursor[d].seen[e] \in Nat
      BY <1>1 DEF Cursors, Listing
    <3>2. CASE d = c
      BY <2>4, <2>6, <3>1, <3>2 DEF old
    <3>3. CASE d # c
      BY <2>4, <3>1, <3>3
    <3>4. QED
      BY <3>2, <3>3
  <2>11. \A s \in SignalIds : s.hash <= cursor[Source[s.event]].seen[s.event]
            => s.hash <= cursor'[Source[s.event]].seen[s.event]
    <3> TAKE s \in SignalIds
    <3>1. /\ cursor[Source[s.event]].seen[s.event] \in Nat
          /\ cursor'[Source[s.event]].seen[s.event] \in Nat
          /\ cursor[Source[s.event]].seen[s.event] <= cursor'[Source[s.event]].seen[s.event]
          /\ s.hash \in Nat
      BY <2>8, <2>10
    <3>2. QED
      BY <3>1
  <2>12. \A s \in SignalIds : announced'[s] > 0 =>
            s.hash <= cursor'[Source[s.event]].seen[s.event]
    BY <2>3, <2>11 DEF HeardSoFar
  <2>13. ASSUME NEW s \in todo
         PROVE  /\ announced'[s] = 0 /\ Source[s.event] = poll'[p].connector
                /\ s.hash <= cursor'[Source[s.event]].seen[s.event]
    <3>1. /\ s \in SignalIds /\ Source[s.event] = c /\ s.hash = feed[s.event]
          /\ seen[s.event] = s.hash /\ old[s.event] # s.hash /\ s.event \in Events
          /\ s.hash \in Nat
      BY <2>7, <2>8
    <3>2. ~ (announced[s] > 0)
      <4>1. ~ (s.hash <= old[s.event])
        BY <2>5, <3>1
      <4>2. QED
        BY <3>1, <4>1 DEF HeardSoFar, old
    <3>3. announced[s] \in Nat
      BY <1>1, <3>1
    <3>4. cursor'[c].seen = seen
      BY <2>1, <2>4
    <3>5. QED
      BY <2>2, <2>3, <3>1, <3>2, <3>3, <3>4
  <2>14. ASSUME NEW s \in SignalIds, NEW q \in Polls, s \in poll'[q].todo
         PROVE  /\ announced'[s] = 0 /\ Source[s.event] = poll'[q].connector
                /\ s.hash <= cursor'[Source[s.event]].seen[s.event]
    <3>1. CASE q = p
      BY <2>2, <2>13, <2>14, <3>1
    <3>2. CASE q # p
      BY <2>2, <2>3, <2>11, <2>14, <3>2 DEF HeardSoFar
    <3>3. QED
      BY <3>1, <3>2
  <2>15. ASSUME NEW q \in Polls, poll'[q].pc = "fetching"
         PROVE  poll'[q].base = cursor'[poll'[q].connector]
    <3>1. q # p /\ poll'[q] = poll[q]
      BY <2>2, <2>15
    <3>2. poll[q].connector # c /\ poll[q].connector \in Connectors
      <4>1. poll[q].connector # poll'[p].connector
        BY <2>2, <2>15, <3>1 DEF PollsApart
      <4>2. QED
        BY <1>1, <2>2, <4>1 DEF PollRecords
    <3>3. QED
      BY <2>4, <2>15, <3>1, <3>2 DEF HeardSoFar
  <2>16. AnnouncedOnce'
    BY <2>3 DEF HeardSoFar, AnnouncedOnce
  <2>17. QED
    BY <2>9, <2>12, <2>14, <2>15, <2>16 DEF HeardSoFar
<1>8. ASSUME NEW s \in SignalIds, StoreSignal(p, s) PROVE HeardSoFar'
  <2>1. /\ poll'[p].pc = "storing" /\ poll'[p].connector = poll[p].connector
        /\ poll'[p].todo = poll[p].todo \ {s}
        /\ \A q \in Polls : q # p => poll'[q] = poll[q]
    BY <1>1, <1>8 DEF StoreSignal, PollRecords
  <2>2. s \in poll[p].todo /\ poll[p].pc = "storing"
    BY <1>8 DEF StoreSignal
  <2>3. announced[s] = 0 /\ Source[s.event] = poll[p].connector
        /\ s.hash <= cursor[Source[s.event]].seen[s.event]
    BY <2>2 DEF HeardSoFar
  <2>4. /\ \A t \in SignalIds : announced'[t] = IF t = s THEN 1 ELSE announced[t]
        /\ cursor' = cursor /\ feed' = feed
    BY <1>1, <1>8, <2>3 DEF StoreSignal
  <2>5. ASSUME NEW t \in SignalIds, NEW q \in Polls, t \in poll'[q].todo
        PROVE  t # s /\ t \in poll[q].todo /\ poll'[q].connector = poll[q].connector
    <3>1. CASE q = p
      BY <2>1, <2>5, <3>1
    <3>2. CASE q # p
      <4>1. t \in poll[q].todo /\ poll'[q] = poll[q]
        BY <2>1, <2>5, <3>2
      <4>2. poll[q].pc = "storing"
        BY <4>1 DEF SeenSoFar
      <4>3. poll[q].connector # poll[p].connector
        BY <2>2, <3>2, <4>2 DEF HeardSoFar, PollsApart
      <4>4. Source[t.event] = poll[q].connector
        BY <4>1 DEF HeardSoFar
      <4>5. QED
        BY <2>3, <4>1, <4>3, <4>4
    <3>3. QED
      BY <3>1, <3>2
  <2>6. \A t \in SignalIds, q \in Polls : t \in poll'[q].todo =>
            /\ announced'[t] = 0 /\ Source[t.event] = poll'[q].connector
            /\ t.hash <= cursor'[Source[t.event]].seen[t.event]
    BY <2>4, <2>5 DEF HeardSoFar
  <2>7. \A t \in SignalIds : announced'[t] > 0 =>
            t.hash <= cursor'[Source[t.event]].seen[t.event]
    BY <2>3, <2>4 DEF HeardSoFar
  <2>8. AnnouncedOnce'
    BY <2>4 DEF HeardSoFar, AnnouncedOnce
  <2>9. \A q \in Polls : poll'[q].pc = "fetching" =>
            poll'[q].base = cursor'[poll'[q].connector]
    BY <2>1, <2>4 DEF HeardSoFar
  <2>10. QED
    BY <2>4, <2>6, <2>7, <2>8, <2>9 DEF HeardSoFar
<1>9. CASE SignalsStored(p)
  <2>1. CASE EndPoll(p)
    BY <1>3, <1>9, <2>1 DEF SignalsStored
  <2>2. CASE poll' = [poll EXCEPT ![p].pc = "compiling"]
    BY <1>1, <1>4, <1>9, <2>2 DEF SignalsStored, PollRecords
  <2>3. QED
    BY <1>9, <2>1, <2>2 DEF SignalsStored
<1>10. CASE CompileNothing(p)
  BY <1>3, <1>10 DEF CompileNothing
<1>11. ASSUME NEW id, NEW hyp, poll[p].pc = "compiling", CompileInto(p, id, hyp)
       PROVE  HeardSoFar'
  BY <1>1, <1>2, <1>4, <1>11 DEF CompileInto, PollRecords
<1>12. CASE WriteHypothesis(p)
  <2>1. CASE EndPoll(p)
    BY <1>3, <1>12, <2>1 DEF WriteHypothesis
  <2>2. CASE poll' = [poll EXCEPT ![p].pc = "analysing", ![p].copy = NoHypothesis]
    BY <1>1, <1>2, <1>4, <1>12, <2>2 DEF WriteHypothesis, PollRecords
  <2>3. QED
    BY <1>12, <2>1, <2>2 DEF WriteHypothesis
<1>13. CASE AnalysisRead(p)
  BY <1>1, <1>2, <1>4, <1>13 DEF AnalysisRead, PollRecords
<1>14. CASE AnalysisWrite(p)
  BY <1>3, <1>14 DEF AnalysisWrite
<1>15. CASE NothingToSimulate(p)
  BY <1>3, <1>15 DEF NothingToSimulate
<1>16. QED
  BY <1>5, <1>6, <1>7, <1>8, <1>9, <1>10, <1>11, <1>12, <1>13, <1>14, <1>15
     DEF PollStep, CompileOpen, CompileNew

\* Initially nothing is heard.
LEMMA InitHeard == Init => SeenSoFar /\ HeardSoFar
<1> SUFFICES ASSUME Init PROVE SeenSoFar /\ HeardSoFar
  OBVIOUS
<1>1. SeenSoFar
  BY IdleSeesNothing DEF Init, SeenSoFar, KeptSeen
<1>2. \A c \in Connectors, e \in Events : cursor[c].seen[e] = 0 /\ feed[e] = 0
  BY DEF Init, NewCursor, Nothing
<1>3. HeardSoFar
  BY <1>2, IdleSeesNothing DEF Init, HeardSoFar, PollsApart, AnnouncedOnce
<1>4. QED
  BY <1>1, <1>3

\* As long as the polls of a connector do not overlap, none of its signals is announced
\* twice, whatever raises or crashes.
THEOREM AnnouncedApart == ApartSpec => []AnnouncedOnce
<1>1. IInv /\ SeenSoFar /\ HeardSoFar /\ [Next /\ PollsApart']_vars => HeardSoFar'
  <2> SUFFICES ASSUME IInv, SeenSoFar, HeardSoFar, [Next /\ PollsApart']_vars
               PROVE  HeardSoFar'
    OBVIOUS
  <2>1. PollsApart'
    BY DEF HeardSoFar, PollsApart, vars
  <2>2. ASSUME NEW p \in Polls, NEW c \in Connectors, NEW stream \in Streams,
               PollConnector(p, c, stream)
        PROVE  HeardSoFar'
    <3>1. /\ poll'[p].todo = {} /\ poll'[p].base = cursor[poll'[p].connector]
          /\ \A q \in Polls : q # p => poll'[q] = poll[q]
      BY <2>2 DEF PollConnector, IInv, TypeOK, IdlePoll
    <3>2. QED
      BY <2>1, <2>2, <3>1, QuietHeard DEF PollConnector
  <2>3. CASE UNCHANGED <<feed, cursor, announced, poll>>
    BY <2>3 DEF HeardSoFar, PollsApart, AnnouncedOnce
  <2>4. ASSUME NEW w \in Handlers, HandlerStep(w) PROVE HeardSoFar'
    BY <2>3, <2>4 DEF HandlerStep, HandlerReads, HandlerWrites
  <2>5. ASSUME NEW e \in Events, Publish(e) PROVE HeardSoFar'
    <3>1. \A d \in Events : feed[d] \in Nat /\ feed'[d] \in Nat /\ feed[d] <= feed'[d]
      BY <2>5, PipelineAssumption DEF Publish, IInv, TypeOK
    <3>2. \A c \in Connectors, d \in Events : cursor[c].seen[d] \in Nat
      BY PipelineAssumption DEF IInv, TypeOK, Cursors, Listing
    <3>3. \A c \in Connectors, d \in Events : cursor[c].seen[d] <= feed'[d]
      BY <3>1, <3>2 DEF HeardSoFar
    <3>4. UNCHANGED <<cursor, announced, poll>>
      BY <2>5 DEF Publish
    <3>5. QED
      BY <2>1, <3>3, <3>4 DEF HeardSoFar, AnnouncedOnce
  <2>6. CASE Crash
    <3>1. \A q \in Polls : poll'[q] = IdlePoll
      BY <2>6 DEF Crash
    <3>2. UNCHANGED <<feed, cursor, announced>>
      BY <2>6 DEF Crash
    <3>3. QED
      BY <2>1, <3>1, <3>2, IdleSeesNothing DEF HeardSoFar, AnnouncedOnce
  <2>7. ASSUME NEW p \in Polls, PollRaises(p) PROVE HeardSoFar'
    <3>1. poll'[p] = IdlePoll /\ \A q \in Polls : q # p => poll'[q] = poll[q]
      BY <2>7 DEF PollRaises, EndPoll, IInv, TypeOK
    <3>2. UNCHANGED <<feed, cursor, announced>>
      BY <2>7 DEF PollRaises
    <3>3. QED
      BY <2>1, <3>1, <3>2, IdleSeesNothing, QuietHeard
  <2>8. QED
    BY <2>1, <2>2, <2>3, <2>4, <2>5, <2>6, <2>7, PollStepHeard
       DEF Next, Tick, StartWatchPack, vars
<1>2. [Next /\ PollsApart']_vars => [Next]_vars
  OBVIOUS
<1>3. HeardSoFar => AnnouncedOnce
  BY DEF HeardSoFar
<1>4. QED
  BY <1>1, <1>2, <1>3, InitIInv, NextIInv, InitHeard, NextSeen, PTL DEF ApartSpec

\* One coroutine that polls is enough for that.
THEOREM AnnouncedAlone ==
    ASSUME \A p, q \in Polls : p = q
    PROVE  SerialSpec => []AnnouncedOnce
<1>1. PollsApart'
  BY DEF PollsApart
<1>2. [Next /\ Serialised']_vars => [Next /\ PollsApart']_vars
  BY <1>1
<1>3. QED
  BY <1>2, AnnouncedApart, PTL DEF SerialSpec, ApartSpec
-------------------------------------------------------------------------------
(* One write at a time.  Where no handler overlaps another or the part of a  *)
(* poll that is on the loop, a copy in flight always grew out of the record  *)
(* it is about to replace, or opens a new one.                               *)

Steps == AUTO_TRANSITIONS \cup HUMAN_TRANSITIONS

\* `copy` is `hyp` after at most one move, with nothing taken away.
Grows(copy, hyp) ==
    /\ Extends(copy.audit, hyp.audit)
    /\ hyp.signals \subseteq copy.signals
    /\ copy.state = hyp.state \/ <<hyp.state, copy.state>> \in Steps

Unresolved(id) == Stored(id) /\ hyps[id].state # Resolved

\* The coroutines that compete for the event loop take turns.
OneOnLoop ==
    \A p, q \in Polls : p # q => poll[p].pc \notin OnLoop \/ poll[q].pc \notin OnLoop

CopiesFresh ==
    /\ \A p \in Polls :
          /\ poll[p].pc = "writing" =>
                IF Unresolved(poll[p].id) THEN Grows(poll[p].copy, hyps[poll[p].id])
                                          ELSE Grows(poll[p].copy, NewHypothesis)
          /\ poll[p].pc = "merging" =>
                Stored(poll[p].id) /\ Grows(poll[p].copy, hyps[poll[p].id])
    /\ \A w \in Handlers : handler[w].pc = "writing" =>
          Stored(handler[w].id) /\ Grows(handler[w].copy, hyps[handler[w].id])

\* Inductive together with IInv when writes are serialised.
SerialInv == Serialised /\ OneOnLoop /\ CopiesFresh

\* What the compiler starts from is a record.
LEMMA NewIsHypothesis == NewHypothesis \in Hypotheses
BY EmptySeq DEF NewHypothesis, Hypotheses, STATES

\* A trail extends itself, so a record grows into itself and into any record
\* that differs only in being analysed.
LEMMA GrowsItself ==
    ASSUME NEW hyp \in Hypotheses, NEW copy,
           copy.audit = hyp.audit, hyp.signals \subseteq copy.signals, copy.state = hyp.state
    PROVE  Grows(copy, hyp)
<1>1. Len(hyp.audit) \in Nat
  BY LenProperties DEF Hypotheses
<1>2. QED
  BY <1>1 DEF Grows, Extends

\* A permitted move only adds an entry to the trail (state.py transition).
LEMMA TransitionGrows ==
    ASSUME NEW hyp \in Hypotheses, NEW to \in STATES, NEW actor \in Users \cup {System},
           CanTransition(hyp, to, actor)
    PROVE  Grows(Transition(hyp, to, actor), hyp)
<1>1. CASE hyp.state = to
  BY <1>1, GrowsItself DEF Transition
<1>2. CASE hyp.state # to
  <2> DEFINE entry == [from |-> hyp.state, to |-> to, actor |-> actor]
             moved == [hyp EXCEPT !.state = to, !.audit = Append(@, entry)]
             Entries == [from : STATES, to : STATES, actor : Users \cup {System}]
  <2>1. hyp.audit \in Seq(Entries) /\ entry \in Entries
    BY DEF Hypotheses
  <2>2. /\ Len(Append(hyp.audit, entry)) = Len(hyp.audit) + 1
        /\ \A k \in 1 .. Len(hyp.audit) : Append(hyp.audit, entry)[k] = hyp.audit[k]
        /\ Len(hyp.audit) \in Nat
    BY <2>1, AppendProperties, LenProperties
  <2>3. /\ moved.audit = Append(hyp.audit, entry) /\ moved.state = to
        /\ moved.signals = hyp.signals
    BY DEF Hypotheses
  <2>4. Extends(moved.audit, hyp.audit)
    BY <2>2, <2>3 DEF Extends
  <2>5. <<hyp.state, to>> \in Steps
    BY <1>2 DEF CanTransition, Permitted, Steps
  <2>6. Transition(hyp, to, actor) = moved
    BY <1>2 DEF Transition
  <2>7. QED
    BY <2>3, <2>4, <2>5, <2>6 DEF Grows
<1>3. QED
  BY <1>1, <1>2

\* What the compiler makes of a record grew out of it.
LEMMA CompiledGrows ==
    ASSUME NEW hyp \in Hypotheses, NEW matched \in SUBSET SignalIds, matched # {}
    PROVE  Grows(Compiled(hyp, matched), hyp)
<1> DEFINE attached == hyp.signals \cup matched
           grown    == [hyp EXCEPT !.signals = attached]
           target   == QuorumTarget(Evidence(attached), TRUE, FALSE)
           moved    == Transition(grown, target, System)
<1>1. /\ grown \in Hypotheses /\ grown.audit = hyp.audit /\ grown.state = hyp.state
      /\ grown.signals = attached /\ hyp.signals \subseteq attached
  BY DEF Hypotheses
<1>2. target \in STATES /\ System \in Users \cup {System}
  BY QuorumIsAState
<1>3. Compiled(hyp, matched) = IF CanTransition(grown, target, System)
                               THEN moved ELSE grown
  <2>1. QuorumTarget(Evidence(attached), attached # {}, FALSE) = target
    <3>1. attached # {}
      OBVIOUS
    <3>2. QED
      BY <3>1 DEF QuorumTarget
  <2>2. QED
    BY <2>1 DEF Compiled
<1> HIDE DEF attached, grown, target, moved
<1>4. CASE CanTransition(grown, target, System)
  <2>1. Grows(moved, grown)
    BY <1>1, <1>2, <1>4, TransitionGrows DEF moved
  <2>2. Grows(moved, hyp)
    BY <2>1, <1>1 DEF Grows
  <2>3. QED
    BY <2>2, <1>3, <1>4
<1>5. CASE ~ CanTransition(grown, target, System)
  BY <1>1, <1>3, <1>5, GrowsItself
<1>6. QED
  BY <1>4, <1>5

\* Nothing moves from USER_CONFIRMED_IMPACT, and nothing but the compiler's own
\* moves leave UNCONFIRMED.
LEMMA FinalAndFirst ==
    /\ \A to : <<Confirmed, to>> \notin Steps
    /\ \A to : <<Unconfirmed, to>> \in Steps => <<Unconfirmed, to>> \in AUTO_TRANSITIONS
    /\ \A from, to : <<from, to>> \in Steps => from \in STATES /\ to \in STATES
BY DEF Steps, AUTO_TRANSITIONS, HUMAN_TRANSITIONS, STATES, Unconfirmed, Observed,
       Corroborated, Relevant, Contested, Resolved, Confirmed

\* A coroutine that holds no copy afterwards, and no document changes.
LEMMA QuietCopies ==
    ASSUME SerialInv, Serialised', NEW p \in Polls,
           UNCHANGED <<hyps, handler>>,
           \A q \in Polls : q # p => poll'[q] = poll[q],
           poll'[p].pc \notin {"writing", "merging"},
           poll'[p].pc \in OnLoop => poll[p].pc \in OnLoop \/ LoopFree
    PROVE  SerialInv'
<1>1. OneOnLoop'
  BY DEF SerialInv, OneOnLoop, LoopFree
<1>2. CopiesFresh'
  BY DEF SerialInv, CopiesFresh, Unresolved, Stored
<1>3. QED
  BY <1>1, <1>2 DEF SerialInv

\* A coroutine takes a copy.
LEMMA PollCopies ==
    ASSUME SerialInv, Serialised', NEW p \in Polls,
           UNCHANGED <<hyps, handler>>,
           \A q \in Polls : q # p => poll'[q] = poll[q],
           poll[p].pc \in OnLoop,
           \/ /\ poll'[p].pc = "writing"
              /\ IF Unresolved(poll'[p].id)
                 THEN Grows(poll'[p].copy, hyps[poll'[p].id])
                 ELSE Grows(poll'[p].copy, NewHypothesis)
           \/ /\ poll'[p].pc = "merging"
              /\ Stored(poll'[p].id) /\ Grows(poll'[p].copy, hyps[poll'[p].id])
    PROVE  SerialInv'
<1>1. OneOnLoop'
  BY DEF SerialInv, OneOnLoop
<1>2. CopiesFresh'
  BY DEF SerialInv, CopiesFresh, Unresolved, Stored
<1>3. QED
  BY <1>1, <1>2 DEF SerialInv

\* A coroutine writes its copy: nobody else holds one.
LEMMA PollWritesAlone ==
    ASSUME SerialInv, Serialised', NEW p \in Polls,
           handler' = handler,
           \A q \in Polls : q # p => poll'[q] = poll[q],
           poll[p].pc \in OnLoop, poll'[p].pc \notin {"writing", "merging"}
    PROVE  SerialInv'
<1>1. OneOnLoop'
  BY DEF SerialInv, OneOnLoop
<1>2. \A q \in Polls : poll'[q].pc \notin {"writing", "merging"}
  BY DEF SerialInv, OneOnLoop, OnLoop
<1>3. \A w \in Handlers : handler'[w].pc # "writing"
  BY DEF SerialInv, Serialised, LoopFree
<1>4. CopiesFresh'
  BY <1>2, <1>3 DEF CopiesFresh
<1>5. QED
  BY <1>1, <1>4 DEF SerialInv

\* What a step does to the stored records: nothing, or one is replaced by a copy
\* that grew out of it, or by a new one where there was none or a resolved one.
Replaces(id, copy) ==
    /\ hyps' = [hyps EXCEPT ![id] = copy]
    /\ \/ Stored(id) /\ Grows(copy, hyps[id])
       \/ ~ Unresolved(id) /\ Grows(copy, NewHypothesis)

OneRecordGrows ==
    hyps' = hyps \/ \E id \in HypothesisIds, copy \in Hypotheses : Replaces(id, copy)

\* The compiler works on the open record if there is one, so on a new one only
\* where no unresolved record has its id (live_service.py _compile).
LEMMA CompilesFresh ==
    ASSUME IInv, SerialInv, Serialised', NEW p \in Polls,
           CompileNew(p) \/ \E id \in HypothesisIds : CompileOpen(p, id)
    PROVE  SerialInv' /\ OneRecordGrows
<1>1. /\ poll \in [Polls -> PollRecords]
      /\ hyps \in [HypothesisIds -> Hypotheses \cup {NoHypothesis}]
      /\ poll[p] \in PollRecords
  BY DEF IInv, TypeOK
<1>2. Matched(p) \in SUBSET SignalIds
  BY <1>1 DEF Matched, PollRecords
<1>3. ASSUME NEW id, NEW hyp, poll[p].pc = "compiling", CompileInto(p, id, hyp)
      PROVE  /\ UNCHANGED <<hyps, handler>>
             /\ \A q \in Polls : q # p => poll'[q] = poll[q]
             /\ poll[p].pc \in OnLoop /\ poll'[p].pc = "writing"
             /\ poll'[p].id = id /\ poll'[p].copy = Compiled(hyp, Matched(p))
  BY <1>1, <1>3 DEF CompileInto, PollRecords, OnLoop
<1>4. ASSUME NEW id \in HypothesisIds, CompileOpen(p, id) PROVE SerialInv' /\ OneRecordGrows
  <2>1. /\ poll[p].pc = "compiling" /\ Matched(p) # {} /\ Unresolved(id)
        /\ CompileInto(p, id, hyps[id])
    BY <1>4 DEF CompileOpen, NewestOpen, Open, Unresolved
  <2>2. hyps[id] \in Hypotheses
    BY <1>1, <2>1 DEF Unresolved, Stored
  <2>3. Grows(Compiled(hyps[id], Matched(p)), hyps[id])
    BY <1>2, <2>1, <2>2, CompiledGrows
  <2>4. QED
    BY <1>3, <2>1, <2>3, PollCopies DEF OneRecordGrows
<1>5. ASSUME CompileNew(p) PROVE SerialInv' /\ OneRecordGrows
  <2> DEFINE id == <<poll[p].stream, poll[p].at>>
  <2>1. /\ poll[p].pc = "compiling" /\ Matched(p) # {}
        /\ ~ \E other \in HypothesisIds : Open(other, poll[p].stream, poll[p].at)
        /\ CompileInto(p, id, NewHypothesis)
    BY <1>5 DEF CompileNew
  <2>2. id \in HypothesisIds
    BY <1>1, <2>1 DEF IInv, PollsSound, HypothesisIds, PollRecords
  <2>3. poll[p].at \in Nat /\ Window \in Nat
    BY <1>1, PipelineAssumption DEF PollRecords
  <2>4. ~ Unresolved(id)
    <3>1. Unresolved(id) => Open(id, poll[p].stream, poll[p].at)
      BY <2>3 DEF Unresolved, Open
    <3>2. QED
      BY <2>1, <2>2, <3>1
  <2>5. Grows(Compiled(NewHypothesis, Matched(p)), NewHypothesis)
    BY <1>2, <2>1, NewIsHypothesis, CompiledGrows
  <2> HIDE DEF id
  <2>6. QED
    BY <1>3, <2>1, <2>4, <2>5, PollCopies DEF OneRecordGrows
<1>6. QED
  BY <1>4, <1>5

\* What a poll's own copy replaces is what it grew out of.
LEMMA PollWriteGrows ==
    ASSUME IInv, SerialInv, NEW p \in Polls, poll[p].pc \in {"writing", "merging"},
           hyps' = [hyps EXCEPT ![poll[p].id] = poll[p].copy]
    PROVE  OneRecordGrows
<1>1. poll[p].id \in HypothesisIds /\ poll[p].copy \in Hypotheses
  BY DEF IInv, PollsSound, SoundRecord
<1>2. \/ Stored(poll[p].id) /\ Grows(poll[p].copy, hyps[poll[p].id])
      \/ ~ Unresolved(poll[p].id) /\ Grows(poll[p].copy, NewHypothesis)
  BY DEF SerialInv, CopiesFresh, Unresolved
<1>3. Replaces(poll[p].id, poll[p].copy)
  BY <1>2 DEF Replaces
<1>4. QED
  BY <1>1, <1>3 DEF OneRecordGrows

\* Copies stay fresh through every step of a coroutine ...
LEMMA PollStepSerial ==
    ASSUME IInv, SerialInv, Serialised', NEW p \in Polls, PollStep(p)
    PROVE  SerialInv' /\ OneRecordGrows
<1>1. /\ poll \in [Polls -> PollRecords]
      /\ hyps \in [HypothesisIds -> Hypotheses \cup {NoHypothesis}]
  BY DEF IInv, TypeOK
<1>2. IdlePoll.pc = "idle"
  BY IdleOK
<1>3. ASSUME EndPoll(p), UNCHANGED <<hyps, handler>> PROVE SerialInv' /\ OneRecordGrows
  BY <1>1, <1>2, <1>3, QuietCopies DEF EndPoll, OneRecordGrows, OnLoop
<1>5. CASE FetchFails(p)
  BY <1>3, <1>5 DEF FetchFails
<1>6. CASE NotModified(p)
  BY <1>3, <1>6 DEF NotModified
<1>7. CASE Fetched(p)
  <2>1. /\ poll'[p].pc = "storing" /\ LoopFree /\ UNCHANGED <<hyps, handler>>
        /\ \A q \in Polls : q # p => poll'[q] = poll[q]
    BY <1>1, <1>7 DEF Fetched, PollRecords
  <2>2. QED
    BY <2>1, QuietCopies DEF OneRecordGrows
<1>8. ASSUME NEW s \in SignalIds, StoreSignal(p, s) PROVE SerialInv' /\ OneRecordGrows
  <2>1. /\ poll'[p].pc = "storing" /\ poll[p].pc \in OnLoop /\ UNCHANGED <<hyps, handler>>
        /\ \A q \in Polls : q # p => poll'[q] = poll[q]
    BY <1>1, <1>8 DEF StoreSignal, PollRecords, OnLoop
  <2>2. QED
    BY <2>1, QuietCopies DEF OneRecordGrows
<1>9. CASE SignalsStored(p)
  <2>1. CASE EndPoll(p)
    BY <1>3, <1>9, <2>1 DEF SignalsStored
  <2>2. CASE poll' = [poll EXCEPT ![p].pc = "compiling"]
    <3>1. /\ poll'[p].pc = "compiling" /\ poll[p].pc \in OnLoop /\ UNCHANGED <<hyps, handler>>
          /\ \A q \in Polls : q # p => poll'[q] = poll[q]
      BY <1>1, <1>9, <2>2 DEF SignalsStored, PollRecords, OnLoop
    <3>2. QED
      BY <3>1, QuietCopies DEF OneRecordGrows
  <2>3. QED
    BY <1>9, <2>1, <2>2 DEF SignalsStored
<1>10. CASE CompileNothing(p)
  BY <1>3, <1>10 DEF CompileNothing
<1>11. CASE CompileNew(p) \/ \E id \in HypothesisIds : CompileOpen(p, id)
  BY <1>11, CompilesFresh
<1>12. CASE WriteHypothesis(p)
  <2>1. OneRecordGrows
    BY <1>12, PollWriteGrows DEF WriteHypothesis
  <2>2. /\ handler' = handler /\ poll[p].pc \in OnLoop
        /\ \A q \in Polls : q # p => poll'[q] = poll[q]
        /\ poll'[p].pc \in {"idle", "analysing"}
    BY <1>1, <1>2, <1>12 DEF WriteHypothesis, EndPoll, PollRecords, OnLoop
  <2>3. QED
    BY <2>1, <2>2, PollWritesAlone
<1>13. CASE AnalysisRead(p)
  <2> DEFINE copy == [hyps[poll[p].id] EXCEPT !.analysed = TRUE]
  <2>1. /\ poll'[p].pc = "merging" /\ poll[p].pc \in OnLoop /\ UNCHANGED <<hyps, handler>>
        /\ poll'[p].id = poll[p].id /\ poll'[p].copy = copy
        /\ \A q \in Polls : q # p => poll'[q] = poll[q]
    BY <1>1, <1>13 DEF AnalysisRead, PollRecords, OnLoop
  <2>2. Stored(poll[p].id) /\ hyps[poll[p].id] \in Hypotheses
    BY <1>1, <1>13 DEF AnalysisRead, IInv, PollsSound, Stored
  <2>3. copy.audit = hyps[poll[p].id].audit /\ copy.state = hyps[poll[p].id].state
        /\ hyps[poll[p].id].signals \subseteq copy.signals
    BY <2>2 DEF Hypotheses
  <2> HIDE DEF copy
  <2>4. Grows(copy, hyps[poll[p].id])
    BY <2>2, <2>3, GrowsItself
  <2>5. QED
    BY <2>1, <2>2, <2>4, PollCopies DEF OneRecordGrows
<1>14. CASE AnalysisWrite(p)
  <2>1. OneRecordGrows
    BY <1>14, PollWriteGrows DEF AnalysisWrite
  <2>2. /\ handler' = handler /\ poll[p].pc \in OnLoop
        /\ \A q \in Polls : q # p => poll'[q] = poll[q]
        /\ poll'[p].pc = "idle"
    BY <1>1, <1>2, <1>14 DEF AnalysisWrite, EndPoll, PollRecords, OnLoop
  <2>3. QED
    BY <2>1, <2>2, PollWritesAlone
<1>15. CASE NothingToSimulate(p)
  BY <1>3, <1>15 DEF NothingToSimulate
<1>16. QED
  BY <1>5, <1>6, <1>7, <1>8, <1>9, <1>10, <1>11, <1>12, <1>13, <1>14, <1>15 DEF PollStep

\* ... of a worker ...
LEMMA HandlerStepSerial ==
    ASSUME IInv, SerialInv, Serialised', NEW w \in Handlers, HandlerStep(w)
    PROVE  SerialInv' /\ OneRecordGrows
<1>1. /\ handler \in [Handlers -> HandlerRecords]
      /\ hyps \in [HypothesisIds -> Hypotheses \cup {NoHypothesis}]
  BY DEF IInv, TypeOK
<1>2. IdleHandler.pc = "idle"
  BY IdleOK
<1>3. ASSUME NEW id \in HypothesisIds, NEW target \in {Confirmed, Contested, Resolved},
             NEW actor \in Users \cup {System}, HandlerReads(w, id, target, actor)
      PROVE  SerialInv' /\ OneRecordGrows
  <2>1. /\ Stored(id) /\ CanTransition(hyps[id], target, actor)
        /\ UNCHANGED <<hyps, poll>> /\ target \in STATES
    BY <1>3 DEF HandlerReads, STATES
  <2>2. hyps[id] \in Hypotheses
    BY <1>1, <2>1 DEF Stored
  <2>3. Grows(Transition(hyps[id], target, actor), hyps[id])
    BY <2>1, <2>2, TransitionGrows
  <2>4. /\ handler'[w].id = id /\ handler'[w].copy = Transition(hyps[id], target, actor)
        /\ \A v \in Handlers : v # w => handler'[v] = handler[v]
    BY <1>1, <1>3 DEF HandlerReads
  <2>5. CopiesFresh'
    BY <2>1, <2>3, <2>4 DEF SerialInv, CopiesFresh, Unresolved, Stored
  <2>6. QED
    BY <2>1, <2>5 DEF SerialInv, OneOnLoop, OneRecordGrows
<1>4. CASE HandlerWrites(w)
  <2>1. /\ handler[w].id \in HypothesisIds /\ handler[w].copy \in Hypotheses
        /\ handler[w].pc = "writing" /\ poll' = poll
    BY <1>4 DEF HandlerWrites, IInv, HandlersSound, SoundRecord
  <2>2. Stored(handler[w].id) /\ Grows(handler[w].copy, hyps[handler[w].id])
    BY <2>1 DEF SerialInv, CopiesFresh
  <2>3. Replaces(handler[w].id, handler[w].copy)
    BY <1>4, <2>2 DEF Replaces, HandlerWrites
  <2>4. \A v \in Handlers : handler'[v].pc # "writing"
    <3> TAKE v \in Handlers
    <3>1. CASE v = w
      BY <1>1, <1>2, <1>4, <3>1 DEF HandlerWrites
    <3>2. CASE v # w
      BY <1>1, <1>4, <2>1, <3>2 DEF HandlerWrites, SerialInv, Serialised
    <3>3. QED
      BY <3>1, <3>2
  <2>5. \A p \in Polls : poll'[p].pc \notin {"writing", "merging"}
    BY <2>1 DEF SerialInv, Serialised, LoopFree, OnLoop
  <2>6. CopiesFresh'
    BY <2>4, <2>5 DEF CopiesFresh
  <2>7. QED
    BY <2>1, <2>3, <2>6 DEF SerialInv, OneOnLoop, OneRecordGrows
<1>5. QED
  BY <1>3, <1>4 DEF HandlerStep

\* ... initially, with no copy in flight ...
LEMMA InitSerial == Init => SerialInv
<1> SUFFICES ASSUME Init PROVE SerialInv
  OBVIOUS
<1>1. /\ \A p \in Polls : poll[p].pc = "idle"
      /\ \A w \in Handlers : handler[w].pc = "idle"
  BY IdleOK DEF Init
<1>2. Serialised /\ OneOnLoop
  BY <1>1 DEF Serialised, LoopFree, OnLoop, OneOnLoop
<1>3. CopiesFresh
  BY <1>1 DEF CopiesFresh
<1>4. QED
  BY <1>2, <1>3 DEF SerialInv

\* ... and through every step that keeps writes serialised.
LEMMA NextSerial ==
    IInv /\ SerialInv /\ [Next /\ Serialised']_vars => SerialInv' /\ OneRecordGrows
<1> SUFFICES ASSUME IInv, SerialInv, [Next /\ Serialised']_vars
             PROVE  SerialInv' /\ OneRecordGrows
  OBVIOUS
<1>1. Serialised'
  BY DEF SerialInv, Serialised, LoopFree, vars
<1>2. ASSUME NEW p \in Polls, NEW c \in Connectors, NEW stream \in Streams,
             PollConnector(p, c, stream)
      PROVE  SerialInv' /\ OneRecordGrows
  <2>1. /\ poll'[p].pc = "fetching" /\ UNCHANGED <<hyps, handler>>
        /\ \A q \in Polls : q # p => poll'[q] = poll[q]
    BY <1>2 DEF PollConnector, IInv, TypeOK, IdlePoll
  <2>2. QED
    BY <1>1, <2>1, QuietCopies DEF OneRecordGrows, OnLoop
<1>3. CASE UNCHANGED <<hyps, poll, handler>>
  BY <1>1, <1>3 DEF SerialInv, OneOnLoop, CopiesFresh, Unresolved, Stored, OneRecordGrows
<1>4. CASE Crash
  <2>1. /\ \A p \in Polls : poll'[p].pc = "idle"
        /\ \A w \in Handlers : handler'[w].pc = "idle"
        /\ hyps' = hyps
    BY <1>4, IdleOK DEF Crash
  <2>2. OneOnLoop'
    BY <2>1 DEF OnLoop, OneOnLoop
  <2>3. CopiesFresh'
    BY <2>1 DEF CopiesFresh
  <2>4. QED
    BY <1>1, <2>1, <2>2, <2>3 DEF SerialInv, OneRecordGrows
<1>5. ASSUME NEW e \in Events, Publish(e) PROVE SerialInv' /\ OneRecordGrows
  BY <1>3, <1>5 DEF Publish
<1>6. ASSUME NEW p \in Polls, PollRaises(p) PROVE SerialInv' /\ OneRecordGrows
  <2>1. /\ poll'[p].pc = "idle" /\ UNCHANGED <<hyps, handler>>
        /\ \A q \in Polls : q # p => poll'[q] = poll[q]
    BY <1>6, IdleOK DEF PollRaises, EndPoll, IInv, TypeOK
  <2>2. QED
    BY <1>1, <2>1, QuietCopies DEF OneRecordGrows, OnLoop
<1>7. QED
  BY <1>1, <1>2, <1>3, <1>4, <1>5, <1>6, PollStepSerial, HandlerStepSerial
     DEF Next, Tick, StartWatchPack, vars

\* An unresolved record grows, whatever replaces it.
LEMMA UnresolvedGrows ==
    ASSUME IInv, OneRecordGrows, NEW id \in HypothesisIds, Unresolved(id)
    PROVE  Grows(hyps'[id], hyps[id])
<1>1. hyps[id] \in Hypotheses
  BY DEF IInv, TypeOK, Unresolved, Stored
<1>2. CASE hyps'[id] = hyps[id]
  BY <1>1, <1>2, GrowsItself
<1>3. CASE hyps'[id] # hyps[id]
  <2>1. PICK copy \in Hypotheses : Replaces(id, copy)
    BY <1>3 DEF OneRecordGrows, Replaces, IInv, TypeOK
  <2>2. hyps'[id] = copy
    BY <2>1 DEF Replaces, IInv, TypeOK
  <2>3. QED
    BY <2>1, <2>2 DEF Replaces
<1>4. QED
  BY <1>2, <1>3

\* Where writes are serialised, no write drops an entry of the trail of an
\* unresolved record or a signal attached to it.
THEOREM NothingIsDropped == SerialSpec => OpenRecordOnlyGrows
<1>1. IInv /\ OneRecordGrows =>
        \A id \in HypothesisIds : Stored(id) /\ hyps[id].state # Resolved =>
              /\ Extends(hyps'[id].audit, hyps[id].audit)
              /\ hyps[id].signals \subseteq hyps'[id].signals
  BY UnresolvedGrows DEF Grows, Unresolved
<1>2. [Next /\ Serialised']_vars => [Next]_vars
  OBVIOUS
<1>3. QED
  BY <1>1, <1>2, InitIInv, NextIInv, InitSerial, NextSerial, PTL
     DEF SerialSpec, OpenRecordOnlyGrows

\* Where writes are serialised, a confirmation is never undone: what the comment
\* at live_service.py:351 says holds of the tables, and only a stale copy breaks it.
THEOREM ConfirmedUndisturbed == SerialSpec => ConfirmedStays
<1>1. IInv /\ OneRecordGrows =>
        \A id \in HypothesisIds :
              Stored(id) /\ hyps[id].state = Confirmed => hyps'[id].state = Confirmed
  <2> SUFFICES ASSUME IInv, OneRecordGrows, NEW id \in HypothesisIds,
                      Stored(id), hyps[id].state = Confirmed
               PROVE  hyps'[id].state = Confirmed
    OBVIOUS
  <2>1. Unresolved(id)
    BY DEF Unresolved, Confirmed, Resolved
  <2>2. QED
    BY <2>1, UnresolvedGrows, FinalAndFirst DEF Grows
<1>2. [Next /\ Serialised']_vars => [Next]_vars
  OBVIOUS
<1>3. QED
  BY <1>1, <1>2, InitIInv, NextIInv, InitSerial, NextSerial, PTL
     DEF SerialSpec, ConfirmedStays

\* The states that HypothesisLifecycle sees.
StatusOf == [id \in HypothesisIds |->
                IF Stored(id) THEN hyps[id].state ELSE NoHypothesis]

\* The abstract tables are the ones the records are moved by.
LEMMA SameTables ==
    /\ Lifecycle!AUTO_TRANSITIONS = AUTO_TRANSITIONS
    /\ Lifecycle!HUMAN_TRANSITIONS = HUMAN_TRANSITIONS
    /\ Lifecycle!STATES = STATES
    /\ Lifecycle!Unconfirmed = Unconfirmed
    /\ Lifecycle!Resolved = Resolved
BY DEF Lifecycle!AUTO_TRANSITIONS, AUTO_TRANSITIONS, Lifecycle!HUMAN_TRANSITIONS,
       HUMAN_TRANSITIONS, Lifecycle!STATES, STATES,
       Unconfirmed, Observed, Corroborated, Relevant, Contested, Resolved, Confirmed,
       Lifecycle!Unconfirmed, Lifecycle!Observed, Lifecycle!Corroborated,
       Lifecycle!Relevant, Lifecycle!Contested, Lifecycle!Resolved, Lifecycle!Confirmed

\* A replacement is one move of the lifecycle, a creation, or no change of state.
LEMMA ReplacementIsAMove ==
    ASSUME IInv, NEW CONSTANT id \in HypothesisIds, NEW CONSTANT copy \in Hypotheses,
           Replaces(id, copy)
    PROVE  Lifecycle!Next \/ StatusOf' = StatusOf
<1>1. hyps \in [HypothesisIds -> Hypotheses \cup {NoHypothesis}]
  BY DEF IInv, TypeOK
<1>2. copy # NoHypothesis /\ copy.state \in STATES
  BY NoHypothesisAssumption DEF Hypotheses
<1>3. StatusOf' = [StatusOf EXCEPT ![id] = copy.state]
  <2>1. /\ hyps'[id] = copy
        /\ \A other \in HypothesisIds : other # id => hyps'[other] = hyps[other]
    BY <1>1 DEF Replaces
  <2>2. \A other \in HypothesisIds :
           StatusOf'[other] = IF other = id THEN copy.state ELSE StatusOf[other]
    BY <1>2, <2>1 DEF StatusOf, Stored
  <2>3. /\ StatusOf' = [other \in HypothesisIds |-> StatusOf'[other]]
        /\ StatusOf = [other \in HypothesisIds |-> StatusOf[other]]
    BY DEF StatusOf
  <2>4. QED
    BY <2>2, <2>3
<1>4. CASE Stored(id) /\ Grows(copy, hyps[id])
  <2>1. StatusOf[id] = hyps[id].state
    BY <1>4 DEF StatusOf
  <2>2. CASE copy.state = hyps[id].state
    <3>1. StatusOf = [other \in HypothesisIds |-> StatusOf[other]]
      BY DEF StatusOf
    <3>2. QED
      BY <1>3, <2>1, <2>2, <3>1
  <2>3. CASE <<hyps[id].state, copy.state>> \in Steps
    <3>1. Lifecycle!Move(id)
      BY <1>2, <1>3, <2>1, <2>3, SameTables DEF Lifecycle!Move, Steps, StatusOf
    <3>2. QED
      BY <3>1 DEF Lifecycle!Next
  <2>4. QED
    BY <1>4, <2>2, <2>3 DEF Grows
<1>5. CASE ~ Unresolved(id) /\ Grows(copy, NewHypothesis)
  <2>1. StatusOf[id] \in {NoHypothesis, Resolved}
    BY <1>5 DEF StatusOf, Unresolved
  <2>2. copy.state = Unconfirmed \/ <<Unconfirmed, copy.state>> \in AUTO_TRANSITIONS
    BY <1>5, FinalAndFirst DEF Grows, NewHypothesis
  <2>3. Lifecycle!Create(id)
    BY <1>2, <1>3, <2>1, <2>2, SameTables DEF Lifecycle!Create, StatusOf
  <2>4. QED
    BY <2>3 DEF Lifecycle!Next
<1>6. QED
  BY <1>4, <1>5 DEF Replaces

\* Where writes are serialised, the stored records implement HypothesisLifecycle:
\* one legal transition at a time, whoever writes and wherever a crash cuts in.
THEOREM ImplementsLifecycle == SerialSpec => RefinesLifecycle
<1>1. Init => Lifecycle!Init
  BY DEF Init, Lifecycle!Init, Stored
<1>2. IInv /\ OneRecordGrows =>
        [Lifecycle!Next]_[id \in HypothesisIds |->
                             IF Stored(id) THEN hyps[id].state ELSE NoHypothesis]
  <2> SUFFICES ASSUME IInv, OneRecordGrows PROVE [Lifecycle!Next]_StatusOf
    BY DEF StatusOf
  <2>1. CASE hyps' = hyps
    BY <2>1 DEF StatusOf, Stored
  <2>2. CASE \E id \in HypothesisIds, copy \in Hypotheses : Replaces(id, copy)
    BY <2>2, ReplacementIsAMove
  <2>3. QED
    BY <2>1, <2>2 DEF OneRecordGrows
<1>3. [Next /\ Serialised']_vars => [Next]_vars
  OBVIOUS
<1>4. QED
  BY <1>1, <1>2, <1>3, InitIInv, NextIInv, InitSerial, NextSerial, PTL
     DEF SerialSpec, RefinesLifecycle, Lifecycle!Spec
=============================================================================
