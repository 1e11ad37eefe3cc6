----------------------------- MODULE LivePipeline -----------------------------
(***************************************************************************)
(* The live intelligence pipeline of backend/verine/api/live_service.py:   *)
(* poll a connector, keep what is new, compile it into a hypothesis, run   *)
(* the analysis; while humans confirm, contest and resolve hypotheses.     *)
(*                                                                         *)
(* Two kinds of process share the file store.  A POLL is a coroutine on    *)
(* the one event loop: it may be suspended only at its one await (the      *)
(* fetch), so at most one poll is past its fetch at a time.  A HANDLER is  *)
(* a plain `def` endpoint in the thread pool: it runs between any two      *)
(* steps of anything.  The store has no lock and no transaction: every     *)
(* put replaces a whole document, and each put is a step of this model, so *)
(* a document read earlier may be stale when it is written back.           *)
(*                                                                         *)
(* A signal id is derived from connector, source event and content hash;   *)
(* here it is the pair [event, hash].  An event belongs to one connector,  *)
(* its hash is the version its source last published.  A hypothesis id is  *)
(* derived from its pack and the second its first signal was retrieved.    *)
(***************************************************************************)
EXTENDS HypothesisState

CONSTANTS
    Connectors,
    Events,       \* the source events that exist
    Source,       \* event -> the connector whose feed lists it
    Group,        \* connector -> its source independence group
    Strength,     \* connector -> "weak" or "strong"
    Packs,
    Matching,     \* pack -> the events its aliases and geographies resolve to a node
    Streams,      \* values a poll's watch_pack_id takes: packs, or Global for none
    Global,
    Polls,        \* coroutines that may poll
    Handlers,     \* thread pool workers
    Users,        \* names a caller of the API may give as actor
    NoHypothesis,
    Window,       \* correlation_window_minutes, in ticks
    MaxVersion, MaxTime, MaxFaults  \* bounds of the model, not of the code

SignalIds == [event : Events, hash : 1 .. MaxVersion]
HypothesisIds == Packs \X (0 .. MaxTime)

ASSUME PipelineAssumption ==
    /\ Connectors # {}
    /\ Global \notin Packs
    /\ Streams \subseteq Packs \cup {Global}
    /\ System \notin Users
    /\ Source \in [Events -> Connectors]
    /\ Group \in [Connectors -> STRING]
    /\ Strength \in [Connectors -> {"weak", "strong"}]
    /\ Matching \in [Packs -> SUBSET Events]
    /\ Window \in Nat /\ MaxTime \in Nat /\ MaxVersion \in Nat
    /\ MaxFaults \in Nat

Hypotheses ==
    [state    : STATES,
     signals  : SUBSET SignalIds,
     audit    : Seq([from : STATES, to : STATES, actor : Users \cup {System}]),
     analysed : BOOLEAN]

ASSUME NoHypothesisAssumption == NoHypothesis \notin Hypotheses

VARIABLES
    feed,      \* event -> version its source currently publishes, 0 for none
    cursor,    \* connector -> its stored cursor
    signals,   \* signal ids in the store (their evidence is stored with them)
    announced, \* signal id -> number of signal_observed/updated events, up to 2
    hyps,      \* hypothesis id -> the stored record
    poll,      \* coroutine -> what it is doing
    handler,   \* worker -> what it is doing
    now,
    supervised, \* the packs whose polling loop (_supervise) is running
    dropped,   \* signals in hand when a poll was cut short, by an exception or a crash
    faults     \* how many exceptions and crashes there have been

outcome == <<supervised, dropped, faults>>
vars == <<feed, cursor, signals, announced, hyps, poll, handler, now, outcome>>
-------------------------------------------------------------------------------
(* Cursors and the delta of one poll.  A response is the function that gives *)
(* each listed event its hash and every other event 0; it is its own entity  *)
(* tag.  The bound of 500 entries is modelled in DeltaEngine: the feeds here *)
(* are shorter.                                                              *)

Listing == [Events -> 0 .. MaxVersion]
Nothing == [e \in Events |-> 0]
NewCursor == [seen |-> Nothing, etag |-> Nothing]

Response(c) == [e \in Events |-> IF Source[e] = c THEN feed[e] ELSE 0]

\* Deltas that go wrong: one looks at the event id only, one suppresses nothing.
FreshEventsOnly(response, seen) ==
    {s \in SignalIds : response[s.event] = s.hash /\ seen[s.event] = 0}

EverythingFresh(response, seen) ==
    {s \in SignalIds : response[s.event] = s.hash}

\* The signals a delta does not suppress: an unseen event, or a changed hash.
Fresh(response, seen) ==
    {s \in SignalIds : response[s.event] = s.hash /\ seen[s.event] # s.hash}

Seen(response, seen) ==
    [e \in Events |-> IF response[e] > 0 THEN response[e] ELSE seen[e]]
-------------------------------------------------------------------------------
(* Processes *)

IdlePoll == [pc |-> "idle", connector |-> CHOOSE c \in Connectors : TRUE,
             stream |-> Global, base |-> NewCursor, at |-> 0,
             todo |-> {}, fresh |-> {}, id |-> << >>, copy |-> NoHypothesis]

IdleHandler == [pc |-> "idle", id |-> << >>, copy |-> NoHypothesis]

\* The poll that has passed its fetch holds the event loop until it ends.
OnLoop == {"storing", "compiling", "writing", "analysing", "merging"}
LoopFree == \A p \in Polls : poll[p].pc \notin OnLoop

Init ==
    /\ feed = [e \in Events |-> 0]
    /\ cursor = [c \in Connectors |-> NewCursor]
    /\ signals = {}
    /\ announced = [s \in SignalIds |-> 0]
    /\ hyps = [h \in HypothesisIds |-> NoHypothesis]
    /\ poll = [p \in Polls |-> IdlePoll]
    /\ handler = [w \in Handlers |-> IdleHandler]
    /\ now = 0
    /\ supervised = Packs
    /\ dropped = {}
    /\ faults = 0

Stored(id) == hyps[id] # NoHypothesis
EndPoll(p) == poll' = [poll EXCEPT ![p] = IdlePoll]

\* What a poll has taken over from its response and not yet brought into a record.
InHand(p) == poll[p].todo \cup
             (IF poll[p].pc \in {"storing", "compiling", "writing"} THEN poll[p].fresh ELSE {})
-------------------------------------------------------------------------------
(* poll_connector, up to the storing of signals *)

\* The configuration and the cursor are read before the fetch is awaited.
PollConnector(p, c, stream) ==
    /\ LoopFree /\ poll[p].pc = "idle"
    /\ poll' = [poll EXCEPT ![p] = [IdlePoll EXCEPT !.pc = "fetching",
                                                    !.connector = c,
                                                    !.stream = stream,
                                                    !.base = cursor[c]]]
    /\ UNCHANGED <<feed, cursor, signals, announced, hyps, handler, now, outcome>>

\* A disabled connector, an HTTP error, a time-out, an oversized body, or the
\* supervisor cancelled while it waits: nothing has been written.
FetchFails(p) ==
    /\ LoopFree /\ poll[p].pc = "fetching"
    /\ EndPoll(p)
    /\ UNCHANGED <<feed, cursor, signals, announced, hyps, handler, now, outcome>>

\* 304: the cursor read before the fetch is written back.
NotModified(p) ==
    LET c == poll[p].connector IN
    /\ LoopFree /\ poll[p].pc = "fetching"
    /\ Response(c) # Nothing /\ poll[p].base.etag = Response(c)
    /\ cursor' = [cursor EXCEPT ![c] = poll[p].base]
    /\ EndPoll(p)
    /\ UNCHANGED <<feed, signals, announced, hyps, handler, now, outcome>>

\* The delta is taken against the cursor read before the fetch, and the cursor
\* is saved before any signal is.
Fetched(p) ==
    LET c == poll[p].connector
        seen == poll[p].base.seen
    IN
    /\ LoopFree /\ poll[p].pc = "fetching"
    /\ cursor' = [cursor EXCEPT ![c] = [seen |-> Seen(Response(c), seen),
                                        etag |-> Response(c)]]
    /\ poll' = [poll EXCEPT ![p].pc = "storing",
                            ![p].base = NewCursor,
                            ![p].at = now,
                            ![p].todo = Fresh(Response(c), seen)]
    /\ UNCHANGED <<feed, signals, announced, hyps, handler, now, outcome>>

\* Evidence, signal and announcement of one fresh signal.
StoreSignal(p, s) ==
    /\ poll[p].pc = "storing" /\ s \in poll[p].todo
    /\ signals' = signals \cup {s}
    /\ announced' = [announced EXCEPT ![s] = IF @ < 2 THEN @ + 1 ELSE 2]
    /\ poll' = [poll EXCEPT ![p].todo = @ \ {s}, ![p].fresh = @ \cup {s}]
    /\ UNCHANGED <<feed, cursor, hyps, handler, now, outcome>>

\* Compile only for a pack, and only if something was stored.
SignalsStored(p) ==
    /\ poll[p].pc = "storing" /\ poll[p].todo = {}
    /\ IF poll[p].stream # Global /\ poll[p].fresh # {}
       THEN poll' = [poll EXCEPT ![p].pc = "compiling"]
       ELSE EndPoll(p)
    /\ UNCHANGED <<feed, cursor, signals, announced, hyps, handler, now, outcome>>
-------------------------------------------------------------------------------
(* _compile *)

Open(id, pack, at) ==
    /\ Stored(id) /\ id[1] = pack
    /\ hyps[id].state # Resolved
    /\ id[2] <= at /\ at <= id[2] + Window

NewestOpen(id, pack, at) ==
    /\ Open(id, pack, at)
    /\ \A other \in HypothesisIds : Open(other, pack, at) => other[2] <= id[2]

NewHypothesis == [state |-> Unconfirmed, signals |-> {}, audit |-> << >>,
                  analysed |-> FALSE]

Evidence(ids) == {[group    |-> Group[Source[s.event]],
                   strength |-> Strength[Source[s.event]]] : s \in ids}

\* Compilers that go wrong: one moves the state whether or not it may, one
\* forgets what was attached before.
ForcedCompiled(hyp, matched) ==
    LET attached == hyp.signals \cup matched
    IN  Transition([hyp EXCEPT !.signals = attached],
                   QuorumTarget(Evidence(attached), attached # {}, FALSE), System)

CompiledAfresh(hyp, matched) ==
    LET target == QuorumTarget(Evidence(matched), matched # {}, FALSE)
        grown  == [hyp EXCEPT !.signals = matched]
    IN  IF CanTransition(grown, target, System)
        THEN Transition(grown, target, System) ELSE grown

\* Attach, recompute the quorum over everything attached (a node match is
\* attached with its signal, contradictions are never set by the pipeline), and
\* move if the system may; a refused move is swallowed.
Compiled(hyp, matched) ==
    LET attached == hyp.signals \cup matched
        grown    == [hyp EXCEPT !.signals = attached]
        target   == QuorumTarget(Evidence(attached), attached # {}, FALSE)
    IN  IF CanTransition(grown, target, System)
        THEN Transition(grown, target, System) ELSE grown

UnfilteredMatched(p) == poll[p].fresh

Matched(p) == {s \in poll[p].fresh : s.event \in Matching[poll[p].stream]}

CompileNothing(p) ==
    /\ poll[p].pc = "compiling" /\ Matched(p) = {}
    /\ EndPoll(p)
    /\ UNCHANGED <<feed, cursor, signals, announced, hyps, handler, now, outcome>>

CompileIntoUnattached(p, id, hyp) ==
    /\ poll' = [poll EXCEPT ![p].pc = "writing", ![p].id = id, ![p].copy = hyp]
    /\ UNCHANGED <<feed, cursor, signals, announced, hyps, handler, now, outcome>>

CompileInto(p, id, hyp) ==
    /\ poll' = [poll EXCEPT ![p].pc = "writing", ![p].id = id,
                            ![p].copy = Compiled(hyp, Matched(p))]
    /\ UNCHANGED <<feed, cursor, signals, announced, hyps, handler, now, outcome>>

CompileOpen(p, id) ==
    /\ poll[p].pc = "compiling" /\ Matched(p) # {}
    /\ NewestOpen(id, poll[p].stream, poll[p].at)
    /\ CompileInto(p, id, hyps[id])

CompileNewKeyedByEnd(p) ==
    /\ poll[p].pc = "compiling" /\ Matched(p) # {}
    /\ ~ \E id \in HypothesisIds : Open(id, poll[p].stream, poll[p].at)
    /\ CompileInto(p, <<poll[p].stream, poll[p].at + Window>>, NewHypothesis)

CompileNew(p) ==
    /\ poll[p].pc = "compiling" /\ Matched(p) # {}
    /\ ~ \E id \in HypothesisIds : Open(id, poll[p].stream, poll[p].at)
    /\ CompileInto(p, <<poll[p].stream, poll[p].at>>, NewHypothesis)

\* The record goes back whole, whatever was stored since it was read.  The
\* analysis runs if the state asks for it and the hourly limit allows it.
WriteHypothesis(p) ==
    /\ poll[p].pc = "writing"
    /\ hyps' = [hyps EXCEPT ![poll[p].id] = poll[p].copy]
    /\ \/ EndPoll(p)
       \/ /\ poll[p].copy.state \in {Relevant, Corroborated}
          /\ poll' = [poll EXCEPT ![p].pc = "analysing", ![p].copy = NoHypothesis]
    /\ UNCHANGED <<feed, cursor, signals, announced, handler, now, outcome>>

\* _run_analysis re-reads the record after the simulation ...
AnalysisRead(p) ==
    /\ poll[p].pc = "analysing"
    /\ poll' = [poll EXCEPT ![p].pc = "merging",
                            ![p].copy = [hyps[poll[p].id] EXCEPT !.analysed = TRUE]]
    /\ UNCHANGED <<feed, cursor, signals, announced, hyps, handler, now, outcome>>

\* ... and writes it back with the case.
AnalysisWrite(p) ==
    /\ poll[p].pc = "merging"
    /\ hyps' = [hyps EXCEPT ![poll[p].id] = poll[p].copy]
    /\ EndPoll(p)
    /\ UNCHANGED <<feed, cursor, signals, announced, handler, now, outcome>>

\* No component to simulate.
NothingToSimulate(p) ==
    /\ poll[p].pc = "analysing"
    /\ EndPoll(p)
    /\ UNCHANGED <<feed, cursor, signals, announced, hyps, handler, now, outcome>>
-------------------------------------------------------------------------------
(* Exceptions and supervisors *)

\* Whatever follows the fetch may raise: a body that does not parse, a put or an
\* append that fails, a pack or a snapshot that is gone, the simulation.  What was
\* written stays, the cursor with it.  Only a VerineError is caught around a poll;
\* any other exception ends the supervisor of the pack, unless the poll was made
\* by hand.
PollRaises(p) ==
    /\ faults < MaxFaults
    /\ \/ LoopFree /\ poll[p].pc = "fetching"
       \/ poll[p].pc \in OnLoop
    /\ EndPoll(p)
    /\ faults' = faults + 1
    /\ dropped' = dropped \cup InHand(p)
    /\ supervised' \in {supervised, supervised \ {poll[p].stream}}
    /\ UNCHANGED <<feed, cursor, signals, announced, hyps, handler, now>>

\* Nothing but a new start brings an ended supervisor back.
StartWatchPack(pack) ==
    /\ supervised' = supervised \cup {pack}
    /\ UNCHANGED <<feed, cursor, signals, announced, hyps, poll, handler, now,
                   dropped, faults>>
-------------------------------------------------------------------------------
(* hypothesis_action: confirm, contest, resolve *)

HandlerReads(w, id, target, actor) ==
    /\ handler[w].pc = "idle" /\ Stored(id)
    /\ CanTransition(hyps[id], target, actor)
    /\ handler' = [handler EXCEPT ![w] =
                      [pc |-> "writing", id |-> id,
                       copy |-> Transition(hyps[id], target, actor)]]
    /\ UNCHANGED <<feed, cursor, signals, announced, hyps, poll, now, outcome>>

HandlerWrites(w) ==
    /\ handler[w].pc = "writing"
    /\ hyps' = [hyps EXCEPT ![handler[w].id] = handler[w].copy]
    /\ handler' = [handler EXCEPT ![w] = IdleHandler]
    /\ UNCHANGED <<feed, cursor, signals, announced, poll, now, outcome>>
-------------------------------------------------------------------------------
(* The environment *)

Publish(e) ==
    /\ feed[e] < MaxVersion
    /\ feed' = [feed EXCEPT ![e] = @ + 1]
    /\ UNCHANGED <<cursor, signals, announced, hyps, poll, handler, now, outcome>>

Tick ==
    /\ now < MaxTime
    /\ now' = now + 1
    /\ UNCHANGED <<feed, cursor, signals, announced, hyps, poll, handler, outcome>>

\* The process dies and is started again: the store is all that is left, and no
\* supervisor runs.
Crash ==
    /\ faults < MaxFaults
    /\ faults' = faults + 1
    /\ dropped' = dropped \cup UNION {InHand(p) : p \in Polls}
    /\ supervised' = {}
    /\ poll' = [p \in Polls |-> IdlePoll]
    /\ handler' = [w \in Handlers |-> IdleHandler]
    /\ UNCHANGED <<feed, cursor, signals, announced, hyps, now>>

PollStep(p) ==
    \/ FetchFails(p)
    \/ NotModified(p)
    \/ Fetched(p)
    \/ \E s \in SignalIds : StoreSignal(p, s)
    \/ SignalsStored(p)
    \/ CompileNothing(p)
    \/ \E id \in HypothesisIds : CompileOpen(p, id)
    \/ CompileNew(p)
    \/ WriteHypothesis(p)
    \/ AnalysisRead(p)
    \/ AnalysisWrite(p)
    \/ NothingToSimulate(p)

HandlerStep(w) ==
    \/ \E id \in HypothesisIds, target \in {Confirmed, Contested, Resolved},
          actor \in Users \cup {System} : HandlerReads(w, id, target, actor)
    \/ HandlerWrites(w)

Next ==
    \/ \E p \in Polls, c \in Connectors, stream \in Streams :
          PollConnector(p, c, stream)
    \/ \E p \in Polls : PollStep(p)
    \/ \E p \in Polls : PollRaises(p)
    \/ \E pack \in Packs : StartWatchPack(pack)
    \/ \E w \in Handlers : HandlerStep(w)
    \/ \E e \in Events : Publish(e)
    \/ Tick
    \/ Crash

Spec == Init /\ [][Next]_vars

\* Every poll goes on, a supervisor that is running polls every connector of its
\* pack again and again, and a fetch that is tried forever succeeds now and then.
\* Nobody is bound to start an ended supervisor again.
Fairness ==
    /\ \A p \in Polls : WF_vars(PollStep(p))
    /\ \A p \in Polls : SF_vars(Fetched(p) \/ NotModified(p))
    /\ \A c \in Connectors, pack \in Packs :
          WF_vars(pack \in supervised /\ \E p \in Polls : PollConnector(p, c, pack))

FairSpec == Spec /\ Fairness

\* What a lock around every read-modify-write of a record would give: a handler
\* never overlaps the part of a poll that is on the loop, nor another handler.
Serialised ==
    /\ LoopFree \/ \A w \in Handlers : handler[w].pc = "idle"
    /\ \A v, w \in Handlers : v # w => "idle" \in {handler[v].pc, handler[w].pc}

SerialSpec == Init /\ [][Next /\ Serialised']_vars
-------------------------------------------------------------------------------
(* Properties *)

Cursors == [seen : Listing, etag : Listing]

PollRecords == [pc : OnLoop \cup {"idle", "fetching"},
                connector : Connectors, stream : Packs \cup {Global},
                base : Cursors, at : 0 .. MaxTime,
                todo : SUBSET SignalIds, fresh : SUBSET SignalIds,
                id : HypothesisIds \cup {<< >>},
                copy : Hypotheses \cup {NoHypothesis}]

HandlerRecords == [pc : {"idle", "writing"}, id : HypothesisIds \cup {<< >>},
                   copy : Hypotheses \cup {NoHypothesis}]

\* Every variable keeps its type, the copies in flight included.
TypeOK ==
    /\ feed \in [Events -> 0 .. MaxVersion]
    /\ cursor \in [Connectors -> Cursors]
    /\ signals \in SUBSET SignalIds
    /\ announced \in [SignalIds -> 0 .. 2]
    /\ hyps \in [HypothesisIds -> Hypotheses \cup {NoHypothesis}]
    /\ poll \in [Polls -> PollRecords]
    /\ handler \in [Handlers -> HandlerRecords]
    /\ now \in 0 .. MaxTime
    /\ supervised \in SUBSET Packs
    /\ dropped \in SUBSET SignalIds
    /\ faults \in 0 .. MaxFaults

\* An audit trail explains a state: it starts at UNCONFIRMED, each entry starts
\* where the one before ended, each is in one of the two tables, a confirmation
\* was made by somebody other than the compiler, and the last ends in the state.
Explains(audit, state) ==
    /\ \A k \in 1 .. Len(audit) :
          /\ <<audit[k].from, audit[k].to>> \in AUTO_TRANSITIONS \cup HUMAN_TRANSITIONS
          /\ audit[k].to = Confirmed => audit[k].actor # System
          /\ audit[k].from = IF k = 1 THEN Unconfirmed ELSE audit[k - 1].to
    /\ state = IF audit = << >> THEN Unconfirmed ELSE audit[Len(audit)].to

\* Whatever races and crashes happened, the trail of a stored record explains its
\* state, so no record is confirmed without a human (state.py:1-2).
AuditExplainsState ==
    \A id \in HypothesisIds : Stored(id) => Explains(hyps[id].audit, hyps[id].state)

\* A stored hypothesis refers only to stored signals that match its pack: the
\* compiler and the analysis load each attached id and would raise NotFound.
AttachedAreStored ==
    \A id \in HypothesisIds : Stored(id) =>
        \A s \in hyps[id].signals : s \in signals /\ s.event \in Matching[id[1]]

Supported(ids) ==
    \/ \E s \in ids : Strength[Source[s.event]] = "strong"
    \/ \E s, t \in ids : Group[Source[s.event]] # Group[Source[t.event]]

\* A record that has left UNCONFIRMED carries the evidence for it: one strong
\* source or two independent groups, still attached.  A stale write may drop
\* signals, but never the ones the state it writes rests on (quorum.py:3-7).
RelevanceIsSupported ==
    \A id \in HypothesisIds :
        Stored(id) /\ hyps[id].state # Unconfirmed => Supported(hyps[id].signals)

\* What a cursor has seen is in the store, about to be, or was in hand when a poll
\* was cut short: a signal is suppressed forever only when it was kept, or when an
\* exception or a crash came after the cursor, which is saved first.
SeenIsKept ==
    \A c \in Connectors, s \in SignalIds : cursor[c].seen[s.event] = s.hash =>
        s \in signals \cup dropped \/ \E p \in Polls : s \in poll[p].todo

\* No signal is announced twice as new or updated.
AnnouncedOnce == \A s \in SignalIds : announced[s] <= 1

\* A confirmation is never undone: nothing the compiler, the analysis or another
\* handler writes takes a record out of USER_CONFIRMED_IMPACT.
ConfirmedStays ==
    [][\A id \in HypothesisIds :
          Stored(id) /\ hyps[id].state = Confirmed => hyps'[id].state = Confirmed]_vars

Extends(longer, audit) ==
    Len(audit) <= Len(longer) /\ \A k \in 1 .. Len(audit) : longer[k] = audit[k]

\* While it is not resolved, a record only grows: no write drops an entry of its
\* trail or a signal an earlier write attached.
OpenRecordOnlyGrows ==
    [][\A id \in HypothesisIds :
          Stored(id) /\ hyps[id].state # Resolved =>
              /\ Extends(hyps'[id].audit, hyps[id].audit)
              /\ hyps[id].signals \subseteq hyps'[id].signals]_vars

\* Written one at a time, the records move as HypothesisLifecycle says.
Lifecycle == INSTANCE HypothesisLifecycle WITH
    Ids <- HypothesisIds, Absent <- NoHypothesis,
    status <- [id \in HypothesisIds |->
                 IF Stored(id) THEN hyps[id].state ELSE NoHypothesis]

RefinesLifecycle == Lifecycle!Spec

\* While the supervisor of a pack keeps running (once somebody has started it again
\* after the last exception or crash), what a source publishes is eventually attached
\* to one of the hypotheses of the pack, in that version or a later one, unless it was
\* in the hand of a poll that was cut short.
EventuallyAttached ==
    \A pack \in Packs : <>[](pack \in supervised) =>
        \A s \in SignalIds : s.event \in Matching[pack] =>
            (feed[s.event] = s.hash ~>
                \E later \in s.hash .. MaxVersion :
                    LET t == [s EXCEPT !.hash = later]
                    IN  t \in dropped \/ \E at \in 0 .. MaxTime :
                            Stored(<<pack, at>>) /\ t \in hyps[<<pack, at>>].signals)
=============================================================================
