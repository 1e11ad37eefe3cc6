# Verine: a verification project

Verine (`src/backend/verine`) watches external sources, turns what they publish into
signals and hypotheses about an organisation's dependencies, simulates incidents on a
dependency graph and keeps the results as case files. This directory holds TLA+ modules
of its parts, TLC configurations that check them on small instances, and proofs of their
main invariants for every instance. Paths below are relative to `src/backend/verine`
unless they say otherwise.

Check a run with `tlc -config <cfg> <module>` and a proof module with `tlapm <module>.tla`.
`PROJECT.json` lists the components, runs, theorems and hazards, maps every definition to
the lines it stands for, and gives for every property a plausible bug that breaks it. Such a
bug is written next to the definition it would replace (`Fetched` and `FetchedUnarchived`,
`NormalizedDiff` and `DiffOfFigures`); it takes no part in the specification.

## 1. Inventory

The backend is one process: an asyncio event loop and a pool of threads, and the
split decides what can interleave. `async def` endpoints (`poll_connector`,
`poll_watch_pack`, `start_watch_pack`, `llm_complete`, `test_credential`, the event stream)
and the supervisors run on the loop and give it up only at an `await`. Plain `def`
endpoints (confirm/contest/resolve, `pause_watch_pack`, `fork_case`, the ones that create
or change connectors and credentials, all of `api/routes.py`) run on pool threads, between
any two steps of anything else. All of them share one directory of JSON files
(`FileStore`): a `put` replaces one file atomically, and there is no lock and no
transaction over a read and a later write.

| Component | State it keeps | Operations | What is hard about it | What makes it correct |
|---|---|---|---|---|
| Hypothesis state machine (`hypotheses/`) | state, audit trail | `transition`, `compute_quorum` | several writers | the trail explains the state; only a human confirms |
| Live pipeline (`api/live_service.py`, `graph/resolve.py`) | cursors, signals, hypotheses | poll, compile, analyse, confirm, contest, resolve | stale read-modify-writes, exception or crash between two writes, overlapping polls | references resolve, a state keeps its evidence, nothing published is lost |
| Live connectors (`providers/live/`, `evidence/archive.py`) | configuration, cursor with entity tag, archive | create, patch, enable, disable, poll | conditional requests, payloads not understood, filters that change | what is suppressed is stored, a disabled connector is silent |
| Delta engine (`signals/delta.py`) | per connector: event -> hash, at most 500 | `apply_delta` | eviction by insertion order | nothing missed, nothing repeated |
| Event log (`streams/events.py`) | one JSONL file per stream | `append`, `read_since`, `sse_stream` | numbering without a lock, torn lines, reconnecting clients | every client sees every event once, in order |
| Watch packs (`api/live_service.py`) | pack document, task table | create, start, pause, supervise | the table is shared by loop and threads, a cancellation arrives late | no supervisor out of reach, status is true |
| Case store (`api/service.py`, `api/repositories.py`, `cases/`, `analysis/forks.py`) | snapshots, incidents, scenarios, runs, cases, forks | post, compile, run, fork, replay, save, re-seed at start | check-then-replace, several files per request, mutable incidents under immutable cases | references resolve, replays and forks are reproducible |
| LLM budget (`providers/llm/budget.py`) | one document per day | reserve, record | overlapping calls, midnight | limits hold, every answer is booked |
| Credential vault (`vault/`) | credential documents | create, patch, delete, test | one document read and rewritten from loop and threads, a test that waits | a deleted or patched credential stays so |
| LLM calls (`llm_complete`, `providers/llm/`) | runs, announcements | reserve, announce, complete, check the answer, book, store | exception or crash between any two of these, ids by the second | every call accounted for, no unsupported sentence unmarked |
| Propagation engine (`simulation/propagate.py`) | degradation history, attribution | one step of all nodes, the report | lags, rounding, redundancy, actions together, cut pathways | monotone, causal, recovers, explained |
| Structural models (`graph/validate.py`, `models/reachability.py`, `models/capacity_flow.py`) | Kahn's queue, layers, memo | validate, search, evaluate | memo with a cycle guard, parallel edges, ids given twice | exact acceptance and radius, memo solves its equations |
| Analysis mapping and shadow graph (`analysis/mapping.py`, `graph/shadow.py`) | none | signals to components, candidate edges | order of signals | the most severe signal wins, nothing is dropped |
| Containment optimizer (`optimization/`) | the set picked so far | exhaustive and greedy choice | constraints of sets, greedy stops early | chosen sets are feasible, and best where that is promised |
| Monte Carlo, disagreement, unknowns, evidence requests, clock, status (`models/monte_carlo.py`, `evaluation/`, `evidence/value.py`, `analysis/cascade.py`, `cases/runner.py`) | none | assess the results of a run | missing figures, thresholds, a list that is cut | a case is honest about what the models found and did not see |
| Robustness, benchmark, utilities, command line, web interface, database schema | none used by the above | | | — |

**How they interact.** A supervisor (or a request) polls a connector. The connector's
adapter says what a payload holds, the delta engine what of it is new; the pipeline stores
it, announces it in the event log and compiles it into a hypothesis of the pack whose graph
it matches; the quorum moves the hypothesis. A relevant one is mapped to an incident and
simulated, through the case store, on the pack's snapshot: validation, the four models,
the containment search, the assessment, one case. Humans act on hypotheses, fork cases and
replay them at any time, and ask a language model about a hypothesis with a key of the
vault, within the budget. Browsers follow the event log.

## 2. Modules

| Module | Models | Role |
|---|---|---|
| `HypothesisState` | `hypotheses/state.py`, `quorum.py` | operators: tables, audited transition, quorum |
| `HypothesisLifecycle` | what the pipeline promises of a record | abstract specification |
| `LivePipeline` (extends `HypothesisState`) | `poll_connector`, `_compile`, `_run_analysis`, `hypothesis_action` | composes polls, human handlers, feeds, supervisors that end, crashes |
| `DeltaEngine` | `signals/delta.py` with its bound, and a source | detail `LivePipeline` leaves out |
| `LiveConnector` (extends `DeltaEngine`) | one connector: requests, adapters, archive, cursor, configuration | composes polls, patches, a source, crashes |
| `EventLog` | `streams/events.py` and its clients | implements `ReliableStream` |
| `ReliableStream` | exactly-once ordered delivery | abstract specification |
| `WatchPack` | create, start, pause, supervise | |
| `CaseStore` | `FileStore.put`, runs, cases, forks, replays, the fixture | composes workers over one store |
| `LLMBudget` | `budget.py` | actions for the next but one |
| `CredentialVault` | `vault/store.py` and its endpoints | actions for the next |
| `LLMGateway` (extends both) | `llm_complete`, `validation.py` | composes calls, budget, vault, crashes |
| `DependencyGraph` | edges, fractions, redundancy, reference definitions | operators for the ones below |
| `Propagation` | the step loop of `run_propagation` and its report | two simulations side by side |
| `StructuralModels` | validation, reachability, capacity flow | three computations in a row |
| `IncidentMapping` | `analysis/mapping.py`, `graph/shadow.py` | operators |
| `Containment` | `optimization/` without robustness | operators |
| `Assessment` | quantiles (the k-th smallest value by counting), disagreement, unknowns, requests, clock, status | operators |
| `ScenarioRun` (extends the four above) | `execute_scenario` | composes mapping, models, search and assessment |
| `MC*` | | instances for TLC |
| `LivePipelineProofs`, `LiveConnectorProofs`, `EventLogProofs`, `WatchPackProofs`, `CaseStoreProofs`, `LLMGatewayProofs`, `PropagationProofs`, `ScenarioRunProofs` | | theorems and proofs, one module per component; the last one is about the operators and the models `ScenarioRun` composes, too |

**State and actions against the code.**

- `LivePipeline`: `cursor`, `signals`, `hyps` are the collections of the file store;
  `poll[p]` and `handler[w]` are the local variables of a coroutine and of a pool thread,
  with a program counter. Every access to the store is an action, so whatever may come
  between a read and a write does: `PollConnector` reads the cursor, `Fetched` saves it
  (before any signal), `StoreSignal` stores one signal, `CompileOpen`/`CompileNew` read a
  record, `WriteHypothesis` writes it back, `AnalysisRead`/`AnalysisWrite` do so again
  after a simulation, `HandlerReads`/`HandlerWrites` are `hypothesis_action`. `LoopFree`
  says that a poll past its one `await` keeps the loop. `FetchFails` is a `VerineError`,
  which `poll_watch_pack` catches; `PollRaises` is any other exception, a payload that does
  not parse (`JSONDecodeError`) as well as a write that fails while signals are stored, or a
  compile or an analysis runs: it ends the poll and, if a supervisor made it, the
  supervisor, until `StartWatchPack`. `supervised` are the packs whose supervisor runs,
  `dropped` is history: what polls cut short had in hand. Signal ids and hypothesis ids are
  what the code derives them from: (event, content hash) and (pack, second).
- `LiveConnector`: `config`, `cursor`, `archive` and `signals` are documents; `polls[p]`
  is a coroutine, `held[w]` a patch between its read and its write. `PollBegins` reads
  configuration and cursor, `SourceAnswers` lets the source work meanwhile, and one of
  `NotModified`, `FetchFails`, `SchemaDrifts` and `Fetched` then runs on the loop. The
  six adapters (`Statuspage` .. `Rss`) differ in the entries they pick and in what their
  content hash covers. `DeltaEngine` is the comparison and the source: `feed` is what it
  lists, `seen` the dictionary in its insertion order. `noticed`, `lost`, `asked` and
  `blurred` are history.
- `EventLog`: `log` is the file, `AppendReads` the scan for the last number,
  `AppendWrites` the write; `server` is the generator of a connection with its own cursor,
  `client` what a browser holds (`Last-Event-ID` is `last`). `Tear` leaves half a line.
- `WatchPack`: `table` is `_tasks[pack]`; `StartLooks` is the second half of
  `not in _tasks or _tasks[id].done()`, a step of its own because a pause can pop the
  entry in between. `StartRaises` is an announcement that cannot be appended, between the
  status and the table. `PostPack` is `create_watch_pack`, which stores whatever status a
  client gives, over a pack that exists as well. `lost` is a history variable of the model.
- `CaseStore`: each collection is a function from the ids that exist; `PutChecks` and
  `PutReplaces` are the two halves of an immutable `put`; a worker goes through the
  writes of `run_simulation` one by one. Hashes are the content that is hashed. A case id
  is a scenario and an outcome; two contents of an incident can have one outcome. `Crash`
  is also the start that follows it, which writes the incidents of the `Fixture` again;
  `SaveCase` is `POST /cases`, which stores any case under any id, over one that exists,
  whether its scenario and run exist or not. `revised` is history: the ids of graphs and
  incidents whose content was replaced and of cases a client posted.
- `LLMGateway`: `doc` holds the budget documents by day, `vault` the credentials,
  `call[c]` what a waiting `llm_complete` holds, `runs` the stored answers by id (subject
  and second). A call goes through its writes one by one: `StartCall` reserves,
  `AnnounceStart` appends `llm_started` and waits for the provider; then `FailCall`, or
  `BookAnswer` (check and booking), `StoreRun` and `AnnounceEnd`. `busy` is the call between
  two of these, which has the event loop. `StartRaises`, `CheckRaises` and `EndRaises` are
  exceptions, at an append, a put or in the check; `lost` counts the calls they and a crash
  cut off. `CredentialVault` splits `update` and
  `record_test` into `Read` and `WriteBack`. `admitted` and `bills` are what really
  happened, `asked` is the document the answered requests add up to.
- `Propagation`: `history[r][k]` is `history[...][k]` of the code, `cause` is
  `attribution`, `first` is `first_impact` as a step number. Fractions of 1 are integers
  out of `Unit`; `weight` is criticality times capacity fraction, `severity` includes the
  multiplier of the mode, `Remaining` the product of the damping of the effective
  actions. A step only reads earlier steps, so the topological order in which the code
  visits nodes does not matter and one action computes all nodes. The last action is the
  report: impact events, the strongest pathways, the metrics.
- `StructuralModels`: `KahnStep`, `Search`, `Flow` are one iteration of the three loops;
  `input.listed` says how often the snapshot lists each node, and `Malformed` is every reason
  to reject it other than a circle; `Visit` is the recursive `availability`, a function of the nodes above it on the stack,
  the node and the memo; `Bottleneck` is the chain of explanations.
- `ScenarioRun`: `case` is the input of `execute_scenario`. After the structural models,
  `Optimize` is the exhaustive search, `GreedyRound`/`GreedyEnds` the greedy one with its
  set `picked`, `Assess` everything after it. The propagation engine is taken for what the
  run `propagation` checks of it: `Simulated` damages nodes within the blast radius only;
  `onPathway` are the nodes of the three worst pathways, any of the affected ones.

## 3. Runs

| Run | Instance | What it shows |
|---|---|---|
| `races` | `LivePipeline`: 3 weak connectors in 2 groups, 2 polls, a handler, an exception or a crash | types; the trail explains the state; a state beyond UNCONFIRMED keeps its evidence; hypotheses refer to stored signals of their pack |
| `serial` | one poll, 2 handlers, 3 ticks, an exception or a crash, read-modify-writes serialised | announced once, open records only grow, the records implement `HypothesisLifecycle` (so confirmations stay) |
| `progress` | 2 overlapping polls of one connector, 2 versions, 2 exceptions or crashes, fair | what a cursor suppresses is kept unless a poll was cut short with it in hand; once the supervisor keeps running, every other version, or a later one, is attached to a hypothesis |
| `lostconfirm` | one poll, one handler | violation: a confirmation is overwritten (section 6) |
| `connector` | bound 2, feed 2, 3 events, 2 versions, both listing orders, 2 adapters, 2 polls, 2 patching threads, 3 requests, a filter, crashes | what cursor and tag suppress is stored; sources of signals are archived; nothing is repeated; a disabled connector is silent |
| `stream` | one writer, 2 clients, 3 events, one torn write, fair | numbering, exactly-once delivery, `ReliableStream` implemented, everything arrives while the log parses |
| `duplicate_seq` | two writers | violation: two lines with one number (section 6) |
| `start_pause` | 3 supervisors, 2 pauses, packs posted anew at any time, failures of start and supervisor, a restart, fair | no leak, true status, a paused pack falls silent |
| `case_races` | 2 workers, 6 requests, a crash with re-seeding, a snapshot id with 2 contents, a seeded incident id with 3, 2 action sets, 2 weights, cases posted with a foreign scenario or other hashes | references of the service's own records resolve, faithful replay, reproducible forks, immutability of serial requests |
| `gateway` | 2 calls, a credential with 2 keys, a patching thread, a test, days of 3 and hours of 2 ticks, 2 calls an hour, 2 outputs, 7 units of work, an exception at every point, crashes | limit within a day, every call accounted for, the vault holds what was asked, runs are honest |
| `propagation` | 4 nodes, every subset of 5 edges, 4 components, 2 actions, 18 steps, pathways of at most 3 edges, 2 kept | a worse scenario is nowhere better; damage keeps to lags and radius; causes come first; pathways explain; recovery in time |
| `scenario` | 5 nodes, every subset of 8 edges with every hidden subset of 2; snapshots that list a node twice or not, and edges that share an id; 219 lists of signals; decisions over 5 actions, 6 constraints, 4 loss functions; every set of models with 3 replications | validation, radius and memoised flow against their definitions; fair mapping; best containment; hiding is reported; an honest case |

**Why the bounds are enough.** The hazards are between two or three actors around one
document: two polls and one handler give every order of read and write the code has; a third
poll would only repeat a pair. Three connectors of two groups are the least in which "two
sources" and "two groups" differ. Two versions are the least in which a changed hash differs
from a new event. In `stream` the batch limit of 2 is smaller than the 3 events, so a batch
is cut. In `connector` the feed is as long as the bound of the cursor and 3 events pass
through it, so eviction happens; one adapter filters entries (and, with the filter off,
takes them all), the other filters the first ones only, and these are the ways the six
differ; three requests are two polls and a patch, or two patches and a poll, in any order,
and the source changes at any time. In `gateway` a day is not a multiple of an hour, so
windows cross midnight, the limit can be reached, and seven units of work are two calls (two
units each), a patch or a test (a step each) and steps to spare. Calls and keys, and in
`connector` polls and patching threads, are interchangeable, so both runs use symmetry; they
check no liveness. In `case_races` six requests are enough to post a graph, compile, run,
replace the incident, and replay or fork while another request overlaps. In `propagation`
the lags are zero, one step and not multiples of a step, the longest chain and the longest
recovery end within the horizon, each input of a pair (components, actions, hidden edges,
substitutes) differs in some pair, and there are more pathways than are kept; none is as
long as the depth limit. In `scenario` there are parallel edges, a self-loop, a cycle of
dependencies and a circle of substitutes, alone and together; a library of three is searched
exhaustively and one of five greedily; actions exclude each other, cost too much, come too
late, name a target twice, or help only together; and requests for evidence exceed the three
that are shown; no node is a place there, so that rule of the shadow graph does not come
into play. Where the code has 500 entries, 12 actions, 10 requests, 100 records or six
digits, the bound is smaller but on the same side of every comparison.

`CHECK_DEADLOCK FALSE` is set where a run ends by itself: the horizon of a simulation, a
report, a feed with nothing more to publish, a day at its last tick, all requests served.

**Fairness.** `LivePipeline`: a poll on the loop goes on (the loop runs tasks that are
ready); while the supervisor of a pack runs it polls each connector again and again (the
loop of `_supervise`); a fetch that is tried forever succeeds now and then, which is an
assumption about the network and the only strong fairness there. Nothing starts a supervisor
again that an exception or a restart ended: `EventuallyAttached` is about packs whose
supervisor keeps running from some time on (`<>[](pack \in supervised)`). `EventLog`: a
client reconnects (`EventSource` does), a connected one is served, and connections do not
always drop between two frames. `WatchPack`: requests being served go on, and a task gets
its turns because every fetch has a time-out and every sleep is finite; nothing makes a
supervisor fail, a process restart or a request arrive.

## 4. Proofs

All for any values of the constants that satisfy the stated assumptions. `PROJECT.json`
lists the theorems with the property each one states.

- **`LivePipelineProofs`.** `TypeCorrect`, `AuditIsTrue`, `NoDanglingSignal`,
  `NoUnsupportedState`: any connectors, events, packs, polls, handlers and crashes, with
  **no** serialisation of the writes. The properties alone are not inductive: a record is
  written whole from a copy taken earlier. `IInv` therefore says of every copy in flight
  (`PollsSound`, `HandlersSound`) what it says of stored records (`RecordsSound`), and the
  argument is that a copy sound when taken stays sound, because the set of stored signals
  only grows (`SoundMonotone`). `SeenIsNotLost`: what a cursor has seen is stored, on the
  list of a poll that is about to store it, or was in hand when a poll was cut short;
  `SeenSoFar` adds the cursors a poll has read and not yet saved. `AnnouncedApart`: under
  `ApartSpec` (no two polls of one connector overlap) no signal is announced twice;
  `HeardSoFar` bounds what was announced by the cursor and what a cursor has seen by the
  feed, so that a version announced once can never again be new. `AnnouncedAlone` is the
  special case of the run, one polling coroutine. `NothingIsDropped`,
  `ConfirmedUndisturbed`, `ImplementsLifecycle`: under `SerialSpec` (read-modify-writes do
  not overlap). `SerialInv` says that whoever is between a read and a write holds a copy
  with at least the signals and the trail of the stored record and at most one transition
  ahead of it (`CopiesFresh`), and that coroutines on the loop take turns (`OneOnLoop`). The
  refinement maps a record to its state (`StatusOf`); each write is one step of the abstract
  life cycle or none.
- **`EventLogProofs`.** `TypeCorrect`, `Numbered`, `ExactlyOnce`, `Refines`: under
  `OneWriter` (at most one appending thread), for any number of clients, any batch limit,
  drops, crashes and torn writes. The strengthening: an append in flight holds the number
  of the next line (`WriterHoldsNext`), and what is on a wire is exactly the interval
  between what the client has and the server's cursor (`WireIsNext`). In the refinement
  every step of the file, the connections and the clients is a step of the reliable
  stream or leaves its state alone.
- **`WatchPackProofs`.** `TypeCorrect`, `NoLeak`: an entry leaves the table only into the
  hand of a pause, and a new one is put in only where the table is empty or its supervisor
  is done. `StatusTrue` needs `SInv`: a supervisor taken out of the table never comes back
  (`TableIsFresh`), and what a request that overlaps with no other has written so far
  (`OneAtATime`).
- **`CaseStoreProofs`.** `NothingDangles` from `RInv`: what a worker holds between two files
  resolves to stored records (`WorkersResolve`). `NeverReplaced` from `PInv`: as long as no
  two requests overlapped at most one worker is busy (`OneBusy`), so what the first half
  of a `put` saw is still so at the second (`CheckHolds`). `ReplayFaithful` and
  `ForkDeterministic` from `TInv`: as long as nothing a record was made from was revised or
  posted, stored runs, cases and forks, and those a worker is about to store, are functions
  of stored contents.
- **`LLMGatewayProofs`.** `VaultTypeCorrect`, `VaultKeepsWhatWasAsked`: a copy in a
  request's hand is the stored document unless another request read or wrote it meanwhile
  (`CopiesAreCurrent`), and a request that makes a copy stale puts the credential into
  `overlapped` in the same step. `StoredRunsAreHonest`: every waiting call's id is free
  unless it was given twice (`IdsAreFree`), and every stored run is what `Checked` made
  (`RunsAreChecked`). `HourIsLimited` and `NothingUnaccounted` are about the budget, from
  `BudgetIInv`: the document of a day holds, per time, no fewer requests of the last hour
  than were admitted (`HourIsKept`), because what pruning drops is older than the hour; and
  the documents add up to what was answered, and the calls admitted, announced and answered
  to those that ended, wait, hold the loop or were cut off at that point (`Accounts`). These
  are sums, and the lemmas say how a sum over a set changes when one summand does.
- **`LiveConnectorProofs`.** `DisabledIsNotAsked`: as long as no two patches overlapped, the
  stored configuration says what the last answered request asked, and the one copy in
  flight agrees with it. `SuppressionIsCovered` and `SourceIsArchived` from `DataInv`:
  what the stored cursor and every copy of it in a poll would suppress was kept
  (`Vouched`), and a poll that stores has archived the reply it stores from (`PollSound`).
  `NewsIsNew` from `RepeatInv`, for polls that do not overlap: of every event the feed, or
  the reply a poll holds, lists, the cursor has the latest version noticed (`Tracks`). What
  could break it is eviction. Where the source appends, the cursor is in order of
  publication (`Rising`) and lists with one event all later ones, so whatever follows a
  listed event in it is listed too, and there are no more of those than it keeps
  (`Survives`). A poll compares against a listing that may be old by then: what the source
  lists later is the same or newer (`Precedes`), and a cursor that tracks the one tracks
  the other (`TracksLater`). The property is not true of a source that lists more than the
  cursor keeps; looking for the proof showed that, the run has no such source, and the
  property now says so.
- **`PropagationProofs`.** `NeverBetter`: the maximum over dependencies, the product with
  the weights, damping and the rounding of each keep the order of two scenarios, so one
  step does (`HistoryIsMonotone`), and so do the sums and extrema of the report.
  `CausesAreFirst`: `CausesSoFar` says that who is affected was hit or has a cause affected
  at least its lag earlier. `DistanceIsKept`: whoever is degraded at a step is hit or
  depends on someone degraded the lag before (`DamageHasSource`); the iteration that
  computes distances is followed from the hit nodes outwards. `AllRecover`: in a
  graph without cycles, by induction over the nodes in the order of their dependencies, a
  node is clear a longest lag after the last of those it depends on.
  `PathwaysAreCauses`: a pathway found at depth d is a walk of d edges.
- **`ScenarioRunProofs`.** `UnfitIsRejected`: at every step of Kahn's loop the in-degree
  counts the dependents not yet visited (`KahnIsSound`); at the end the rest is empty or
  each of its nodes has a dependent in it, which is a cycle. `IncidentIsFair`: after every
  prefix of the signals each component is the first of the most severe so far
  (`WinnersMapped`). `ChoiceIsBest`: the ranking is a strict total order on candidates
  (`Before`), the exhaustive search has ranked every candidate, and the greedy one has only
  ranked feasible sets that are worth less than what it has picked (`GreedyClimbs`) and ends
  where no addition is feasible and better (`GreedyIsStuck`). `RadiusIsTrue` and
  `FlowIsSolved` from `StructuralIInv`: the layers searched are those of the least set that
  contains the hit nodes and all dependents over shown edges (`SearchOK`), and the memo
  degrades nobody outside it and, without circles of substitutes, solves the equations for
  everything it holds (`MemoOK`). What one call of `Visit` does to the memo is `Promises`,
  by induction on the number of nodes not yet above it. `HidingIsAlwaysReported` and
  `CasesAreHonest` are about the one step that reports: from the invariants above
  (`RunIInv`), what `Assess` starts from is typed and its graph has no cycle (`Settled`), so
  every model's result is a result record (`ResultType`); the lag of a bottleneck chain is a
  number because in such a graph the chains exist (`ChainsExist`). An area is at least the
  difference of any two models, and all of it where one has a figure and the other none
  (`AreasFacts`), and the overall disagreement is at least any area. A quantile interpolates
  between neighbours in rank, ranks are ordered and so are quantiles, also where two of them
  fall between the same neighbours (`PositionFacts`, `BetweenFacts`). Every edge disclosed
  takes 90 off the account of the unknown and returns at most 60 (`EpistemicGrows`).

**Induction over data.** The library's induction theorems take an operator as a parameter,
which no installed prover can instantiate. The modules use instead that a nonempty set of
naturals has a least element, and so that a claim about steps, sizes or depths that fails
has a least failure. `ScenarioRunProofs` states this once (`Least`) and derives
`StepInduction` over steps, `SubsetInduction` over finite sets and `AboveInduction` over the
nodes not yet on a stack, with a set in the place of the predicate. From them follow what
folds (`MapThenSumSet`, `FoldFunction`, the delta over a listing) and recursive functions
compute.

**Assumptions.** The `ASSUME`s of the modules; TLC evaluates them in every run. They type
the constants and say that `System` is no user, `Global` no pack, threads no
coroutines; in `Propagation` that more actions leave no more damage and that the two
inputs of a pair are ordered, which is what the two simulations are chosen for; in
`ScenarioRun` that graphs are finite, that what the propagation engine finds are figures
of the types it returns (`Outcomes`), and that a capability substitutes for nobody (`Spare`
is 0), because `capacity_flow.py` looks substitutes up among the nodes and skips others;
in `Assessment` that `None` is no number.
`OneWriter`, `ApartSpec` and `SerialSpec` are hypotheses of the theorems above that name
them: the code does not guarantee them, and section 6 says what happens without.
The types of `EventLog` and `WatchPack`, and those of the modules whose runs check no
`TypeOK`, are proved and so no run repeats them.

**Only model-checked.** Liveness (`EventuallyAttached`, `EverythingArrives`,
`PausedFallsSilent`), which the provers do not reach; every other property of a passing run
is stated by a theorem. The type invariants of `DeltaEngine`, `LLMBudget` and
`CredentialVault` are part of those of the modules that extend them.

## 5. Hazards

`PROJECT.json` lists them at their lines with the properties that would catch them. Most
are one of: a stale copy written back, two steps taken for one, a crash or failure
between two writes, a bound that forgets, a missing figure taken for a good one, and the
boundary cases of discretised time.

## 6. Where the code does not do what it says

Two runs show a disagreement with the code's own words.

- **`lostconfirm`**: the analysis re-reads the record (`live_service.py:468`) and writes it
  back whole (473), so a confirmation stored by a pool thread in between (405) is undone;
  that is the trace of the run. `_compile` does the same from line 309 to line 369, a longer
  stretch with more chances. Yet the comment at
  `live_service.py:351` says "USER_CONFIRMED stays". `serial` shows on its instance that a
  lock around each read-modify-write would be enough, and `ConfirmedUndisturbed` and
  `ImplementsLifecycle` prove it for every instance: `HypothesisLifecycle`, which the
  records then implement, has no step that takes a confirmation back but a human's.
- **`duplicate_seq`**: `append` scans and then writes without a lock (`events.py:30`; the
  lock table of line 23 is unused), so the loop and a pool thread can write one number
  twice, although `tests/verine/test_live_pipeline.py:87` asserts uniqueness. `stream`
  and the theorems show that one writer would be enough.

The models show more behaviours a maintainer should know, for which properties state what
does hold.

Pipeline and connectors:

- An exception or a crash after the cursor was saved (`live_service.py:146`) suppresses
  signals that were never stored, or never compiled; `SeenIsKept` and `EventuallyAttached`
  except what was in the hand of a poll cut short, `CursorIsCovered` counts it as lost.
- A payload that does not parse raises `JSONDecodeError` from `normalize`
  (`live_service.py:138`). `poll_watch_pack` catches only `VerineError`, so the supervisor of
  the pack ends (258) and nothing is polled for it until somebody starts it again.
- Two overlapping polls take their delta against the same cursor (`live_service.py:112`)
  and announce a signal twice; `AnnouncedOnce` and `NothingRepeated` hold of one poll at a
  time. The one that ends last saves its cursor, which may be the older one; it is
  consistent with its tag all the same.
- A poll for another pack, or for none, consumes what is new for the connector
  (`live_service.py:213`), and this pack never compiles it; `EventuallyAttached` is checked
  with polls of the one pack.
- Changing the terms a connector matches resets neither its tag nor what it has seen
  (`live_service.py:86`): as long as the source answers 304, entries the new terms would
  admit stay unseen. `CursorIsCovered` speaks of the filter the tag was saved under.
- A disable that overlaps another patch is undone by it; `DisabledStaysSilent` excludes
  overlapping patches.
- A payload the adapter does not understand ends a poll without a `connector_error` event;
  the header `Last-Modified` is looked up in a dictionary of lower-cased names
  (`providers/live/base.py`), so only entity tags make a request conditional; and the SEC
  and RSS adapters cut the listing before they filter it.
- A source that lists its newest event first fills the cursor backwards, and eviction
  (`delta.py:34`) drops events still listed, which are announced again. So does a source
  that lists more than the cursor keeps, in any order: the catalogue of `cisa_kev` without
  `match_terms` has more than 500 entries, and every poll not answered with 304 evicts some
  of them and announces them at the next. `NothingRepeated` excludes both once more was
  published than the cursor keeps.
- Hypothesis ids have a resolution of a second (`live_service.py:313`): resolved and
  compiled again within it, the new record replaces the old one and its trail;
  `HypothesisLifecycle` lets a resolved id be opened again, and `OpenRecordOnlyGrows`
  speaks of open records.
- A supervisor or a start that fails, or a restart (`live_service.py:229`, 251-260,
  `app.py:36`), leaves "running" in the pack document, and `POST /watch-packs` stores any
  status, also over a pack that is supervised; `StatusIsTrue` excludes all of them until the
  next start.

Cases:

- Two overlapping puts of one new id both pass the immutability check
  (`repositories.py:39-50`); `Immutable` holds as long as requests do not overlap. Cases
  are not immutable at all: `POST /cases` stores what it gets, over a stored case too, and
  asks neither for its scenario nor for its run. `RecordsResolve` excepts what clients
  posted; `ReplayIsFaithful` says what the replay of such a case tells.
- A fork id leaves out `require_reversible_actions` (`forks.py:59`): an irreversible fork
  is whatever was asked first; `ForkIsDeterministic` speaks of reversible ones.
- A replay uses the default weights (`replay.py:30`): the hashes match, but a case stored
  with other weights replays to another choice; `ReplayIsFaithful` says when the whole
  case is the same.
- Every start writes the incidents of the fixture over those posted under their ids
  (`service.py:48`), so a case stored before stops replaying.

Vault and language models:

- A patch or deletion between the read and the write of `update` or `record_test`
  (`vault/store.py:99`) is lost or undone; `AsLastAsked` names those credentials. A new
  key keeps the verdict of the last test of the old one.
- The flags `enabled` and `usage_budget_cents` of a credential are not looked at by
  `llm_complete`. Calls are reserved without an estimate (`live_service.py:557`), so the
  daily budget never refuses one.
- The rolling hour starts empty at midnight (`budget.py:30`), so an hour across it can
  admit twice the limit. `HourlyLimitWithinDay` and `EveryCallAccounted` are what holds.
- Everything but the provider is outside the `try` of a call (`live_service.py:557-593`): a
  reservation whose announcement fails stands, an answer whose check raises (observations
  that cannot be iterated) is neither booked nor announced, a booked one may go unannounced,
  its run stored or not; `EveryCallAccounted` counts these calls apart, by where they ended.
  Observations that are neither objects nor strings are never marked; `RunsAreHonest`
  excludes them.
- Request ids have a resolution of a second (`live_service.py:550`); `RunsAreHonest` names
  the ids given twice.

Models and assessment:

- The comment at `models/capacity_flow.py:49` says of the cycle guard that the "validator
  forbids cycles anyway". It forbids cycles of dependencies, and the recursion also visits
  substitutes: where substitutes stand in for each other the guard is reached, what is
  computed from it is memoised, and a capability's result depends on which one was computed
  before it. `FlowSolvesEquations` therefore excludes circles of substitutes, and
  `RadiusIsExact` shows that even there nothing outside the radius degrades.
- A pathway longer than the depth limit is dropped altogether (`propagate.py:323`), and a
  capability that never recovers is reported as recovered one step after the horizon;
  `PathwaysExplain` and `Monotone` state what the figures are good for.
- The mapping compares severities before a latency signal is discounted
  (`mapping.py:51`): it can replace a signal that would have stressed the node more, and
  what it replaces is shown nowhere. `MappingIsFair` speaks of severity.
- Hiding an edge raises the reported share of the unknown, as `unknowns.py:3-5` promises,
  but can better the reliability label when a node of low observability drops out of the
  affected ones; `HidingIsReported` compares labels for the same affected nodes. Its
  strict part is about graphs of at most 30 edges, because the model's scores are
  hundredths; beyond that a disclosed edge need not be a whole hundredth.
- The status is "no material impact" whenever the deterministic model was not asked for
  (`runner.py`), whatever the others found.
- An exhaustive choice is the best set with an action in it, also where doing nothing is
  better (only `improves_on_no_action` tells); the greedy search chooses nothing then, and
  misses actions that help only together.
- A request about undisclosed dependencies scores lowest and is the first to be cut
  (`evidence/value.py:109`), and edges of low confidence have none; `CaseIsHonest` states
  what is asked for.

## 7. Not modelled, and why

- `optimization/robustness.py` is called by nothing in the program, and
  `evaluation/benchmark.py` is an offline harness of the command line.
- The loss of a set of actions, and what a replication of the Monte Carlo model finds, are
  inputs of `ScenarioRun`: they are runs of the propagation engine, whose own run covers
  them, over samples whose distribution no property speaks of. The optimizer's engine runs
  ignore the actions a scenario schedules; the instance need not.
- `CaseStore` takes the outcome of a run for a function of the content of its inputs; how it
  comes about is `ScenarioRun`.
- The wire formats of the five language model adapters and the fields an adapter of a
  source parses: their possible results are the environment of `LLMGateway` and
  `LiveConnector`. `list_models` and the streaming variant store nothing; a connector's
  health check writes nothing.
- Encryption of keys, archived payloads once written, `optimize` and the read endpoints:
  they change nothing another operation depends on. Capability documents are written and
  never read by a run.
- Hashing, ids, redaction, time, the command line: pure helpers, modelled by what they are
  derived from where a property depends on it.
- The web interface and the database schema, which the backend does not use.

## 8. Plan

Order of work, most important first; all of it is done.

1. `HypothesisState`, `LivePipeline`, its runs, its invariants proved.
2. `EventLog`, `ReliableStream`, proved for one writer.
3. `WatchPack`, proved.
4. `CaseStore` with restarts, overwritten cases and the fixture.
5. `DependencyGraph`, `Propagation` with its report, `StructuralModels`.
6. `CredentialVault`, `LLMBudget` and `LLMGateway`, the vault and the stored runs proved.
7. `DeltaEngine` and `LiveConnector`, silence of a disabled connector proved.
8. `IncidentMapping`, `Containment`, `Assessment`, composed by `ScenarioRun`.
9. Proofs of the safety properties of every component, of `Immutable`, and of the
   refinements of `ReliableStream` and `HypothesisLifecycle`.
10. Quantiles by rank instead of by sorting, and with them the proofs of `CaseIsHonest` and
    `HidingIsReported`.
