--------------------------- MODULE CaseStoreProofs ---------------------------
(***************************************************************************)
(* The records of the case store resolve, replays and forks tell the       *)
(* truth, and what is immutable stays as long as requests do not overlap:  *)
(* for any numbers of workers, records, requests and restarts.             *)
(***************************************************************************)
EXTENDS CaseStore, TLAPS

\* A fork of this id and case may be stored in a store with these runs and cases, of
\* which those marked were posted by clients.
ForkResolves(id, case, ran, stored, marked) ==
    /\ id.parent \in stored
    /\ case # None =>
          /\ case \in stored \cap ran /\ case.scenario.actions = id.actions
          /\ id.parent \in marked \/ case.scenario = Child(id.parent.scenario, id.actions)

\* A simulation of this scenario may be under way for a fork with this mark.
MarkResolves(mark, scenario, stored, marked) ==
    mark # None =>
        /\ mark.id.parent \in stored /\ scenario.actions = mark.id.actions
        /\ \/ mark.id.parent \in marked
           \/ scenario = Child(mark.id.parent.scenario, mark.id.actions)

\* A case file under this id is a client's, or has its run.
FileResolves(id, file, ran) ==
    ByClient(file) \/ (file.scenario = id.scenario /\ file.hashes = id /\ id \in ran)

\* What a worker holds refers to records that are there.
Resolves(r, compiled, ran, stored, marked) ==
    /\ r.pc = "running" =>
          r.scenario \in compiled /\ MarkResolves(r.fork, r.scenario, stored, marked)
    /\ r.pc \in {"ran", "run stored"} =>
          /\ r.id.scenario \in compiled /\ MarkResolves(r.fork, r.id.scenario, stored, marked)
          /\ r.file.scenario = r.id.scenario /\ r.file.hashes = r.id
    /\ r.pc = "run stored" => r.id \in ran
    /\ r.pc = "simulated" => ForkResolves(r.id, r.doc.case, ran, stored, marked)
    /\ r.pc \in {"putting", "replacing"} /\ r.kind = "fork" =>
          ForkResolves(r.id, r.doc.case, ran, stored, marked)
    /\ r.pc = "replaying" => FileResolves(r.id, r.file, ran)

WorkersResolve == \A w \in Workers : Resolves(worker[w], scenarios, runs, DOMAIN cases, revised)

\* RecordsResolve, strengthened by what is in flight.
RInv == TypeOK /\ RecordsResolve /\ WorkersResolve

\* Unless what they rest on was replaced or posted, a run, a case file and a fork are
\* what the store would make of them now; all of a case file is if it has the default
\* weights, a fork if it need not be reversible, or is.
TrueRun(id) == Unrevised(id.scenario) => id = Outcome(id.scenario)

TrueFile(file) ==
    ~ ByClient(file) /\ Unrevised(file.scenario) =>
        /\ file.hashes = Outcome(file.scenario)
        /\ file.weights = DefaultWeights => file = CaseFile(file.scenario, DefaultWeights)

ForkedCase(id) ==
    IF id.actions \in Feasible THEN Outcome(Child(id.parent.scenario, id.actions)) ELSE None

TrueFork(id, case) ==
    Unrevised(id.parent.scenario) /\ id.parent \notin revised /\ id.actions \in Reversible
        => case = ForkedCase(id)

\* What a worker holds is true in the same sense.
TrueHeld(r) ==
    /\ r.pc \in {"running", "ran", "run stored"} /\ r.fork # None =>
          r.fork.id.actions \in Feasible
    /\ r.pc \in {"ran", "run stored"} => TrueRun(r.id) /\ TrueFile(r.file)
    /\ r.pc = "simulated" => TrueFork(r.id, r.doc.case)
    /\ r.pc \in {"putting", "replacing"} /\ r.kind = "fork" => TrueFork(r.id, r.doc.case)
    /\ r.pc = "replaying" => TrueFile(r.file)

RunsAreTrue == \A id \in runs : TrueRun(id)
CasesAreTrue == \A id \in DOMAIN cases : TrueFile(cases[id])
ForksAreTrue == \A id \in DOMAIN forks : TrueFork(id, forks[id].case)
WorkersAreTrue == \A r \in {worker[w] : w \in Workers} : TrueHeld(r)
AnswerIsTrue ==
    \A a \in {answer} :
        /\ a.kind = "fork" => a.id \in DOMAIN forks /\ TrueFork(a.id, a.case)
        /\ a.kind = "replay" => a.case.scenario \in scenarios

\* ReplayIsFaithful and ForkIsDeterministic, strengthened by the records they rest on.
TInv ==
    /\ RInv
    /\ RunsAreTrue /\ CasesAreTrue /\ ForksAreTrue /\ WorkersAreTrue
    /\ AnswerIsTrue /\ ReplayIsFaithful

\* While requests do not overlap, one worker is busy and what its put has checked
\* is still so.
OneBusy ==
    ~ overlapped => \A v, w \in Workers : worker[v] # Idle /\ worker[w] # Idle => v = w

CheckHolds ==
    ~ overlapped =>
        \A w \in Workers : LET r == worker[w] IN
            /\ r \in Puts /\ r.pc = "replacing" /\ r.id \in DOMAIN snapshots =>
                  snapshots[r.id] = r.doc
            /\ r \in ForkPuts /\ r.pc = "replacing" /\ r.id \in DOMAIN forks =>
                  forks[r.id] = r.doc

PInv == RInv /\ OneBusy /\ CheckHolds
-------------------------------------------------------------------------------
(* Lemmas *)

\* What a put leaves behind (repositories.py put).
LEMMA PutProperties ==
    ASSUME NEW S, NEW T, NEW docs, docs \in [DOMAIN docs -> T], DOMAIN docs \subseteq S,
           NEW id \in S, NEW doc \in T
    PROVE  /\ DOMAIN Put(docs, id, doc) = DOMAIN docs \cup {id}
           /\ DOMAIN Put(docs, id, doc) \subseteq S
           /\ Put(docs, id, doc) \in [DOMAIN Put(docs, id, doc) -> T]
           /\ Put(docs, id, doc)[id] = doc
           /\ \A x \in DOMAIN docs : x # id => Put(docs, id, doc)[x] = docs[x]
BY DEF Put

\* The point a worker is at says what it holds.
LEMMA HoldsByPoint ==
    ASSUME TypeOK, NEW w \in Workers
    PROVE  /\ worker[w].pc \in {"putting", "replacing"} => worker[w] \in Puts \cup ForkPuts
           /\ worker[w].pc = "running" => worker[w] \in Running
           /\ worker[w].pc \in {"ran", "run stored"} => worker[w] \in Ran
           /\ worker[w].pc = "simulated" => worker[w] \in Simulated
           /\ worker[w].pc = "replaying" => worker[w] \in Replaying
<1>1. \/ worker[w] = Idle \/ worker[w] \in Puts \cup ForkPuts \/ worker[w] \in Running
      \/ worker[w] \in Ran \/ worker[w] \in Simulated \/ worker[w] \in Replaying
  BY DEF TypeOK, Held
<1>2. /\ Idle.pc = "idle"
      /\ \A r \in Puts \cup ForkPuts : r.pc \in {"putting", "replacing"}
      /\ \A r \in Running : r.pc = "running"
      /\ \A r \in Ran : r.pc \in {"ran", "run stored"}
      /\ \A r \in Simulated : r.pc = "simulated"
      /\ \A r \in Replaying : r.pc = "replaying"
  BY DEF Idle, Puts, ForkPuts, Running, Ran, Simulated, Replaying
<1>3. QED
  BY <1>1, <1>2

\* A store that only grows keeps what a worker refers to.
LEMMA ResolvesGrows ==
    ASSUME NEW r, NEW compiled, NEW ran, NEW stored, NEW marked,
           Resolves(r, compiled, ran, stored, marked),
           NEW compiled2, compiled \subseteq compiled2, NEW ran2, ran \subseteq ran2,
           NEW stored2, stored \subseteq stored2, NEW marked2, marked \subseteq marked2
    PROVE  Resolves(r, compiled2, ran2, stored2, marked2)
BY DEF Resolves, MarkResolves, ForkResolves, FileResolves

\* A request moves one worker; the others are as they were, in a store that grew.
LEMMA OneMoves ==
    ASSUME TypeOK, WorkersResolve, NEW w \in Workers, NEW STATE to, Goes(w, to),
           scenarios \subseteq scenarios', runs \subseteq runs',
           DOMAIN cases \subseteq DOMAIN cases', revised \subseteq revised',
           Resolves(to, scenarios', runs', DOMAIN cases', revised')
    PROVE  WorkersResolve'
<1> SUFFICES ASSUME NEW v \in Workers
             PROVE  Resolves(worker'[v], scenarios', runs', DOMAIN cases', revised')
  BY DEF WorkersResolve
<1>1. CASE v = w
  <2>1. worker'[v] = to
    BY <1>1 DEF Goes, TypeOK
  <2>2. QED
    BY <2>1
<1>2. CASE v # w
  <2>1. worker'[v] = worker[v]
    BY <1>2 DEF Goes, TypeOK
  <2>2. Resolves(worker[v], scenarios, runs, DOMAIN cases, revised)
    BY DEF WorkersResolve
  <2>3. QED
    BY <2>1, <2>2, ResolvesGrows
<1>3. QED
  BY <1>1, <1>2

\* What a simulation and a fork are made of keeps its type.
LEMMA DerivedTypes ==
    ASSUME TypeOK, RecordsResolve
    PROVE  /\ \A scenario \in scenarios : Outcome(scenario) \in CaseIds
           /\ \A scenario \in scenarios, weights \in Weights :
                 CaseFile(scenario, weights) \in CaseFiles
           /\ \A id \in CaseIds, actions \in ActionSets : ForkId(id, actions) \in ForkIds
           /\ \A scenario \in Scenarios, actions \in ActionSets :
                 /\ Child(scenario, actions) \in Scenarios
                 /\ Child(scenario, actions).graph = scenario.graph
                 /\ Child(scenario, actions).incident = scenario.incident
                 /\ Child(scenario, actions).actions = actions
           /\ \A id \in DOMAIN cases :
                 /\ id \in CaseIds /\ cases[id] \in CaseFiles
                 /\ cases[id].scenario \in Scenarios
                 /\ id \notin revised \/ ~ ByClient(cases[id]) =>
                       /\ id \in runs /\ id.scenario \in scenarios
                       /\ cases[id].scenario = id.scenario /\ cases[id].hashes = id
<1>1. ASSUME NEW scenario \in scenarios
      PROVE  /\ scenario \in Scenarios
             /\ snapshots[scenario.graph] \in GraphContents
             /\ incidents[scenario.incident] \in IncidentContents
  BY DEF TypeOK, RecordsResolve, Compiles
<1>2. \A scenario \in scenarios : Outcome(scenario) \in CaseIds
  BY <1>1 DEF Outcome, CaseIds, Effects
<1>3. \A scenario \in scenarios, weights \in Weights : CaseFile(scenario, weights) \in CaseFiles
  BY <1>1, <1>2 DEF CaseFile, CaseFiles
<1>4. \A id \in CaseIds, actions \in ActionSets : ForkId(id, actions) \in ForkIds
  BY DEF ForkId, ForkIds
<1>5. ASSUME NEW scenario \in Scenarios, NEW actions \in ActionSets
      PROVE  /\ Child(scenario, actions) \in Scenarios
             /\ Child(scenario, actions).graph = scenario.graph
             /\ Child(scenario, actions).incident = scenario.incident
             /\ Child(scenario, actions).actions = actions
  BY DEF Child, Scenarios
<1>6. ASSUME NEW id \in DOMAIN cases
      PROVE  /\ id \in CaseIds /\ cases[id] \in CaseFiles
             /\ cases[id].scenario \in Scenarios
             /\ id \notin revised \/ ~ ByClient(cases[id]) =>
                   /\ id \in runs /\ id.scenario \in scenarios
                   /\ cases[id].scenario = id.scenario /\ cases[id].hashes = id
  <2>1. id \in CaseIds /\ cases[id] \in CaseFiles
    BY DEF TypeOK
  <2>2. cases[id].scenario \in Scenarios
    BY <2>1 DEF CaseFiles
  <2>3. QED
    BY <2>1, <2>2 DEF RecordsResolve
<1>7. QED
  BY <1>2, <1>3, <1>4, <1>5, <1>6

\* Records that stay resolve in a store whose graphs and incidents stay.
LEMMA RecordsStay ==
    ASSUME RecordsResolve, UNCHANGED <<scenarios, runs, cases, forks>>, revised \subseteq revised',
           DOMAIN snapshots \subseteq DOMAIN snapshots',
           DOMAIN incidents \subseteq DOMAIN incidents'
    PROVE  RecordsResolve'
BY DEF RecordsResolve, Compiles

\* The invariant holds initially.
LEMMA InitRInv == Init => RInv
<1> SUFFICES ASSUME Init PROVE RInv
  OBVIOUS
<1>1. TypeOK
  <2>1. Empty \in [DOMAIN Empty -> {}] /\ DOMAIN Empty = {}
    BY DEF Empty
  <2>2. /\ DOMAIN snapshots \subseteq Graphs /\ snapshots \in [DOMAIN snapshots -> GraphContents]
        /\ DOMAIN cases \subseteq CaseIds /\ cases \in [DOMAIN cases -> CaseFiles]
        /\ DOMAIN forks \subseteq ForkIds /\ forks \in [DOMAIN forks -> ForkDocs]
    BY <2>1 DEF Init
  <2>3. DOMAIN incidents \subseteq Incidents /\ incidents \in [DOMAIN incidents -> IncidentContents]
    BY CaseStoreAssumption DEF Init
  <2>4. requests \in 0 .. MaxRequests /\ crashes \in 0 .. MaxCrashes
    BY CaseStoreAssumption DEF Init
  <2>5. worker \in [Workers -> Held]
    BY DEF Init, Held
  <2>6. QED
    BY <2>2, <2>3, <2>4, <2>5 DEF Init, TypeOK
<1>2. RecordsResolve
  BY DEF Init, RecordsResolve, Empty
<1>3. WorkersResolve
  BY DEF Init, WorkersResolve, Resolves, Idle
<1>4. QED
  BY <1>1, <1>2, <1>3 DEF RInv

\* A request that is taken is counted.
LEMMA AcceptTypes ==
    ASSUME TypeOK, NEW w \in Workers, Accept(w)
    PROVE  requests' \in 0 .. MaxRequests /\ overlapped' \in BOOLEAN /\ crashes' = crashes
<1>1. requests' \in 0 .. MaxRequests /\ crashes' = crashes
  <2>1. requests \in 0 .. MaxRequests /\ MaxRequests \in Nat
    BY CaseStoreAssumption DEF TypeOK
  <2>2. requests < MaxRequests /\ requests' = requests + 1 /\ crashes' = crashes
    BY DEF Accept
  <2>3. QED
    BY <2>1, <2>2
<1>2. overlapped' \in BOOLEAN
  <2>1. overlapped' = (overlapped \/ \E v \in Workers : worker[v] # Idle)
    BY DEF Accept
  <2>2. overlapped' = TRUE \/ overlapped' = FALSE
    BY <2>1 DEF TypeOK
  <2>3. QED
    BY <2>2
<1>3. QED
  BY <1>1, <1>2

\* A request that only reads, or writes one document, and is over in its first step.
LEMMA ShortRequests ==
    ASSUME RInv, NEW w \in Workers,
           \/ \E i \in Incidents, content \in IncidentContents : PostIncident(w, i, content)
           \/ \E scenario \in Scenarios : Compile(w, scenario)
           \/ \E post \in ClientCases : SaveCase(w, post)
    PROVE  RInv'
<1>1. /\ requests' \in 0 .. MaxRequests /\ overlapped' \in BOOLEAN /\ crashes' = crashes
      /\ worker' = worker /\ answer' = answer
  <2>1. Accept(w) /\ worker' = worker /\ answer' = answer
    BY DEF PostIncident, Compile, SaveCase
  <2>2. QED
    BY <2>1, AcceptTypes DEF RInv
<1>2. ASSUME NEW i \in Incidents, NEW content \in IncidentContents,
             PostIncident(w, i, content)
      PROVE  RInv'
  <2>1. /\ DOMAIN incidents' = DOMAIN incidents \cup {i} /\ DOMAIN incidents' \subseteq Incidents
        /\ incidents' \in [DOMAIN incidents' -> IncidentContents]
    <3>1. incidents \in [DOMAIN incidents -> IncidentContents] /\ DOMAIN incidents \subseteq Incidents
      BY DEF RInv, TypeOK
    <3>2. incidents' = Put(incidents, i, content)
      BY <1>2 DEF PostIncident
    <3>3. QED
      BY <3>1, <3>2 DEF Put
  <2>2. revised' \subseteq Graphs \cup Incidents \cup CaseIds
    BY <1>2 DEF PostIncident, Revises, RInv, TypeOK
  <2>3. TypeOK'
    BY <1>1, <1>2, <2>1, <2>2 DEF PostIncident, RInv, TypeOK
  <2>4. RecordsResolve'
    BY <1>2, <2>1, RecordsStay DEF PostIncident, Revises, RInv
  <2>5. WorkersResolve'
    BY <1>1, <1>2, ResolvesGrows DEF PostIncident, Revises, RInv, WorkersResolve
  <2>6. QED
    BY <2>3, <2>4, <2>5 DEF RInv
<1>3. ASSUME NEW scenario \in Scenarios, Compile(w, scenario) PROVE RInv'
  <2>1. TypeOK'
    BY <1>1, <1>3 DEF Compile, RInv, TypeOK
  <2>2. RecordsResolve'
    BY <1>3 DEF Compile, RInv, RecordsResolve, Compiles
  <2>3. WorkersResolve'
    BY <1>1, <1>3, ResolvesGrows DEF Compile, RInv, WorkersResolve
  <2>4. QED
    BY <2>1, <2>2, <2>3 DEF RInv
<1>4. ASSUME NEW post \in ClientCases, SaveCase(w, post) PROVE RInv'
  <2> DEFINE id == post.id
             file == PostedFile(post)
  <2>1. file \in CaseFiles /\ id \in CaseIds /\ ByClient(file)
    BY CaseStoreAssumption DEF PostedFile, CaseFiles, ByClient
  <2>2. /\ cases' = Put(cases, id, file) /\ revised' = revised \cup {id}
        /\ UNCHANGED <<snapshots, incidents, scenarios, runs, forks, worker, answer>>
    BY <1>4 DEF SaveCase
  <2> HIDE DEF id, file
  <2>3. /\ DOMAIN cases' = DOMAIN cases \cup {id} /\ DOMAIN cases' \subseteq CaseIds
        /\ cases' \in [DOMAIN cases' -> CaseFiles]
        /\ cases'[id] = file
        /\ \A x \in DOMAIN cases : x # id => cases'[x] = cases[x]
    <3>1. cases \in [DOMAIN cases -> CaseFiles] /\ DOMAIN cases \subseteq CaseIds
      BY DEF RInv, TypeOK
    <3>2. QED
      BY <2>1, <2>2, <3>1 DEF Put
  <2>4. TypeOK'
    BY <1>1, <2>1, <2>2, <2>3 DEF RInv, TypeOK
  <2>5. RecordsResolve'
    <3>1. ASSUME NEW x \in DOMAIN cases'
          PROVE  \/ ByClient(cases'[x]) /\ x \in revised'
                 \/ cases'[x].scenario = x.scenario /\ cases'[x].hashes = x /\ x \in runs'
      <4>1. CASE x = id
        BY <2>1, <2>2, <2>3, <4>1
      <4>2. CASE x # id
        BY <2>2, <2>3, <4>2 DEF RInv, RecordsResolve
      <4>3. QED
        BY <4>1, <4>2
    <3>2. QED
      BY <2>2, <2>3, <3>1 DEF RInv, RecordsResolve, Compiles
  <2>6. WorkersResolve'
    BY <2>2, <2>3, ResolvesGrows DEF RInv, WorkersResolve
  <2>7. QED
    BY <2>4, <2>5, <2>6 DEF RInv
<1>5. QED
  BY <1>2, <1>3, <1>4

CountersTyped == requests \in 0 .. MaxRequests /\ overlapped \in BOOLEAN /\ crashes \in 0 .. MaxCrashes

Verdicts == {"match", "mismatch", "other graph", "other scenario"}

AnswerTyped ==
    answer \in {NoAnswer} \cup [kind : {"fork"}, id : ForkIds, case : CaseIds \cup {None}]
              \cup [kind : {"replay"}, id : CaseIds,
                    verdict : Verdicts,
                    case : CaseFiles, replayed : CaseFiles]

\* The counters keep their types in a step that takes a request or goes on with one.
LEMMA CountersStayTyped ==
    ASSUME TypeOK, NEW w \in Workers, Accept(w) \/ UNCHANGED <<overlapped, requests, crashes>>
    PROVE  CountersTyped'
<1>1. CountersTyped
  BY DEF TypeOK, CountersTyped
<1>2. CASE Accept(w)
  BY <1>1, <1>2, AcceptTypes DEF CountersTyped
<1>3. CASE UNCHANGED <<overlapped, requests, crashes>>
  BY <1>1, <1>3 DEF CountersTyped
<1>4. QED
  BY <1>2, <1>3

\* A step that leaves the store alone only has to hold something that resolves.
LEMMA StoreUnchanged ==
    ASSUME RInv, NEW w \in Workers, NEW STATE to, Goes(w, to), to \in Held,
           Resolves(to, scenarios, runs, DOMAIN cases, revised),
           UNCHANGED <<store, revised>>, CountersTyped', AnswerTyped'
    PROVE  RInv'
<1>1. UNCHANGED <<snapshots, incidents, scenarios, runs, cases, forks, revised>>
  BY DEF store
<1>2. worker' \in [Workers -> Held]
  BY DEF Goes, RInv, TypeOK
<1>3. TypeOK'
  BY <1>1, <1>2 DEF RInv, TypeOK, CountersTyped, AnswerTyped, Verdicts
<1>4. RecordsResolve'
  BY <1>1, RecordsStay DEF RInv
<1>5. WorkersResolve'
  BY <1>1, OneMoves DEF RInv
<1>6. QED
  BY <1>3, <1>4, <1>5 DEF RInv

\* A request that is taken and leaves the store to its later steps.
LEMMA RequestsBegin ==
    ASSUME RInv, NEW w \in Workers,
           \/ \E g \in Graphs, graph \in GraphContents : PostSnapshot(w, g, graph)
           \/ \E scenario \in Scenarios, weights \in Weights : Run(w, scenario, weights)
           \/ \E id \in DOMAIN cases : ReplayReads(w, id)
    PROVE  RInv'
<1>1. CountersTyped' /\ AnswerTyped'
  <2>1. Accept(w) /\ answer' = answer
    BY DEF PostSnapshot, Run, ReplayReads
  <2>2. QED
    BY <2>1, CountersStayTyped DEF AnswerTyped, Verdicts, RInv, TypeOK
<1>2. ASSUME NEW g \in Graphs, NEW graph \in GraphContents, PostSnapshot(w, g, graph)
      PROVE  RInv'
  <2> DEFINE to == [pc |-> "putting", kind |-> "snapshot", id |-> g, doc |-> graph]
  <2>1. to \in Held /\ Resolves(to, scenarios, runs, DOMAIN cases, revised)
    BY DEF Held, Puts, Resolves
  <2>2. Goes(w, to) /\ UNCHANGED <<store, revised>>
    BY <1>2 DEF PostSnapshot
  <2> HIDE DEF to
  <2>3. QED
    BY <1>1, <2>1, <2>2, StoreUnchanged
<1>3. ASSUME NEW scenario \in Scenarios, NEW weights \in Weights, Run(w, scenario, weights)
      PROVE  RInv'
  <2> DEFINE to == [pc |-> "running", scenario |-> scenario, weights |-> weights, fork |-> None]
  <2>1. Goes(w, to) /\ UNCHANGED <<store, revised>> /\ scenario \in scenarios
    BY <1>3 DEF Run
  <2>2. to \in Held
    BY DEF Held, Running, Marks
  <2>3. Resolves(to, scenarios, runs, DOMAIN cases, revised)
    BY <2>1 DEF Resolves, MarkResolves
  <2> HIDE DEF to
  <2>4. QED
    BY <1>1, <2>1, <2>2, <2>3, StoreUnchanged
<1>4. ASSUME NEW id \in DOMAIN cases, ReplayReads(w, id) PROVE RInv'
  <2> DEFINE to == [pc |-> "replaying", id |-> id, file |-> cases[id]]
  <2>1. Goes(w, to) /\ UNCHANGED <<store, revised>>
    BY <1>4 DEF ReplayReads
  <2>2. id \in CaseIds /\ cases[id] \in CaseFiles /\ FileResolves(id, cases[id], runs)
    BY DerivedTypes DEF RInv, FileResolves
  <2>3. to \in Held
    BY <2>2 DEF Held, Replaying
  <2>4. Resolves(to, scenarios, runs, DOMAIN cases, revised)
    BY <2>2 DEF Resolves
  <2> HIDE DEF to
  <2>5. QED
    BY <1>1, <2>1, <2>3, <2>4, StoreUnchanged
<1>5. QED
  BY <1>2, <1>3, <1>4

\* A fork request stores the scenario of the child, or answers that it is infeasible.
LEMMA ForkBeginsRInv ==
    ASSUME RInv, NEW w \in Workers, NEW parent \in DOMAIN cases, NEW actions \in ActionSets,
           NEW mustReverse \in Overrides, ForkBegins(w, parent, actions, mustReverse)
    PROVE  RInv'
<1> DEFINE id == ForkId(parent, actions)
           scenario == Child(cases[parent].scenario, actions)
<1>1. /\ parent \in CaseIds /\ scenario \in Scenarios /\ scenario.actions = actions
      /\ id \in ForkIds /\ Compiles(scenario)
      /\ parent \notin revised => cases[parent].scenario = parent.scenario
  <2>1. cases[parent].scenario \in scenarios
    BY DEF ForkBegins
  <2>2. QED
    BY <2>1, DerivedTypes DEF RInv, RecordsResolve, Compiles
<1>2. /\ id.parent = parent /\ id.actions = actions
      /\ id.parent \in revised \/ scenario = Child(id.parent.scenario, id.actions)
  BY <1>1 DEF ForkId
<1>3. Accept(w) /\ UNCHANGED <<snapshots, incidents, runs, cases, forks, answer, revised>>
  BY DEF ForkBegins
<1>4. requests' \in Nat /\ CountersTyped' /\ AnswerTyped'
  <2>1. CountersTyped' /\ AnswerTyped'
    BY <1>3, CountersStayTyped DEF AnswerTyped, Verdicts, RInv, TypeOK
  <2>2. QED
    BY <2>1 DEF CountersTyped
<1>5. \E to \in Held :
         /\ Goes(w, to)
         /\ scenarios \subseteq scenarios' /\ scenarios' \subseteq scenarios \cup {scenario}
         /\ Resolves(to, scenarios', runs, DOMAIN cases, revised)
  <2>1. CASE /\ Goes(w, [pc |-> "simulated", id |-> id,
                          doc |-> [case |-> None, created |-> requests']])
             /\ UNCHANGED scenarios
    <3>1. [pc |-> "simulated", id |-> id, doc |-> [case |-> None, created |-> requests']] \in Held
      BY <1>1, <1>4 DEF Held, Simulated, ForkDocs
    <3>2. Resolves([pc |-> "simulated", id |-> id, doc |-> [case |-> None, created |-> requests']],
                   scenarios, runs, DOMAIN cases, revised)
      BY <1>2 DEF Resolves, ForkResolves
    <3>3. QED
      BY <2>1, <3>1, <3>2
  <2>2. CASE /\ scenarios' = scenarios \cup {scenario}
             /\ Goes(w, [pc |-> "running", scenario |-> scenario, weights |-> DefaultWeights,
                         fork |-> [id |-> id, created |-> requests']])
    <3>1. [pc |-> "running", scenario |-> scenario, weights |-> DefaultWeights,
           fork |-> [id |-> id, created |-> requests']] \in Held
      BY <1>1, <1>4, CaseStoreAssumption DEF Held, Running, Marks
    <3>2. Resolves([pc |-> "running", scenario |-> scenario, weights |-> DefaultWeights,
                    fork |-> [id |-> id, created |-> requests']],
                   scenarios', runs, DOMAIN cases, revised)
      BY <1>1, <1>2, <2>2 DEF Resolves, MarkResolves
    <3>3. QED
      BY <2>2, <3>1, <3>2
  <2>3. QED
    BY <2>1, <2>2 DEF ForkBegins
<1> HIDE DEF id, scenario
<1>6. PICK to \in Held :
         /\ Goes(w, to)
         /\ scenarios \subseteq scenarios' /\ scenarios' \subseteq scenarios \cup {scenario}
         /\ Resolves(to, scenarios', runs, DOMAIN cases, revised)
  BY <1>5
<1>7. TypeOK'
  <2>1. worker' \in [Workers -> Held] /\ scenarios' \subseteq Scenarios
    BY <1>1, <1>6 DEF Goes, RInv, TypeOK
  <2>2. QED
    BY <1>3, <1>4, <2>1 DEF RInv, TypeOK, CountersTyped, AnswerTyped, Verdicts
<1>8. RecordsResolve'
  BY <1>1, <1>3, <1>6 DEF RInv, RecordsResolve, Compiles
<1>9. WorkersResolve'
  BY <1>3, <1>6, OneMoves DEF RInv
<1>10. QED
  BY <1>7, <1>8, <1>9 DEF RInv

\* A served step keeps the counters; most of them keep the answer too.
LEMMA OnTypes ==
    ASSUME TypeOK, NEW w \in Workers, NEW pc, On(w, pc)
    PROVE  CountersTyped' /\ worker[w].pc = pc
BY CountersStayTyped DEF On

\* The check of an immutable put.
LEMMA PutChecksRInv ==
    ASSUME RInv, NEW w \in Workers, PutChecks(w)
    PROVE  RInv'
<1> DEFINE r == worker[w]
<1>1. /\ CountersTyped' /\ r.pc = "putting" /\ UNCHANGED <<store, answer, revised>>
      /\ AnswerTyped'
  <2>1. On(w, "putting") /\ UNCHANGED <<store, answer, revised>>
    BY DEF PutChecks
  <2>2. QED
    BY <2>1, OnTypes DEF RInv, TypeOK, AnswerTyped, Verdicts
<1>2. r \in Puts \cup ForkPuts /\ Resolves(r, scenarios, runs, DOMAIN cases, revised)
  BY <1>1, HoldsByPoint DEF RInv, WorkersResolve
<1>3. CASE Goes(w, Idle)
  <2>1. Idle \in Held /\ Resolves(Idle, scenarios, runs, DOMAIN cases, revised)
    BY DEF Held, Idle, Resolves
  <2>2. QED
    BY <1>1, <1>3, <2>1, StoreUnchanged
<1>4. CASE Goes(w, [r EXCEPT !.pc = "replacing"])
  <2> DEFINE to == [r EXCEPT !.pc = "replacing"]
  <2>1. to \in Puts \cup ForkPuts /\ to.pc = "replacing"
        /\ to.kind = r.kind /\ to.id = r.id /\ to.doc = r.doc
    <3>1. CASE r \in Puts
      BY <3>1 DEF Puts
    <3>2. CASE r \in ForkPuts
      BY <3>2 DEF ForkPuts
    <3>3. QED
      BY <1>2, <3>1, <3>2
  <2>2. to \in Held
    BY <2>1 DEF Held
  <2>3. Resolves(to, scenarios, runs, DOMAIN cases, revised)
    BY <1>1, <1>2, <2>1 DEF Resolves
  <2>4. Goes(w, to)
    BY <1>4
  <2> HIDE DEF to
  <2>5. QED
    BY <1>1, <2>2, <2>3, <2>4, StoreUnchanged
<1>5. QED
  BY <1>3, <1>4 DEF PutChecks

\* The simulation of a stored scenario.
LEMMA ExecutesRInv ==
    ASSUME RInv, NEW w \in Workers, Executes(w)
    PROVE  RInv'
<1> DEFINE r == worker[w]
           to == [pc |-> "ran", id |-> Outcome(r.scenario),
                  file |-> CaseFile(r.scenario, r.weights), fork |-> r.fork]
<1>1. /\ CountersTyped' /\ r.pc = "running" /\ UNCHANGED <<store, answer, revised>>
      /\ AnswerTyped' /\ Goes(w, to)
  <2>1. On(w, "running") /\ UNCHANGED <<store, answer, revised>> /\ Goes(w, to)
    BY DEF Executes
  <2>2. QED
    BY <2>1, OnTypes DEF RInv, TypeOK, AnswerTyped, Verdicts
<1>2. r \in Running /\ r.scenario \in scenarios
      /\ MarkResolves(r.fork, r.scenario, DOMAIN cases, revised)
  BY <1>1, HoldsByPoint DEF RInv, WorkersResolve, Resolves
<1>3. r.weights \in Weights /\ r.fork \in Marks
  BY <1>2 DEF Running
<1>4. to \in Held
  BY <1>2, <1>3, DerivedTypes DEF RInv, Held, Ran
<1>5. Resolves(to, scenarios, runs, DOMAIN cases, revised)
  BY <1>2 DEF Resolves, Outcome, CaseFile
<1> HIDE DEF to
<1>6. QED
  BY <1>1, <1>4, <1>5, StoreUnchanged

\* A run is stored before its case.
LEMMA StoresRunRInv ==
    ASSUME RInv, NEW w \in Workers, StoresRun(w)
    PROVE  RInv'
<1> DEFINE r == worker[w]
           to == [r EXCEPT !.pc = "run stored"]
<1>1. /\ CountersTyped' /\ r.pc = "ran" /\ runs' = runs \cup {r.id} /\ Goes(w, to)
      /\ UNCHANGED <<snapshots, incidents, scenarios, cases, forks, answer, revised>>
  BY OnTypes DEF StoresRun, RInv
<1>2. r \in Ran /\ r.id \in CaseIds /\ r.id.scenario \in scenarios
      /\ MarkResolves(r.fork, r.id.scenario, DOMAIN cases, revised)
      /\ r.file.scenario = r.id.scenario /\ r.file.hashes = r.id
  BY <1>1, HoldsByPoint DEF RInv, WorkersResolve, Resolves, Ran
<1>3. /\ to \in Ran /\ to \in Held
      /\ to.pc = "run stored" /\ to.id = r.id /\ to.fork = r.fork /\ to.file = r.file
  <2>1. to \in Ran /\ to.pc = "run stored" /\ to.id = r.id /\ to.fork = r.fork /\ to.file = r.file
    BY <1>2 DEF Ran
  <2>2. QED
    BY <2>1 DEF Held
<1> HIDE DEF to
<1>4. Resolves(to, scenarios, runs', DOMAIN cases, revised)
  BY <1>1, <1>2, <1>3 DEF Resolves
<1>5. TypeOK'
  <2>1. worker' \in [Workers -> Held] /\ runs' \subseteq CaseIds
    BY <1>1, <1>2, <1>3 DEF Goes, RInv, TypeOK
  <2>2. QED
    BY <1>1, <2>1 DEF RInv, TypeOK, CountersTyped
<1>6. RecordsResolve'
  BY <1>1, <1>2 DEF RInv, RecordsResolve, Compiles
<1>7. WorkersResolve'
  BY <1>1, <1>4, OneMoves DEF RInv
<1>8. QED
  BY <1>5, <1>6, <1>7 DEF RInv

\* The case of a run is stored; a fork goes on with it.
LEMMA StoresCaseRInv ==
    ASSUME RInv, NEW w \in Workers, StoresCase(w)
    PROVE  RInv'
<1> DEFINE r == worker[w]
           forked == [pc |-> "simulated", id |-> r.fork.id,
                      doc |-> [case |-> r.id, created |-> r.fork.created]]
           to == IF r.fork = None THEN Idle ELSE forked
<1>1. /\ CountersTyped' /\ r.pc = "run stored" /\ cases' = Put(cases, r.id, r.file)
      /\ Goes(w, to)
      /\ UNCHANGED <<snapshots, incidents, scenarios, runs, forks, answer, revised>>
  BY OnTypes DEF StoresCase, RInv
<1>2. /\ r \in Ran /\ r.id \in CaseIds /\ r.file \in CaseFiles /\ r.fork \in Marks
      /\ r.id \in runs /\ MarkResolves(r.fork, r.id.scenario, DOMAIN cases, revised)
      /\ r.file.scenario = r.id.scenario /\ r.file.hashes = r.id
  BY <1>1, HoldsByPoint DEF RInv, WorkersResolve, Resolves, Ran
<1>3. /\ DOMAIN cases' = DOMAIN cases \cup {r.id} /\ DOMAIN cases' \subseteq CaseIds
      /\ cases' \in [DOMAIN cases' -> CaseFiles] /\ cases'[r.id] = r.file
      /\ \A x \in DOMAIN cases : x # r.id => cases'[x] = cases[x]
  <2>1. cases \in [DOMAIN cases -> CaseFiles] /\ DOMAIN cases \subseteq CaseIds
    BY DEF RInv, TypeOK
  <2>2. cases' = Put(cases, r.id, r.file) /\ r.id \in CaseIds /\ r.file \in CaseFiles
    BY <1>1, <1>2
  <2>3. ASSUME NEW id \in CaseIds, NEW file \in CaseFiles
        PROVE  /\ DOMAIN Put(cases, id, file) = DOMAIN cases \cup {id}
               /\ DOMAIN Put(cases, id, file) \subseteq CaseIds
               /\ Put(cases, id, file) \in [DOMAIN Put(cases, id, file) -> CaseFiles]
               /\ Put(cases, id, file)[id] = file
               /\ \A x \in DOMAIN cases : x # id => Put(cases, id, file)[x] = cases[x]
    BY ONLY <2>1 DEF Put
  <2>4. /\ DOMAIN Put(cases, r.id, r.file) = DOMAIN cases \cup {r.id}
        /\ DOMAIN Put(cases, r.id, r.file) \subseteq CaseIds
        /\ Put(cases, r.id, r.file) \in [DOMAIN Put(cases, r.id, r.file) -> CaseFiles]
        /\ Put(cases, r.id, r.file)[r.id] = r.file
        /\ \A x \in DOMAIN cases : x # r.id => Put(cases, r.id, r.file)[x] = cases[x]
    BY <2>2, <2>3
  <2> HIDE DEF r
  <2>5. QED
    BY ONLY <2>2, <2>4
<1>4. to \in Held /\ Resolves(to, scenarios, runs, DOMAIN cases', revised)
  <2>1. CASE r.fork = None
    BY <2>1 DEF Held, Idle, Resolves
  <2>2. CASE r.fork # None
    <3>1. r.fork \in [id : ForkIds, created : Nat]
      BY <1>2, <2>2 DEF Marks
    <3>2. forked \in Held
      BY <1>2, <3>1 DEF Held, Simulated, ForkDocs
    <3>3. Resolves(forked, scenarios, runs, DOMAIN cases', revised)
      BY <1>2, <1>3, <2>2 DEF Resolves, ForkResolves, MarkResolves
    <3>4. QED
      BY <2>2, <3>2, <3>3
  <2>3. QED
    BY <2>1, <2>2
<1> HIDE DEF to
<1>5. TypeOK'
  <2>1. worker' \in [Workers -> Held]
    BY <1>1, <1>4 DEF Goes, RInv, TypeOK
  <2>2. QED
    BY <1>1, <1>3, <2>1 DEF RInv, TypeOK, CountersTyped
<1>6. RecordsResolve'
  <2>1. ASSUME NEW x \in DOMAIN cases'
        PROVE  \/ ByClient(cases'[x]) /\ x \in revised'
               \/ cases'[x].scenario = x.scenario /\ cases'[x].hashes = x /\ x \in runs'
    <3>1. CASE x = r.id
      BY <1>1, <1>2, <1>3, <3>1
    <3>2. CASE x # r.id
      BY <1>1, <1>3, <3>2 DEF RInv, RecordsResolve
    <3>3. QED
      BY <3>1, <3>2
  <2>2. QED
    BY <1>1, <1>3, <2>1 DEF RInv, RecordsResolve, Compiles
<1>7. WorkersResolve'
  BY <1>1, <1>3, <1>4, OneMoves DEF RInv
<1>8. QED
  BY <1>5, <1>6, <1>7 DEF RInv

\* A put replaces the document of a snapshot or of a fork.
LEMMA PutReplacesRInv ==
    ASSUME RInv, NEW w \in Workers, PutReplaces(w)
    PROVE  RInv'
<1> DEFINE r == worker[w]
<1>1. /\ CountersTyped' /\ r.pc = "replacing" /\ Goes(w, Idle)
      /\ UNCHANGED <<incidents, scenarios, runs, cases>> /\ revised \subseteq revised'
  BY OnTypes DEF PutReplaces, Revises, RInv
<1>2. worker' \in [Workers -> Held] /\ WorkersResolve'
  <2>1. Idle \in Held /\ Resolves(Idle, scenarios', runs', DOMAIN cases', revised')
    BY DEF Held, Idle, Resolves
  <2>2. QED
    BY <1>1, <2>1, OneMoves DEF Goes, RInv, TypeOK
<1>3. r \in Puts \cup ForkPuts /\ Resolves(r, scenarios, runs, DOMAIN cases, revised)
  BY <1>1, HoldsByPoint DEF RInv, WorkersResolve
<1>4. CASE /\ r.kind = "snapshot"
           /\ snapshots' = Put(snapshots, r.id, r.doc)
           /\ Revises(snapshots, r.id, r.doc)
           /\ UNCHANGED <<forks, answer>>
  <2>1. r.id \in Graphs /\ r.doc \in GraphContents
    BY <1>3, <1>4 DEF Puts, ForkPuts
  <2>2. snapshots \in [DOMAIN snapshots -> GraphContents] /\ DOMAIN snapshots \subseteq Graphs
    BY DEF RInv, TypeOK
  <2>3. ASSUME NEW id \in Graphs, NEW doc \in GraphContents
        PROVE  /\ DOMAIN Put(snapshots, id, doc) = DOMAIN snapshots \cup {id}
               /\ DOMAIN Put(snapshots, id, doc) \subseteq Graphs
               /\ Put(snapshots, id, doc) \in [DOMAIN Put(snapshots, id, doc) -> GraphContents]
    BY <2>2, PutProperties
  <2>4. /\ DOMAIN snapshots \subseteq DOMAIN snapshots' /\ DOMAIN snapshots' \subseteq Graphs
        /\ snapshots' \in [DOMAIN snapshots' -> GraphContents]
    BY <1>4, <2>1, <2>3
  <2>5. revised' \subseteq Graphs \cup Incidents \cup CaseIds
    BY <1>4, <2>1 DEF Revises, RInv, TypeOK
  <2>6. TypeOK'
    BY <1>1, <1>2, <1>4, <2>4, <2>5 DEF RInv, TypeOK, CountersTyped
  <2>7. RecordsResolve'
    BY <1>1, <1>4, <2>4, RecordsStay DEF Revises, RInv
  <2>8. QED
    BY <1>2, <2>6, <2>7 DEF RInv
<1>5. CASE /\ r.kind = "fork"
           /\ forks' = Put(forks, r.id, r.doc)
           /\ answer' = [kind |-> "fork", id |-> r.id, case |-> r.doc.case]
           /\ UNCHANGED <<snapshots, revised>>
  <2>1. r.id \in ForkIds /\ r.doc \in ForkDocs /\ r.doc.case \in CaseIds \cup {None}
    BY <1>3, <1>5 DEF Puts, ForkPuts, ForkDocs
  <2>2. forks \in [DOMAIN forks -> ForkDocs] /\ DOMAIN forks \subseteq ForkIds
    BY DEF RInv, TypeOK
  <2>3. ASSUME NEW id \in ForkIds, NEW doc \in ForkDocs
        PROVE  /\ DOMAIN Put(forks, id, doc) = DOMAIN forks \cup {id}
               /\ DOMAIN Put(forks, id, doc) \subseteq ForkIds
               /\ Put(forks, id, doc) \in [DOMAIN Put(forks, id, doc) -> ForkDocs]
               /\ Put(forks, id, doc)[id] = doc
               /\ \A x \in DOMAIN forks : x # id => Put(forks, id, doc)[x] = forks[x]
    BY ONLY <2>2 DEF Put
  <2>4. /\ DOMAIN forks' = DOMAIN forks \cup {r.id} /\ DOMAIN forks' \subseteq ForkIds
        /\ forks' \in [DOMAIN forks' -> ForkDocs]
        /\ forks'[r.id] = r.doc
        /\ \A x \in DOMAIN forks : x # r.id => forks'[x] = forks[x]
    <3>1. forks' = Put(forks, r.id, r.doc)
      BY <1>5
    <3>2. /\ DOMAIN Put(forks, r.id, r.doc) = DOMAIN forks \cup {r.id}
          /\ DOMAIN Put(forks, r.id, r.doc) \subseteq ForkIds
          /\ Put(forks, r.id, r.doc) \in [DOMAIN Put(forks, r.id, r.doc) -> ForkDocs]
          /\ Put(forks, r.id, r.doc)[r.id] = r.doc
          /\ \A x \in DOMAIN forks : x # r.id => Put(forks, r.id, r.doc)[x] = forks[x]
      BY <2>1, <2>3
    <3> HIDE DEF r
    <3>3. QED
      BY ONLY <3>1, <3>2
  <2>5. AnswerTyped'
    BY <1>5, <2>1 DEF AnswerTyped
  <2>6. TypeOK'
    BY <1>1, <1>2, <1>5, <2>4, <2>5 DEF RInv, TypeOK, CountersTyped, AnswerTyped, Verdicts
  <2>7. ForkResolves(r.id, r.doc.case, runs, DOMAIN cases, revised)
    BY <1>1, <1>3, <1>5 DEF Resolves
  <2>8. RecordsResolve'
    <3>1. UNCHANGED <<snapshots, incidents, scenarios, runs, cases, revised>>
      BY <1>1, <1>5
    <3>2. \A id \in DOMAIN forks : ForkResolves(id, forks[id].case, runs, DOMAIN cases, revised)
      BY DEF RInv, RecordsResolve, ForkResolves
    <3>3. ASSUME NEW id \in DOMAIN forks'
          PROVE  ForkResolves(id, forks'[id].case, runs, DOMAIN cases, revised)
      <4>1. CASE id = r.id
        BY <2>4, <2>7, <4>1
      <4>2. CASE id # r.id
        <5>1. id \in DOMAIN forks /\ forks'[id] = forks[id]
          BY <2>4, <4>2
        <5>2. QED
          BY <3>2, <5>1
      <4>3. QED
        BY <4>1, <4>2
    <3>4. QED
      BY <3>1, <3>3 DEF RInv, RecordsResolve, ForkResolves, Compiles
  <2>9. QED
    BY <1>2, <2>6, <2>8 DEF RInv
<1>6. QED
  BY <1>4, <1>5 DEF PutReplaces

\* A fork that is stored already is answered, another goes on to be stored.
LEMMA ForkChecksRInv ==
    ASSUME RInv, NEW w \in Workers, ForkChecks(w)
    PROVE  RInv'
<1> DEFINE r == worker[w]
           to == [pc |-> "putting", kind |-> "fork", id |-> r.id, doc |-> r.doc]
<1>1. CountersTyped' /\ r.pc = "simulated" /\ UNCHANGED <<store, revised>>
  BY OnTypes DEF ForkChecks, RInv
<1>2. r \in Simulated /\ ForkResolves(r.id, r.doc.case, runs, DOMAIN cases, revised)
  BY <1>1, HoldsByPoint DEF RInv, WorkersResolve, Resolves
<1>3. r.id \in ForkIds /\ r.doc \in ForkDocs /\ r.doc.case \in CaseIds \cup {None}
  BY <1>2 DEF Simulated, ForkDocs
<1>4. CASE Goes(w, Idle) /\ answer' = [kind |-> "fork", id |-> r.id, case |-> r.doc.case]
  <2>1. Idle \in Held /\ Resolves(Idle, scenarios, runs, DOMAIN cases, revised)
    BY DEF Held, Idle, Resolves
  <2>2. AnswerTyped'
    BY <1>3, <1>4 DEF AnswerTyped
  <2>3. QED
    BY <1>1, <1>4, <2>1, <2>2, StoreUnchanged
<1>5. CASE Goes(w, to) /\ UNCHANGED answer
  <2>1. to \in Held
    BY <1>3 DEF Held, ForkPuts
  <2>2. Resolves(to, scenarios, runs, DOMAIN cases, revised)
    BY <1>2 DEF Resolves
  <2>3. AnswerTyped'
    BY <1>5 DEF AnswerTyped, Verdicts, RInv, TypeOK
  <2>4. Goes(w, to)
    BY <1>5
  <2> HIDE DEF to
  <2>5. QED
    BY <1>1, <2>1, <2>2, <2>3, <2>4, StoreUnchanged
<1>6. QED
  BY <1>4, <1>5 DEF ForkChecks

\* A replay answers and stores nothing.
LEMMA ReplayComparesRInv ==
    ASSUME RInv, NEW w \in Workers, ReplayCompares(w)
    PROVE  RInv'
<1> DEFINE r == worker[w]
<1>1. /\ CountersTyped' /\ r.pc = "replaying" /\ UNCHANGED <<store, revised>>
      /\ Goes(w, Idle)
  BY OnTypes DEF ReplayCompares, RInv
<1>2. r.id \in CaseIds /\ r.file \in CaseFiles
  BY <1>1, HoldsByPoint DEF RInv, Replaying
<1>3. UNCHANGED answer => AnswerTyped'
  BY DEF AnswerTyped, Verdicts, RInv, TypeOK
<1>4. ASSUME r.file.scenario \in scenarios /\ \E verdict \in Verdicts : Answers(r, verdict)
      PROVE  AnswerTyped'
  <2>1. PICK verdict \in Verdicts :
           answer' = [kind |-> "replay", id |-> r.id, verdict |-> verdict, case |-> r.file,
                      replayed |-> CaseFile(r.file.scenario, DefaultWeights)]
    BY <1>4 DEF Answers
  <2>2. ASSUME NEW id \in CaseIds, NEW file \in CaseFiles, NEW again \in CaseFiles
        PROVE  [kind |-> "replay", id |-> id, verdict |-> verdict,
                case |-> file, replayed |-> again]
               \in [kind : {"replay"}, id : CaseIds,
                    verdict : Verdicts,
                    case : CaseFiles, replayed : CaseFiles]
    OBVIOUS
  <2>3. CaseFile(r.file.scenario, DefaultWeights) \in CaseFiles
    BY <1>4, DerivedTypes, CaseStoreAssumption DEF RInv
  <2> HIDE DEF r
  <2>4. answer' \in [kind : {"replay"}, id : CaseIds,
                    verdict : Verdicts,
                    case : CaseFiles, replayed : CaseFiles]
    BY <1>2, <2>1, <2>2, <2>3
  <2>5. QED
    BY <2>4 DEF AnswerTyped
<1>5. Idle \in Held /\ Resolves(Idle, scenarios, runs, DOMAIN cases, revised)
  BY DEF Held, Idle, Resolves
<1>6. AnswerTyped'
  BY <1>3, <1>4 DEF ReplayCompares, Verdicts
<1>7. QED
  BY <1>1, <1>5, <1>6, StoreUnchanged

\* A restart loses the requests and writes the fixture again.
LEMMA CrashRInv ==
    ASSUME RInv, Crash
    PROVE  RInv'
<1>1. DOMAIN incidents' = DOMAIN incidents /\ incidents' \in [DOMAIN incidents' -> IncidentContents]
  BY CaseStoreAssumption DEF Crash, Reseeded, RInv, TypeOK
<1>2. crashes' \in 0 .. MaxCrashes
  <2>1. crashes \in 0 .. MaxCrashes /\ MaxCrashes \in Nat
    BY CaseStoreAssumption DEF RInv, TypeOK
  <2>2. QED
    BY <2>1 DEF Crash
<1>3. worker' \in [Workers -> Held] /\ WorkersResolve'
  BY DEF Crash, Held, WorkersResolve, Resolves, Idle
<1>4. revised' \subseteq Graphs \cup Incidents \cup CaseIds
  BY DEF Crash, RInv, TypeOK
<1>5. TypeOK'
  BY <1>1, <1>2, <1>3, <1>4 DEF Crash, RInv, TypeOK
<1>6. RecordsResolve'
  BY <1>1, RecordsStay DEF Crash, RInv
<1>7. QED
  BY <1>3, <1>5, <1>6 DEF RInv

\* Every step keeps the records resolved.
LEMMA NextRInv == RInv /\ [Next]_vars => RInv'
<1> SUFFICES ASSUME RInv, [Next]_vars PROVE RInv'
  OBVIOUS
<1>1. ASSUME NEW w \in Workers, Request(w) PROVE RInv'
  BY <1>1, ShortRequests, RequestsBegin, ForkBeginsRInv DEF Request
<1>2. ASSUME NEW w \in Workers, Serve(w) PROVE RInv'
  BY <1>2, PutChecksRInv, PutReplacesRInv, ExecutesRInv, StoresRunRInv, StoresCaseRInv,
     ForkChecksRInv, ReplayComparesRInv DEF Serve
<1>3. CASE UNCHANGED vars
  BY <1>3 DEF vars, store, RInv, TypeOK, RecordsResolve, Compiles, WorkersResolve
<1>4. QED
  BY <1>1, <1>2, <1>3, CrashRInv DEF Next

\* The types of the store, of the requests in service and of the answers.
THEOREM TypeCorrect == Spec => []TypeOK
<1>1. RInv => TypeOK
  BY DEF RInv
<1>2. QED
  BY <1>1, InitRInv, NextRInv, PTL DEF Spec

\* No record refers to one that is not there, whatever crashed between two writes.
THEOREM NothingDangles == Spec => []RecordsResolve
<1>1. RInv => RecordsResolve
  BY DEF RInv
<1>2. QED
  BY <1>1, InitRInv, NextRInv, PTL DEF Spec
-------------------------------------------------------------------------------
(* Immutable documents *)

\* A worker that takes a step while requests do not overlap is alone.
LEMMA StepsAlone ==
    ASSUME RInv, OneBusy, NEW w \in Workers, Request(w) \/ Serve(w), ~ overlapped'
    PROVE  /\ ~ overlapped
           /\ \A v \in Workers : v # w => worker[v] = Idle /\ worker'[v] = Idle
<1>1. \A v \in Workers : v # w => worker'[v] = worker[v]
  BY DEF Request, Serve, PostIncident, PostSnapshot, Compile, Run, ReplayReads, SaveCase,
     ForkBegins, PutChecks, PutReplaces, Executes, StoresRun, StoresCase, ForkChecks,
     ReplayCompares, Goes, RInv, TypeOK
<1>2. CASE Accept(w)
  BY <1>1, <1>2 DEF Accept
<1>3. CASE worker[w] # Idle /\ UNCHANGED overlapped
  BY <1>1, <1>3 DEF OneBusy
<1>4. Request(w) => Accept(w)
  BY DEF Request, PostIncident, PostSnapshot, Compile, Run, ReplayReads, SaveCase, ForkBegins
<1>5. Serve(w) => worker[w] # Idle /\ UNCHANGED overlapped
  <2>1. ASSUME NEW pc, pc # "idle", On(w, pc) PROVE worker[w] # Idle /\ UNCHANGED overlapped
    BY <2>1 DEF On, Idle
  <2>2. Serve(w) => \E pc \in {"putting", "replacing", "running", "ran", "run stored",
                              "simulated", "replaying"} : On(w, pc)
    BY DEF Serve, PutChecks, PutReplaces, Executes, StoresRun, StoresCase, ForkChecks,
       ReplayCompares
  <2>3. QED
    BY <2>1, <2>2
<1>6. QED
  BY <1>2, <1>3, <1>4, <1>5

\* Only a put that has passed its check goes on to replace the file.
LEMMA OnlyChecksReplace ==
    ASSUME RInv, NEW w \in Workers, Request(w) \/ Serve(w), worker'[w].pc = "replacing"
    PROVE  /\ PutChecks(w)
           /\ worker'[w] = [worker[w] EXCEPT !.pc = "replacing"]
           /\ ~ (/\ worker[w].id \in DOMAIN Docs(worker[w].kind)
                 /\ Docs(worker[w].kind)[worker[w].id] # worker[w].doc)
<1>1. \A to : Goes(w, to) => worker'[w] = to
  BY DEF Goes, RInv, TypeOK
<1>2. ~ Request(w)
  <2>1. ASSUME Accept(w), UNCHANGED worker PROVE FALSE
    BY <2>1 DEF Accept, Idle
  <2>2. ASSUME NEW to, Goes(w, to), to.pc # "replacing" PROVE FALSE
    BY <1>1, <2>2
  <2>3. \A i \in Incidents, content \in IncidentContents : ~ PostIncident(w, i, content)
    BY <2>1 DEF PostIncident
  <2>4. \A scenario \in Scenarios : ~ Compile(w, scenario)
    BY <2>1 DEF Compile
  <2>5. \A post \in ClientCases : ~ SaveCase(w, post)
    BY <2>1 DEF SaveCase
  <2>6. \A g \in Graphs, graph \in GraphContents : ~ PostSnapshot(w, g, graph)
    BY <2>2 DEF PostSnapshot
  <2>7. \A scenario \in Scenarios, weights \in Weights : ~ Run(w, scenario, weights)
    BY <2>2 DEF Run
  <2>8. \A id \in DOMAIN cases : ~ ReplayReads(w, id)
    BY <2>2 DEF ReplayReads
  <2>9. \A id \in DOMAIN cases, actions \in ActionSets, mustReverse \in Overrides :
           ~ ForkBegins(w, id, actions, mustReverse)
    BY <2>2 DEF ForkBegins
  <2>10. QED
    BY <2>3, <2>4, <2>5, <2>6, <2>7, <2>8, <2>9 DEF Request
<1>3. ASSUME NEW to, Goes(w, to), to.pc # "replacing" PROVE FALSE
  BY <1>1, <1>3
<1>4. Idle.pc # "replacing"
  BY DEF Idle
<1>5. ~ PutReplaces(w) /\ ~ ReplayCompares(w)
  BY <1>3, <1>4 DEF PutReplaces, ReplayCompares
<1>6. ~ Executes(w)
  BY <1>3 DEF Executes
<1>7. ~ StoresRun(w)
  <2>1. ASSUME StoresRun(w) PROVE [worker[w] EXCEPT !.pc = "run stored"].pc = "run stored"
    BY <2>1, HoldsByPoint DEF StoresRun, On, RInv, Ran
  <2>2. QED
    BY <1>3, <2>1 DEF StoresRun
<1>8. ~ StoresCase(w)
  BY <1>3, <1>4 DEF StoresCase
<1>9. ~ ForkChecks(w)
  BY <1>3, <1>4 DEF ForkChecks
<1>10. PutChecks(w)
  BY <1>2, <1>5, <1>6, <1>7, <1>8, <1>9 DEF Serve
<1>11. QED
  BY <1>1, <1>3, <1>4, <1>10 DEF PutChecks

\* A step that replaces a graph or a fork is a put that has passed its check.
LEMMA OnlyPutsReplace ==
    ASSUME RInv, [Next]_vars
    PROVE  \/ UNCHANGED <<snapshots, forks>>
           \/ \E w \in Workers :
                 /\ PutReplaces(w)
                 /\ \/ /\ worker[w] \in Puts /\ worker[w].pc = "replacing" /\ UNCHANGED forks
                       /\ snapshots' = Put(snapshots, worker[w].id, worker[w].doc)
                    \/ /\ worker[w] \in ForkPuts /\ worker[w].pc = "replacing"
                       /\ UNCHANGED snapshots
                       /\ forks' = Put(forks, worker[w].id, worker[w].doc)
<1>1. ASSUME NEW w \in Workers, Request(w) PROVE UNCHANGED <<snapshots, forks>>
  BY <1>1 DEF Request, PostIncident, PostSnapshot, Compile, Run, ReplayReads, SaveCase,
     ForkBegins, store
<1>2. ASSUME NEW w \in Workers, Serve(w), ~ PutReplaces(w) PROVE UNCHANGED <<snapshots, forks>>
  BY <1>2 DEF Serve, PutChecks, Executes, StoresRun, StoresCase, ForkChecks, ReplayCompares,
     store
<1>3. ASSUME NEW w \in Workers, PutReplaces(w)
      PROVE  \/ /\ worker[w] \in Puts /\ worker[w].pc = "replacing" /\ UNCHANGED forks
                /\ snapshots' = Put(snapshots, worker[w].id, worker[w].doc)
             \/ /\ worker[w] \in ForkPuts /\ worker[w].pc = "replacing" /\ UNCHANGED snapshots
                /\ forks' = Put(forks, worker[w].id, worker[w].doc)
  <2>1. worker[w].pc = "replacing" /\ worker[w] \in Puts \cup ForkPuts
    BY <1>3, HoldsByPoint DEF PutReplaces, On, RInv
  <2>2. /\ worker[w].kind = "snapshot" => worker[w] \in Puts
        /\ worker[w].kind = "fork" => worker[w] \in ForkPuts
    BY <2>1 DEF Puts, ForkPuts
  <2>3. QED
    BY <1>3, <2>1, <2>2 DEF PutReplaces
<1>4. CASE Crash
  BY <1>4 DEF Crash
<1>5. CASE UNCHANGED vars
  BY <1>5 DEF vars, store
<1>6. QED
  BY <1>1, <1>2, <1>3, <1>4, <1>5 DEF Next

\* What is immutable is replaced by itself only.
LEMMA NextPInv == PInv /\ [Next]_vars => PInv'
<1> SUFFICES ASSUME PInv, [Next]_vars PROVE OneBusy' /\ CheckHolds'
  BY NextRInv DEF PInv
<1>1. CASE Crash
  <2>1. \A w \in Workers : worker'[w] = Idle
    BY <1>1 DEF Crash
  <2>2. Idle.pc # "replacing"
    BY DEF Idle
  <2>3. QED
    BY <2>1, <2>2 DEF OneBusy, CheckHolds
<1>2. CASE UNCHANGED vars
  BY <1>2 DEF vars, store, PInv, OneBusy, CheckHolds
<1>3. ASSUME NEW w \in Workers, Request(w) \/ Serve(w), ~ overlapped'
      PROVE  OneBusy' /\ CheckHolds'
  <2>1. /\ ~ overlapped
        /\ \A v \in Workers : v # w => worker[v] = Idle /\ worker'[v] = Idle
    BY <1>3, StepsAlone DEF PInv
  <2>2. OneBusy'
    BY <2>1 DEF OneBusy
  <2>3. Idle.pc # "replacing"
    BY DEF Idle
  <2>4. CASE worker'[w].pc # "replacing"
    BY <2>1, <2>2, <2>3, <2>4 DEF CheckHolds
  <2>5. CASE worker'[w].pc = "replacing"
    <3> DEFINE r == worker[w]
    <3>1. /\ PutChecks(w) /\ worker'[w] = [r EXCEPT !.pc = "replacing"]
          /\ ~ (r.id \in DOMAIN Docs(r.kind) /\ Docs(r.kind)[r.id] # r.doc)
      BY <1>3, <2>5, OnlyChecksReplace DEF PInv
    <3>2. r \in Puts \cup ForkPuts /\ UNCHANGED <<snapshots, forks>>
      BY <3>1, HoldsByPoint DEF PutChecks, On, store, PInv, RInv
    <3>3. CASE r \in Puts
      <4>1. /\ r.kind = "snapshot" /\ worker'[w].kind = "snapshot"
            /\ worker'[w].id = r.id /\ worker'[w].doc = r.doc
        BY <3>1, <3>3 DEF Puts
      <4>2. worker'[w] \notin ForkPuts /\ (r.id \in DOMAIN snapshots => snapshots[r.id] = r.doc)
        BY <3>1, <4>1 DEF ForkPuts, Docs
      <4>3. QED
        BY <2>1, <2>2, <2>3, <3>2, <4>1, <4>2 DEF CheckHolds
    <3>4. CASE r \in ForkPuts
      <4>1. /\ r.kind = "fork" /\ worker'[w].kind = "fork"
            /\ worker'[w].id = r.id /\ worker'[w].doc = r.doc
        BY <3>1, <3>4 DEF ForkPuts
      <4>2. worker'[w] \notin Puts /\ (r.id \in DOMAIN forks => forks[r.id] = r.doc)
        BY <3>1, <4>1 DEF Puts, Docs
      <4>3. QED
        BY <2>1, <2>2, <2>3, <3>2, <4>1, <4>2 DEF CheckHolds
    <3>5. QED
      BY <3>2, <3>3, <3>4
  <2>6. QED
    BY <2>4, <2>5
<1>4. CASE overlapped'
  BY <1>4 DEF OneBusy, CheckHolds
<1>5. QED
  BY <1>1, <1>2, <1>3, <1>4 DEF Next

\* While requests do not overlap, no stored graph or fork is replaced by another.
THEOREM NeverReplaced == Spec => Immutable
<1>1. Init => PInv
  <2>1. Init => OneBusy /\ CheckHolds
    BY DEF Init, OneBusy, CheckHolds, Idle
  <2>2. QED
    BY <2>1, InitRInv DEF PInv
<1>2. PInv /\ [Next]_vars =>
        (~ overlapped =>
            /\ \A g \in DOMAIN snapshots : snapshots'[g] = snapshots[g]
            /\ \A id \in DOMAIN forks : forks'[id] = forks[id])
  <2> SUFFICES ASSUME PInv, [Next]_vars, ~ overlapped
               PROVE  /\ \A g \in DOMAIN snapshots : snapshots'[g] = snapshots[g]
                      /\ \A id \in DOMAIN forks : forks'[id] = forks[id]
    OBVIOUS
  <2>1. ASSUME NEW docs, NEW id, NEW doc, id \in DOMAIN docs => docs[id] = doc
        PROVE  \A x \in DOMAIN docs : Put(docs, id, doc)[x] = docs[x]
    BY <2>1 DEF Put
  <2>2. ASSUME NEW w \in Workers, worker[w] \in Puts, worker[w].pc = "replacing",
               UNCHANGED forks,
               snapshots' = Put(snapshots, worker[w].id, worker[w].doc)
        PROVE  \A g \in DOMAIN snapshots : snapshots'[g] = snapshots[g]
    BY <2>1, <2>2 DEF PInv, CheckHolds
  <2>3. ASSUME NEW w \in Workers, worker[w] \in ForkPuts, worker[w].pc = "replacing",
               UNCHANGED snapshots,
               forks' = Put(forks, worker[w].id, worker[w].doc)
        PROVE  \A id \in DOMAIN forks : forks'[id] = forks[id]
    BY <2>1, <2>3 DEF PInv, CheckHolds
  <2>4. QED
    BY <2>2, <2>3, OnlyPutsReplace DEF PInv
<1>3. QED
  BY <1>1, <1>2, NextPInv, PTL DEF Spec, Immutable
-------------------------------------------------------------------------------
(* Replays and forks *)

\* A document that a put replaced by another is marked as revised.
LEMMA PutKeepsUnrevised ==
    ASSUME NEW docs, NEW id, NEW doc, NEW x \in DOMAIN docs,
           id \in DOMAIN docs /\ docs[id] # doc => x # id
    PROVE  x \in DOMAIN Put(docs, id, doc) /\ Put(docs, id, doc)[x] = docs[x]
BY DEF Put

\* A graph or an incident that is not marked as revised is as it was.
LEMMA ContentsStay ==
    ASSUME RInv, [Next]_vars
    PROVE  /\ revised \subseteq revised' /\ scenarios \subseteq scenarios'
           /\ \A g \in DOMAIN snapshots : g \notin revised' => snapshots'[g] = snapshots[g]
           /\ \A i \in DOMAIN incidents : i \notin revised' => incidents'[i] = incidents[i]
<1> DEFINE Goal ==
        /\ revised \subseteq revised' /\ scenarios \subseteq scenarios'
        /\ \A g \in DOMAIN snapshots : g \notin revised' => snapshots'[g] = snapshots[g]
        /\ \A i \in DOMAIN incidents : i \notin revised' => incidents'[i] = incidents[i]
<1>1. CASE UNCHANGED <<snapshots, incidents>> /\ revised \subseteq revised' /\ scenarios \subseteq scenarios'
  BY <1>1
<1>2. ASSUME NEW w \in Workers, NEW i \in Incidents, NEW content \in IncidentContents,
             PostIncident(w, i, content)
      PROVE  Goal
  <2>1. revised' = IF i \in DOMAIN incidents /\ incidents[i] # content
                   THEN revised \cup {i} ELSE revised
    BY <1>2 DEF PostIncident, Revises
  <2>2. \A x \in DOMAIN incidents : x \notin revised' => incidents'[x] = incidents[x]
    BY <1>2, <2>1, PutKeepsUnrevised DEF PostIncident
  <2>3. QED
    BY <1>2, <2>1, <2>2 DEF PostIncident
<1>3. ASSUME NEW w \in Workers, PutReplaces(w) PROVE Goal
  <2> DEFINE r == worker[w]
  <2>1. CASE UNCHANGED <<snapshots, revised>>
    BY <1>3, <2>1 DEF PutReplaces
  <2>2. CASE snapshots' = Put(snapshots, r.id, r.doc) /\ Revises(snapshots, r.id, r.doc)
    <3>1. revised' = IF r.id \in DOMAIN snapshots /\ snapshots[r.id] # r.doc
                     THEN revised \cup {r.id} ELSE revised
      BY <2>2 DEF Revises
    <3>2. \A x \in DOMAIN snapshots : x \notin revised' => snapshots'[x] = snapshots[x]
      BY <2>2, <3>1, PutKeepsUnrevised
    <3>3. QED
      BY <1>3, <3>1, <3>2 DEF PutReplaces
  <2>3. QED
    BY <1>3, <2>1, <2>2 DEF PutReplaces
<1>4. CASE Crash
  BY <1>4 DEF Crash
<1>5. ASSUME NEW w \in Workers, Request(w),
             ~ \E i \in Incidents, content \in IncidentContents : PostIncident(w, i, content)
      PROVE  /\ UNCHANGED <<snapshots, incidents>>
             /\ revised \subseteq revised' /\ scenarios \subseteq scenarios'
  BY <1>5 DEF Request, PostSnapshot, Compile, Run, ReplayReads, SaveCase, ForkBegins, store
<1>6. ASSUME NEW w \in Workers, Serve(w), ~ PutReplaces(w)
      PROVE  /\ UNCHANGED <<snapshots, incidents>>
             /\ revised \subseteq revised' /\ scenarios \subseteq scenarios'
  BY <1>6 DEF Serve, PutChecks, Executes, StoresRun, StoresCase, ForkChecks, ReplayCompares,
     store
<1>7. CASE UNCHANGED vars
  BY <1>7 DEF vars, store
<1>8. QED
  BY <1>1, <1>2, <1>3, <1>4, <1>5, <1>6, <1>7 DEF Next

\* What a scenario rests on is as it was, unless it is marked as revised.
LEMMA Steady ==
    ASSUME RInv, [Next]_vars, NEW scenario, Compiles(scenario), Unrevised(scenario)'
    PROVE  /\ Unrevised(scenario)
           /\ Outcome(scenario)' = Outcome(scenario)
           /\ \A weights : CaseFile(scenario, weights)' = CaseFile(scenario, weights)
<1>1. /\ Unrevised(scenario)
      /\ snapshots'[scenario.graph] = snapshots[scenario.graph]
      /\ incidents'[scenario.incident] = incidents[scenario.incident]
  BY ContentsStay DEF Unrevised, Compiles
<1>2. QED
  BY <1>1 DEF Outcome, CaseFile

\* So what was true of a run, of a case file and of a fork stays true.
LEMMA TruthStays ==
    ASSUME RInv, [Next]_vars
    PROVE  /\ \A id : id.scenario \in scenarios /\ TrueRun(id) => TrueRun(id)'
           /\ \A file : (ByClient(file) \/ file.scenario \in scenarios) /\ TrueFile(file) =>
                              TrueFile(file)'
           /\ \A id, case : id.parent \in DOMAIN cases /\ TrueFork(id, case) =>
                              TrueFork(id, case)'
<1>1. \A scenario \in scenarios : Compiles(scenario)
  BY DEF RInv, RecordsResolve
<1>2. ASSUME NEW id, id.scenario \in scenarios, TrueRun(id) PROVE TrueRun(id)'
  BY <1>1, <1>2, Steady DEF TrueRun
<1>3. ASSUME NEW file, ByClient(file) \/ file.scenario \in scenarios, TrueFile(file)
      PROVE  TrueFile(file)'
  BY <1>1, <1>3, Steady DEF TrueFile
<1>4. ASSUME NEW id, NEW case, id.parent \in DOMAIN cases, TrueFork(id, case)
      PROVE  TrueFork(id, case)'
  <2> DEFINE child == Child(id.parent.scenario, id.actions)
  <2> SUFFICES ASSUME id.parent \notin revised'
               PROVE  TrueFork(id, case)'
    BY DEF TrueFork
  <2>1. /\ id.parent \notin revised /\ id.parent.scenario \in scenarios
        /\ child.graph = id.parent.scenario.graph
        /\ child.incident = id.parent.scenario.incident
    <3>1. id.parent \notin revised
      BY ContentsStay
    <3>2. id.parent.scenario \in scenarios /\ id.parent.scenario \in Scenarios
      BY <1>4, <3>1, DerivedTypes DEF RInv, CaseIds
    <3>3. QED
      BY <3>1, <3>2 DEF Child, Scenarios
  <2>2. /\ Compiles(child) /\ Compiles(id.parent.scenario)
        /\ Unrevised(id.parent.scenario)' => Unrevised(child)'
    BY <1>1, <2>1 DEF Compiles, Unrevised
  <2>3. Unrevised(id.parent.scenario)' =>
           Unrevised(id.parent.scenario) /\ Outcome(child)' = Outcome(child)
    BY <2>2, Steady
  <2>4. QED
    BY <1>4, <2>1, <2>3 DEF TrueFork, ForkedCase
<1>5. QED
  BY <1>2, <1>3, <1>4

\* So does what a worker holds while it holds it.
LEMMA HeldStaysTrue ==
    ASSUME RInv, [Next]_vars, NEW r, Resolves(r, scenarios, runs, DOMAIN cases, revised), TrueHeld(r)
    PROVE  TrueHeld(r)'
<1>1. r.pc \in {"ran", "run stored"} => TrueRun(r.id)' /\ TrueFile(r.file)'
  BY TruthStays DEF Resolves, TrueHeld
<1>2. r.pc = "simulated" \/ (r.pc \in {"putting", "replacing"} /\ r.kind = "fork")
        => TrueFork(r.id, r.doc.case)'
  BY TruthStays DEF Resolves, TrueHeld, ForkResolves
<1>3. r.pc = "replaying" => TrueFile(r.file)'
  <2>1. r.pc = "replaying" => ByClient(r.file) \/ r.file.scenario \in scenarios
    BY DEF Resolves, FileResolves, RInv, RecordsResolve
  <2>2. QED
    BY <2>1, TruthStays DEF TrueHeld
<1>4. QED
  BY <1>1, <1>2, <1>3 DEF TrueHeld

\* The worker that moves holds something true, the others what they held.
LEMMA WorkersStayTrue ==
    ASSUME RInv, [Next]_vars, WorkersAreTrue, NEW w \in Workers, NEW to, Goes(w, to),
           TrueHeld(to)'
    PROVE  WorkersAreTrue'
<1> SUFFICES ASSUME NEW v \in Workers, NEW r, r = worker'[v] PROVE TrueHeld(r)'
  BY DEF WorkersAreTrue
<1>1. CASE v = w
  BY <1>1 DEF Goes, RInv, TypeOK
<1>2. CASE v # w
  <2>1. r = worker[v]
    BY <1>2 DEF Goes, RInv, TypeOK
  <2>2. TrueHeld(r) /\ Resolves(r, scenarios, runs, DOMAIN cases, revised)
    BY <2>1 DEF WorkersAreTrue, RInv, WorkersResolve
  <2>3. QED
    BY <2>2, HeldStaysTrue
<1>3. QED
  BY <1>1, <1>2

\* Records that stay are still true; only a new one needs an argument.
LEMMA RecordsStayTrue ==
    ASSUME TInv, [Next]_vars
    PROVE  /\ \A id \in runs : TrueRun(id)'
           /\ \A id \in DOMAIN cases : TrueFile(cases[id])
           /\ \A id \in DOMAIN cases : \A file : file = cases[id] => TrueFile(file)'
           /\ \A id \in DOMAIN forks : \A case : TrueFork(id, case) => TrueFork(id, case)'
           /\ UNCHANGED worker => WorkersAreTrue'
           /\ UNCHANGED answer /\ DOMAIN forks \subseteq DOMAIN forks' => AnswerIsTrue'
           /\ UNCHANGED answer => ReplayIsFaithful'
<1>1. /\ \A id \in runs : id.scenario \in scenarios
      /\ \A id \in DOMAIN cases : ByClient(cases[id]) \/ cases[id].scenario \in scenarios
      /\ \A id \in DOMAIN forks : id.parent \in DOMAIN cases
  BY DEF TInv, RInv, RecordsResolve
<1>2. /\ \A id \in runs : TrueRun(id)'
      /\ \A id \in DOMAIN cases : TrueFile(cases[id])
      /\ \A id \in DOMAIN cases : \A file : file = cases[id] => TrueFile(file)'
      /\ \A id \in DOMAIN forks : \A case : TrueFork(id, case) => TrueFork(id, case)'
  BY <1>1, TruthStays DEF TInv, RunsAreTrue, CasesAreTrue
<1>3. ASSUME UNCHANGED worker PROVE WorkersAreTrue'
  <2> SUFFICES ASSUME NEW v \in Workers, NEW r, r = worker[v] PROVE TrueHeld(r)'
    BY <1>3 DEF WorkersAreTrue
  <2>1. TrueHeld(r) /\ Resolves(r, scenarios, runs, DOMAIN cases, revised)
    BY DEF TInv, WorkersAreTrue, RInv, WorkersResolve
  <2>2. QED
    BY <2>1, HeldStaysTrue DEF TInv
<1>4. ASSUME UNCHANGED answer, DOMAIN forks \subseteq DOMAIN forks' PROVE AnswerIsTrue'
  BY <1>2, <1>4, ContentsStay DEF TInv, AnswerIsTrue
<1>5. ASSUME UNCHANGED answer PROVE ReplayIsFaithful'
  <2> SUFFICES ASSUME NEW a, a = answer, a.kind = "replay", Unrevised(a.case.scenario)'
               PROVE  /\ a.verdict = "match" <=> a.case.hashes = Outcome(a.case.scenario)'
                      /\ ByClient(a.case) \/ a.verdict = "match"
                      /\ a.case.weights = DefaultWeights => a.case = a.replayed
    BY <1>5 DEF ReplayIsFaithful, Unrevised, Outcome
  <2>1. a.case.scenario \in scenarios
    BY DEF TInv, AnswerIsTrue
  <2>2. Unrevised(a.case.scenario) /\ Outcome(a.case.scenario)' = Outcome(a.case.scenario)
    BY <2>1, Steady DEF TInv, RInv, RecordsResolve
  <2>3. QED
    BY <2>2 DEF TInv, ReplayIsFaithful
<1>6. QED
  BY <1>2, <1>3, <1>4, <1>5

Truth ==
    /\ RunsAreTrue /\ CasesAreTrue /\ ForksAreTrue /\ WorkersAreTrue
    /\ AnswerIsTrue /\ ReplayIsFaithful

\* A collection that did not change is still true.
LEMMA CollectionsStayTrue ==
    ASSUME TInv, [Next]_vars
    PROVE  /\ UNCHANGED runs => RunsAreTrue'
           /\ UNCHANGED cases => CasesAreTrue'
           /\ UNCHANGED forks => ForksAreTrue'
<1>1. UNCHANGED runs => RunsAreTrue'
  BY RecordsStayTrue DEF RunsAreTrue
<1>2. ASSUME UNCHANGED cases PROVE CasesAreTrue'
  <2> SUFFICES ASSUME NEW id \in DOMAIN cases, NEW file, file = cases[id]
               PROVE  TrueFile(file)'
    BY <1>2 DEF CasesAreTrue, TrueFile
  <2>1. QED
    BY RecordsStayTrue
<1>3. ASSUME UNCHANGED forks PROVE ForksAreTrue'
  <2> SUFFICES ASSUME NEW id \in DOMAIN forks, NEW case, case = forks[id].case
               PROVE  TrueFork(id, case)'
    BY <1>3 DEF ForksAreTrue, TrueFork
  <2>1. TrueFork(id, case)
    BY DEF TInv, ForksAreTrue
  <2>2. QED
    BY <2>1, RecordsStayTrue
<1>4. QED
  BY <1>1, <1>2, <1>3

\* A step that stores no run, case or fork and gives no answer.
LEMMA QuietSteps ==
    ASSUME TInv, [Next]_vars, UNCHANGED <<runs, cases, forks, answer>>,
           \/ UNCHANGED worker
           \/ \E w \in Workers, to \in Held : Goes(w, to) /\ TrueHeld(to)'
    PROVE  Truth'
<1>1. RunsAreTrue' /\ CasesAreTrue' /\ ForksAreTrue' /\ AnswerIsTrue' /\ ReplayIsFaithful'
  BY CollectionsStayTrue, RecordsStayTrue
<1>2. WorkersAreTrue'
  BY RecordsStayTrue, WorkersStayTrue DEF TInv
<1>3. QED
  BY <1>1, <1>2 DEF Truth

\* Requests that are taken: a case a client saved says nothing about the default
\* weights, and an infeasible fork has no case.
LEMMA RequestTruth ==
    ASSUME TInv, [Next]_vars, NEW w \in Workers, Request(w)
    PROVE  Truth'
<1>1. ASSUME NEW i \in Incidents, NEW content \in IncidentContents,
             PostIncident(w, i, content)
      PROVE  Truth'
  BY <1>1, QuietSteps DEF PostIncident
<1>2. ASSUME NEW scenario \in Scenarios, Compile(w, scenario) PROVE Truth'
  BY <1>2, QuietSteps DEF Compile
<1>3. ASSUME NEW post \in ClientCases, SaveCase(w, post) PROVE Truth'
  <2>1. /\ UNCHANGED <<runs, forks, worker, answer>>
        /\ cases' = Put(cases, post.id, PostedFile(post))
    BY <1>3 DEF SaveCase
  <2>2. ByClient(PostedFile(post))
    BY DEF ByClient, PostedFile
  <2>3. CasesAreTrue'
    <3> SUFFICES ASSUME NEW x \in DOMAIN cases', NEW file, file = cases'[x]
                 PROVE  TrueFile(file)'
      BY DEF CasesAreTrue, TrueFile
    <3>1. CASE x = post.id
      <4>1. file = PostedFile(post)
        BY <2>1, <3>1 DEF Put
      <4>2. QED
        BY <2>2, <4>1 DEF TrueFile
    <3>2. CASE x # post.id
      <4>1. x \in DOMAIN cases /\ file = cases[x]
        BY <2>1, <3>2 DEF Put
      <4>2. QED
        BY <4>1, RecordsStayTrue
    <3>3. QED
      BY <3>1, <3>2
  <2>4. QED
    BY <2>1, <2>3, CollectionsStayTrue, RecordsStayTrue DEF Truth
<1>4. ASSUME NEW g \in Graphs, NEW graph \in GraphContents, PostSnapshot(w, g, graph)
      PROVE  Truth'
  <2> DEFINE to == [pc |-> "putting", kind |-> "snapshot", id |-> g, doc |-> graph]
  <2>1. to \in Held /\ TrueHeld(to)'
    BY DEF Held, Puts, TrueHeld
  <2>2. Goes(w, to) /\ UNCHANGED <<runs, cases, forks, answer>>
    BY <1>4 DEF PostSnapshot, store
  <2> HIDE DEF to
  <2>3. QED
    BY <2>1, <2>2, QuietSteps
<1>5. ASSUME NEW scenario \in Scenarios, NEW weights \in Weights, Run(w, scenario, weights)
      PROVE  Truth'
  <2> DEFINE to == [pc |-> "running", scenario |-> scenario, weights |-> weights, fork |-> None]
  <2>1. to \in Held /\ TrueHeld(to)'
    BY DEF Held, Running, Marks, TrueHeld
  <2>2. Goes(w, to) /\ UNCHANGED <<runs, cases, forks, answer>>
    BY <1>5 DEF Run, store
  <2> HIDE DEF to
  <2>3. QED
    BY <2>1, <2>2, QuietSteps
<1>6. ASSUME NEW id \in DOMAIN cases, ReplayReads(w, id) PROVE Truth'
  <2> PICK file \in CaseFiles : file = cases[id]
    BY DEF TInv, RInv, TypeOK
  <2> DEFINE to == [pc |-> "replaying", id |-> id, file |-> file]
  <2>1. TrueFile(file)'
    BY RecordsStayTrue
  <2>2. to \in Held /\ TrueHeld(to)'
    BY <2>1 DEF TInv, RInv, TypeOK, Held, Replaying, TrueHeld
  <2>3. Goes(w, to) /\ UNCHANGED <<runs, cases, forks, answer>>
    BY <1>6 DEF ReplayReads, store
  <2> HIDE DEF to
  <2>4. QED
    BY <2>2, <2>3, QuietSteps
<1>7. ASSUME NEW parent \in DOMAIN cases, NEW actions \in ActionSets,
             NEW mustReverse \in Overrides, ForkBegins(w, parent, actions, mustReverse)
      PROVE  Truth'
  <2> DEFINE id == ForkId(parent, actions)
             feasible == actions \in Feasible /\ (mustReverse => actions \in Reversible)
             refused == [pc |-> "simulated", id |-> id,
                         doc |-> [case |-> None, created |-> requests']]
             accepted == [pc |-> "running", scenario |-> Child(cases[parent].scenario, actions),
                          weights |-> DefaultWeights,
                          fork |-> [id |-> id, created |-> requests']]
  <2>1. id.actions = actions /\ UNCHANGED <<runs, cases, forks, answer>>
    BY <1>7 DEF ForkId, ForkBegins
  <2>2. \/ ~ feasible /\ Goes(w, refused)
        \/ feasible /\ Goes(w, accepted)
    BY <1>7 DEF ForkBegins
  <2>3. PICK to \in Held : /\ Goes(w, to)
                           /\ \/ ~ feasible /\ to = refused
                              \/ feasible /\ to = accepted
    <3>1. worker'[w] \in Held
      BY NextRInv DEF TInv, RInv, TypeOK
    <3>2. \A to : Goes(w, to) => worker'[w] = to
      BY DEF Goes, TInv, RInv, TypeOK
    <3>3. QED
      BY <2>2, <3>1, <3>2
  <2>4. TrueHeld(to)'
    <3>1. CASE ~ feasible /\ to = refused
      <4>1. to.pc = "simulated" /\ to.id = id /\ to.doc.case = None
        BY <3>1
      <4>2. actions \in Reversible => actions \notin Feasible
        BY <3>1
      <4>3. TrueFork(to.id, to.doc.case)'
        BY <2>1, <4>1, <4>2 DEF TrueFork, ForkedCase
      <4>4. QED
        BY <4>1, <4>3 DEF TrueHeld
    <3>2. CASE feasible /\ to = accepted
      <4>1. to.pc = "running" /\ to.fork.id.actions = actions
        BY <2>1, <3>2
      <4>2. QED
        BY <3>2, <4>1 DEF TrueHeld
    <3>3. QED
      BY <2>3, <3>1, <3>2
  <2>5. QED
    BY <2>1, <2>3, <2>4, QuietSteps
<1>8. QED
  BY <1>1, <1>2, <1>3, <1>4, <1>5, <1>6, <1>7 DEF Request

\* A run that was just simulated is what the store makes of its scenario.
LEMMA ExecutesTruth ==
    ASSUME TInv, [Next]_vars, NEW w \in Workers, Executes(w)
    PROVE  Truth'
<1> PICK r \in Running : r = worker[w]
  BY HoldsByPoint DEF Executes, On, TInv, RInv
<1> PICK id \in CaseIds, file \in CaseFiles :
         id = Outcome(r.scenario) /\ file = CaseFile(r.scenario, r.weights)
  BY DerivedTypes DEF TInv, RInv, WorkersResolve, Resolves, Running
<1> DEFINE to == [pc |-> "ran", id |-> id, file |-> file, fork |-> r.fork]
<1>1. Goes(w, to) /\ UNCHANGED <<snapshots, incidents, runs, cases, forks, answer>>
  BY DEF Executes, store
<1>2. id.scenario = r.scenario
  BY DEF Outcome
<1>3. TrueRun(id)' /\ TrueFile(file)'
  BY <1>1, <1>2 DEF TrueRun, TrueFile, Outcome, CaseFile
<1>4. r.fork # None => r.fork.id.actions \in Feasible
  BY DEF TInv, WorkersAreTrue, TrueHeld, Running
<1>5. to \in Held /\ TrueHeld(to)'
  BY <1>3, <1>4 DEF Held, Running, Ran, TrueHeld
<1> HIDE DEF to
<1>6. QED
  BY <1>1, <1>5, QuietSteps

\* The run that is stored is true.
LEMMA StoresRunTruth ==
    ASSUME TInv, [Next]_vars, NEW w \in Workers, StoresRun(w)
    PROVE  Truth'
<1> PICK r \in Ran : r = worker[w]
  BY HoldsByPoint DEF StoresRun, On, TInv, RInv
<1> DEFINE to == [r EXCEPT !.pc = "run stored"]
<1>1. /\ Goes(w, to) /\ UNCHANGED <<cases, forks, answer>> /\ runs' = runs \cup {r.id}
      /\ r.pc = "ran"
  BY DEF StoresRun, On
<1>2. TrueHeld(r)' /\ TrueHeld(r)
  BY HeldStaysTrue DEF TInv, WorkersAreTrue, RInv, WorkersResolve
<1>3. /\ to.pc = "run stored" /\ to.id = r.id /\ to.file = r.file /\ to.fork = r.fork
  BY DEF Ran
<1> HIDE DEF to
<1>4. TrueHeld(to)'
  BY <1>1, <1>2, <1>3 DEF TrueHeld
<1>5. RunsAreTrue'
  BY <1>1, <1>2, RecordsStayTrue DEF RunsAreTrue, TrueHeld
<1>6. WorkersAreTrue'
  BY <1>1, <1>4, WorkersStayTrue DEF TInv
<1>7. QED
  BY <1>1, <1>5, <1>6, CollectionsStayTrue, RecordsStayTrue DEF Truth

\* The case that is stored is true, and so is the fork that goes on with it: its
\* scenario is the child of its parent's.
LEMMA StoresCaseTruth ==
    ASSUME TInv, [Next]_vars, NEW w \in Workers, StoresCase(w)
    PROVE  Truth'
<1> PICK r \in Ran : r = worker[w] /\ r.pc = "run stored"
  BY HoldsByPoint DEF StoresCase, On, TInv, RInv
<1> DEFINE forked == [pc |-> "simulated", id |-> r.fork.id,
                      doc |-> [case |-> r.id, created |-> r.fork.created]]
<1>1. /\ UNCHANGED <<runs, forks, answer, revised>> /\ cases' = Put(cases, r.id, r.file)
      /\ \/ r.fork = None /\ Goes(w, Idle)
         \/ r.fork # None /\ Goes(w, forked)
  BY DEF StoresCase
<1>2. /\ TrueHeld(r)' /\ TrueHeld(r) /\ Resolves(r, scenarios, runs, DOMAIN cases, revised)
  BY HeldStaysTrue DEF TInv, WorkersAreTrue, RInv, WorkersResolve
<1>3. TrueFile(r.file)' /\ TrueRun(r.id)'
  BY <1>2 DEF TrueHeld
<1>4. CasesAreTrue'
  <2> SUFFICES ASSUME NEW x \in DOMAIN cases', NEW file, file = cases'[x]
               PROVE  TrueFile(file)'
    BY DEF CasesAreTrue, TrueFile
  <2>1. CASE x = r.id
    <3>1. file = r.file
      BY <1>1, <2>1 DEF Put
    <3>2. QED
      BY <1>3, <2>1, <3>1
  <2>2. CASE x # r.id
    <3>1. x \in DOMAIN cases /\ file = cases[x]
      BY <1>1, <2>2 DEF Put
    <3>2. QED
      BY <3>1, RecordsStayTrue
  <2>3. QED
    BY <2>1, <2>2
<1>5. CASE r.fork = None /\ Goes(w, Idle)
  <2>1. TrueHeld(Idle)'
    BY DEF Idle, TrueHeld
  <2>2. WorkersAreTrue'
    BY <1>5, <2>1, WorkersStayTrue DEF TInv
  <2>3. QED
    BY <1>1, <1>4, <2>2, CollectionsStayTrue, RecordsStayTrue DEF Truth
<1>6. CASE r.fork # None /\ Goes(w, forked)
  <2> DEFINE parent == r.fork.id.parent
             child == Child(parent.scenario, r.fork.id.actions)
  <2>1. /\ parent \in DOMAIN cases /\ r.fork.id.actions \in Feasible
        /\ parent \in revised \/ r.id.scenario = child
    BY <1>2, <1>6 DEF Resolves, MarkResolves, TrueHeld
  <2>2. child.graph = parent.scenario.graph /\ child.incident = parent.scenario.incident
    <3>1. parent.scenario \in Scenarios
      BY <2>1 DEF TInv, RInv, TypeOK, CaseIds
    <3>2. QED
      BY <3>1 DEF Child, Scenarios
  <2>3. Unrevised(parent.scenario)' /\ parent \notin revised => r.id = Outcome(child)'
    BY <1>3, <2>1, <2>2 DEF TrueRun, Unrevised
  <2>4. TrueFork(r.fork.id, r.id)'
    BY <1>1, <2>1, <2>3 DEF TrueFork, ForkedCase
  <2>5. TrueHeld(forked)'
    BY <2>4 DEF TrueHeld
  <2> HIDE DEF forked
  <2>6. WorkersAreTrue'
    BY <1>6, <2>5, WorkersStayTrue DEF TInv
  <2>7. QED
    BY <1>1, <1>4, <2>6, CollectionsStayTrue, RecordsStayTrue DEF Truth
<1>7. QED
  BY <1>1, <1>5, <1>6

\* The check of a put passes on what the worker holds.
LEMMA PutChecksTruth ==
    ASSUME TInv, [Next]_vars, NEW w \in Workers, PutChecks(w)
    PROVE  Truth'
<1> PICK r \in Puts \cup ForkPuts : r = worker[w] /\ r.pc = "putting"
  BY HoldsByPoint DEF PutChecks, On, TInv, RInv
<1> DEFINE to == [r EXCEPT !.pc = "replacing"]
<1>1. /\ UNCHANGED <<runs, cases, forks, answer>>
      /\ Goes(w, Idle) \/ Goes(w, to)
  BY DEF PutChecks, store
<1>2. TrueHeld(r)'
  BY HeldStaysTrue DEF TInv, WorkersAreTrue, RInv, WorkersResolve
<1>3. Idle \in Held /\ TrueHeld(Idle)'
  BY DEF Held, Idle, TrueHeld
<1>4. /\ to \in Puts \cup ForkPuts
      /\ to.pc = "replacing" /\ to.kind = r.kind /\ to.id = r.id /\ to.doc = r.doc
  <2>1. CASE r \in Puts
    BY <2>1 DEF Puts
  <2>2. CASE r \in ForkPuts
    BY <2>2 DEF ForkPuts
  <2>3. QED
    BY <2>1, <2>2
<1> HIDE DEF to
<1>5. to \in Held /\ TrueHeld(to)'
  BY <1>2, <1>4 DEF Held, TrueHeld
<1>6. QED
  BY <1>1, <1>3, <1>5, QuietSteps

\* The fork that is stored and answered is true; so is every other.
LEMMA PutReplacesTruth ==
    ASSUME TInv, [Next]_vars, NEW w \in Workers, PutReplaces(w)
    PROVE  Truth'
<1> PICK r \in Puts \cup ForkPuts : r = worker[w] /\ r.pc = "replacing"
  BY HoldsByPoint DEF PutReplaces, On, TInv, RInv
<1>1. UNCHANGED <<runs, cases>> /\ Goes(w, Idle)
  BY DEF PutReplaces
<1>2. WorkersAreTrue'
  <2>1. TrueHeld(Idle)'
    BY DEF Idle, TrueHeld
  <2>2. QED
    BY <1>1, <2>1, WorkersStayTrue DEF TInv
<1>3. CASE UNCHANGED <<forks, answer>>
  BY <1>1, <1>2, <1>3, CollectionsStayTrue, RecordsStayTrue DEF Truth
<1>4. CASE /\ r.kind = "fork" /\ forks' = Put(forks, r.id, r.doc)
           /\ answer' = [kind |-> "fork", id |-> r.id, case |-> r.doc.case]
  <2>1. TrueFork(r.id, r.doc.case)'
    <3>1. TrueHeld(r)'
      BY HeldStaysTrue DEF TInv, WorkersAreTrue, RInv, WorkersResolve
    <3>2. QED
      BY <1>4, <3>1 DEF TrueHeld
  <2>2. ForksAreTrue'
    <3> SUFFICES ASSUME NEW x \in DOMAIN forks', NEW case, case = forks'[x].case
                 PROVE  TrueFork(x, case)'
      BY DEF ForksAreTrue, TrueFork
    <3>1. CASE x = r.id
      <4>1. case = r.doc.case
        BY <1>4, <3>1 DEF Put
      <4>2. QED
        BY <2>1, <3>1, <4>1
    <3>2. CASE x # r.id
      <4>1. x \in DOMAIN forks /\ case = forks[x].case
        BY <1>4, <3>2 DEF Put
      <4>2. TrueFork(x, case)
        BY <4>1 DEF TInv, ForksAreTrue
      <4>3. QED
        BY <4>1, <4>2, RecordsStayTrue
    <3>3. QED
      BY <3>1, <3>2
  <2>3. AnswerIsTrue'
    <3> SUFFICES ASSUME NEW a, a = answer'
                 PROVE  (a.id \in DOMAIN forks)' /\ TrueFork(a.id, a.case)'
      BY <1>4 DEF AnswerIsTrue
    <3>1. a.id = r.id /\ a.case = r.doc.case
      BY <1>4
    <3>2. r.id \in DOMAIN forks'
      BY <1>4 DEF Put
    <3>3. QED
      BY <2>1, <3>1, <3>2
  <2>4. ReplayIsFaithful'
    BY <1>4 DEF ReplayIsFaithful
  <2>5. QED
    BY <1>1, <1>2, <2>2, <2>3, <2>4, CollectionsStayTrue DEF Truth
<1>5. QED
  BY <1>3, <1>4 DEF PutReplaces

\* A fork that is stored already is answered with a true case.
LEMMA ForkChecksTruth ==
    ASSUME TInv, [Next]_vars, NEW w \in Workers, ForkChecks(w)
    PROVE  Truth'
<1> PICK r \in Simulated : r = worker[w] /\ r.pc = "simulated"
  BY HoldsByPoint DEF ForkChecks, On, TInv, RInv
<1> DEFINE to == [pc |-> "putting", kind |-> "fork", id |-> r.id, doc |-> r.doc]
<1>1. UNCHANGED <<runs, cases, forks>>
  BY DEF ForkChecks, store
<1>2. TrueFork(r.id, r.doc.case)'
  <2>1. TrueHeld(r)'
    BY HeldStaysTrue DEF TInv, WorkersAreTrue, RInv, WorkersResolve
  <2>2. QED
    BY <2>1 DEF TrueHeld
<1>3. CASE /\ r.id \in DOMAIN forks /\ Goes(w, Idle)
           /\ answer' = [kind |-> "fork", id |-> r.id, case |-> r.doc.case]
  <2>1. TrueHeld(Idle)'
    BY DEF Idle, TrueHeld
  <2>2. WorkersAreTrue'
    BY <1>3, <2>1, WorkersStayTrue DEF TInv
  <2>3. AnswerIsTrue'
    <3> SUFFICES ASSUME NEW a, a = answer'
                 PROVE  (a.id \in DOMAIN forks)' /\ TrueFork(a.id, a.case)'
      BY <1>3 DEF AnswerIsTrue
    <3>1. a.id = r.id /\ a.case = r.doc.case
      BY <1>3
    <3>2. QED
      BY <1>1, <1>2, <1>3, <3>1
  <2>4. ReplayIsFaithful'
    BY <1>3 DEF ReplayIsFaithful
  <2>5. QED
    BY <1>1, <2>2, <2>3, <2>4, CollectionsStayTrue DEF Truth
<1>4. CASE Goes(w, to) /\ UNCHANGED answer
  <2>1. to \in Held /\ TrueHeld(to)'
    BY <1>2 DEF Held, Simulated, ForkPuts, TrueHeld
  <2>2. Goes(w, to)
    BY <1>4
  <2> HIDE DEF to
  <2>3. QED
    BY <1>1, <1>4, <2>1, <2>2, QuietSteps
<1>5. QED
  BY <1>3, <1>4 DEF ForkChecks

\* A replay of an unrevised case finds the outcome that was stored, and the case file
\* if it was made with the weights a replay uses.
LEMMA ReplayComparesTruth ==
    ASSUME TInv, [Next]_vars, NEW w \in Workers, ReplayCompares(w)
    PROVE  Truth'
<1> PICK r \in Replaying : r = worker[w] /\ r.pc = "replaying"
  BY HoldsByPoint DEF ReplayCompares, On, TInv, RInv
<1>1. /\ UNCHANGED <<snapshots, incidents, scenarios, runs, cases, forks, revised>>
      /\ Goes(w, Idle)
  BY DEF ReplayCompares, store
<1>2. TrueFile(r.file)
  BY DEF TInv, WorkersAreTrue, TrueHeld
<1> DEFINE again == Outcome(r.file.scenario)
<1>3. \/ UNCHANGED answer
      \/ /\ r.file.scenario \in scenarios
         /\ answer'.kind = "replay" /\ answer'.case = r.file
         /\ answer'.replayed = CaseFile(r.file.scenario, DefaultWeights)
         /\ answer'.verdict = "match" <=> again = r.file.hashes
  <2>1. CASE UNCHANGED answer
    BY <2>1
  <2>2. ASSUME NEW verdict, Answers(r, verdict)
        PROVE  /\ answer'.kind = "replay" /\ answer'.case = r.file
               /\ answer'.replayed = CaseFile(r.file.scenario, DefaultWeights)
               /\ answer'.verdict = verdict
    BY <2>2 DEF Answers
  <2>3. ASSUME ~ UNCHANGED answer
        PROVE  /\ r.file.scenario \in scenarios
               /\ \E verdict : /\ Answers(r, verdict)
                               /\ verdict = "match" <=> again = r.file.hashes
    <3> DEFINE said == CASE again.scenario # r.file.hashes.scenario -> "other scenario"
                         [] again = r.file.hashes -> "match"
                         [] again.scenario = r.file.hashes.scenario
                            /\ again.graph # r.file.hashes.graph -> "other graph"
                         [] OTHER -> "mismatch"
    <3>1. r.file.scenario \in scenarios /\ Answers(r, said)
      BY <2>3 DEF ReplayCompares
    <3>2. said = "match" <=> again = r.file.hashes
      <4>1. CASE again = r.file.hashes
        BY <4>1
      <4>2. CASE again # r.file.hashes
        BY <4>2
      <4>3. QED
        BY <4>1, <4>2
    <3> HIDE DEF said
    <3>3. QED
      BY <3>1, <3>2
  <2>4. QED
    BY <2>2, <2>3
<1>4. ReplayIsFaithful'
  <2>1. CASE UNCHANGED answer
    BY <2>1, RecordsStayTrue
  <2>2. CASE ~ UNCHANGED answer
    <3> SUFFICES ASSUME Unrevised(r.file.scenario)
                 PROVE  /\ answer'.verdict = "match" <=> r.file.hashes = again
                        /\ ByClient(r.file) \/ answer'.verdict = "match"
                        /\ r.file.weights = DefaultWeights => r.file = answer'.replayed
      BY <1>1, <1>3, <2>2 DEF ReplayIsFaithful, Unrevised, Outcome
    <3>1. r.file.weights = DefaultWeights => ~ ByClient(r.file)
      BY CaseStoreAssumption DEF ByClient
    <3>2. QED
      BY <1>2, <1>3, <2>2, <3>1 DEF TrueFile
  <2>3. QED
    BY <2>1, <2>2
<1>5. AnswerIsTrue'
  <2>1. CASE UNCHANGED answer
    BY <1>1, <2>1, RecordsStayTrue
  <2>2. CASE ~ UNCHANGED answer
    BY <1>1, <1>3, <2>2 DEF AnswerIsTrue
  <2>3. QED
    BY <2>1, <2>2
<1>6. WorkersAreTrue'
  <2>1. TrueHeld(Idle)'
    BY DEF Idle, TrueHeld
  <2>2. QED
    BY <1>1, <2>1, WorkersStayTrue DEF TInv
<1>7. QED
  BY <1>1, <1>4, <1>5, <1>6, CollectionsStayTrue DEF Truth

\* Every step keeps the store, the requests in service and the answers true.
LEMMA NextTInv == TInv /\ [Next]_vars => TInv'
<1> SUFFICES ASSUME TInv, [Next]_vars PROVE Truth'
  BY NextRInv DEF TInv, Truth
<1>1. ASSUME NEW w \in Workers, Request(w) PROVE Truth'
  BY <1>1, RequestTruth
<1>2. ASSUME NEW w \in Workers, Serve(w) PROVE Truth'
  BY <1>2, PutChecksTruth, PutReplacesTruth, ExecutesTruth, StoresRunTruth, StoresCaseTruth,
     ForkChecksTruth, ReplayComparesTruth DEF Serve
<1>3. CASE Crash
  <2>1. UNCHANGED <<runs, cases, forks, answer>>
    BY <1>3 DEF Crash
  <2>2. WorkersAreTrue'
    <3>1. \A r \in {worker'[w] : w \in Workers} : r = Idle
      BY <1>3 DEF Crash
    <3>2. TrueHeld(Idle)'
      BY DEF Idle, TrueHeld
    <3>3. QED
      BY <3>1, <3>2 DEF WorkersAreTrue
  <2>3. QED
    BY <2>1, <2>2, CollectionsStayTrue, RecordsStayTrue DEF Truth
<1>4. CASE UNCHANGED vars
  BY <1>4, QuietSteps DEF vars, store
<1>5. QED
  BY <1>1, <1>2, <1>3, <1>4 DEF Next

\* Nothing is stored, in service or answered initially.
LEMMA InitTInv == Init => TInv
<1> SUFFICES ASSUME Init PROVE TInv
  OBVIOUS
<1>1. RunsAreTrue /\ CasesAreTrue /\ ForksAreTrue
  BY DEF Init, Empty, RunsAreTrue, CasesAreTrue, ForksAreTrue
<1>2. WorkersAreTrue
  <2>1. \A r \in {worker[w] : w \in Workers} : r = Idle
    BY DEF Init
  <2>2. TrueHeld(Idle)
    BY DEF Idle, TrueHeld
  <2>3. QED
    BY <2>1, <2>2 DEF WorkersAreTrue
<1>3. AnswerIsTrue /\ ReplayIsFaithful
  BY DEF Init, NoAnswer, AnswerIsTrue, ReplayIsFaithful
<1>4. QED
  BY <1>1, <1>2, <1>3, InitRInv DEF TInv

\* A replay of a case tells the truth unless what the case rests on was replaced.
THEOREM ReplayFaithful == Spec => []ReplayIsFaithful
<1>1. TInv => ReplayIsFaithful
  BY DEF TInv
<1>2. QED
  BY <1>1, InitTInv, NextTInv, PTL DEF Spec

\* One fork id, one fork: every answer is the case that was stored under the id, unless
\* what it rests on was replaced.
THEOREM ForkDeterministic == Spec => []ForkIsDeterministic
<1>1. TInv => ForkIsDeterministic
  BY DEF TInv, AnswerIsTrue, ForksAreTrue, TrueFork, ForkIsDeterministic
<1>2. QED
  BY <1>1, InitTInv, NextTInv, PTL DEF Spec
=============================================================================
