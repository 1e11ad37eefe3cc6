------------------------------- MODULE CaseStore -------------------------------
(***************************************************************************)
(* Snapshots, incidents, scenarios, runs, case files and containment forks *)
(* in the file store, and the replay of a case (backend/verine/api/        *)
(* service.py, repositories.py and routes.py, cases/runner.py and          *)
(* replay.py, analysis/forks.py).                                          *)
(*                                                                         *)
(* Every request is a plain `def` endpoint: it runs on a thread pool       *)
(* worker, interleaved with the others at each access to the store.        *)
(*                                                                         *)
(* Ids and hashes are what they are derived from.  A scenario is its       *)
(* semantic inputs.  The outcome of a simulation is the graph it ran on    *)
(* and the effect of the incident: two contents of an incident may have    *)
(* one effect.  A case id is a scenario and an outcome (scenario hash and  *)
(* run hash).  A case file has the id of its scenario and the hashes of    *)
(* its run; what else it says, its containment sets, depends on the        *)
(* content of the incident and on the weights of the optimizer.            *)
(***************************************************************************)
EXTENDS Naturals

CONSTANTS
    Workers,
    Graphs, GraphContents,         \* snapshot ids and the graphs posted under them
    Incidents, IncidentContents,
    Fixture,                       \* incident -> its content, of those the service seeds
    Effect,                        \* content of an incident -> what the models make of it
    NoActions, ActionSets,         \* sets of containment actions, the empty one included
    Feasible, Reversible,          \* those that pass the checks of build_fork
    Weights, DefaultWeights,
    Overrides,                     \* values of require_reversible_actions in requests
    ClientCases,                   \* the case files clients post: a client gives the id,
                                   \* the scenario and the hashes as it likes
    None,
    MaxRequests, MaxCrashes        \* bounds of the model

Effects == {Effect[x] : x \in IncidentContents}
Scenarios == [graph : Graphs, incident : Incidents, actions : ActionSets]
CaseIds == [scenario : Scenarios, graph : GraphContents, effect : Effects]
ForkIds == [parent : CaseIds, actions : ActionSets]

ASSUME CaseStoreAssumption ==
    /\ DOMAIN Fixture \subseteq Incidents
    /\ Fixture \in [DOMAIN Fixture -> IncidentContents]
    /\ Effect \in [IncidentContents -> Effects]
    /\ NoActions \in Feasible \cap Reversible
    /\ Feasible \subseteq ActionSets /\ Reversible \subseteq ActionSets
    /\ DefaultWeights \in Weights
    /\ Overrides \subseteq BOOLEAN
    /\ ClientCases \subseteq [id : CaseIds, scenario : Scenarios, hashes : CaseIds]
    /\ None \notin CaseIds \cup ForkIds \cup Weights
    /\ MaxRequests \in Nat /\ MaxCrashes \in Nat

VARIABLES
    snapshots,   \* id -> graph; like the other collections, of the ids that exist
    incidents,   \* id -> content
    scenarios,   \* the stored scenarios
    runs,        \* the stored runs; a run id has the parts of a case id
    cases,       \* case id -> the rest of the case file
    forks,       \* fork id -> its case (None if it was infeasible) and created_at,
                 \* which is the number of the request
    worker,      \* worker -> the request it serves
    answer,      \* the last answer to a fork or replay request
    revised,     \* ids of graphs and incidents whose content was ever replaced, and
                 \* of the cases a client ever posted
    overlapped,  \* was a request ever taken while another was being served?
    requests, crashes

store == <<snapshots, incidents, scenarios, runs, cases, forks>>
vars == <<store, worker, answer, revised, overlapped, requests, crashes>>

Empty == [id \in {} |-> None]
Revises(docs, id, doc) ==
    revised' = IF id \in DOMAIN docs /\ docs[id] # doc THEN revised \cup {id} ELSE revised

Put(docs, id, doc) == [x \in DOMAIN docs \cup {id} |-> IF x = id THEN doc ELSE docs[x]]

Idle == [pc |-> "idle"]
NoAnswer == [kind |-> "none"]

Init ==
    /\ snapshots = Empty /\ incidents = Fixture
    /\ scenarios = {} /\ runs = {}
    /\ cases = Empty /\ forks = Empty
    /\ worker = [w \in Workers |-> Idle]
    /\ answer = NoAnswer
    /\ revised = {}
    /\ overlapped = FALSE
    /\ requests = 0 /\ crashes = 0

\* A worker takes a request and goes on with it; some are over in one step.
Accept(w) ==
    /\ worker[w] = Idle /\ requests < MaxRequests
    /\ requests' = requests + 1
    /\ overlapped' = (overlapped \/ \E v \in Workers : worker[v] # Idle)
    /\ UNCHANGED crashes

Goes(w, to) == worker' = [worker EXCEPT ![w] = to]
On(w, pc) == worker[w].pc = pc /\ UNCHANGED <<overlapped, requests, crashes>>
-------------------------------------------------------------------------------
(* POST /incidents overwrites, POST /scenarios/compile stores what compiles *)

PostIncident(w, i, content) ==
    /\ Accept(w)
    /\ incidents' = Put(incidents, i, content)
    /\ Revises(incidents, i, content)
    /\ UNCHANGED <<snapshots, scenarios, runs, cases, forks, worker, answer>>

Compiles(scenario) ==
    scenario.graph \in DOMAIN snapshots /\ scenario.incident \in DOMAIN incidents

Compile(w, scenario) ==
    /\ Accept(w) /\ Compiles(scenario)
    /\ scenarios' = scenarios \cup {scenario}
    /\ UNCHANGED <<snapshots, incidents, runs, cases, forks, worker, answer, revised>>

\* POST /cases stores the file it gets, under the id in it, whatever is stored under that
\* id and whether its scenario and its run are stored or not.
PostedFile(post) ==
    [scenario |-> post.scenario, hashes |-> post.hashes, incident |-> None, weights |-> None]

SaveCase(w, post) ==
    /\ Accept(w)
    /\ cases' = Put(cases, post.id, PostedFile(post))
    /\ revised' = revised \cup {post.id}
    /\ UNCHANGED <<snapshots, incidents, scenarios, runs, forks, worker, answer>>
-------------------------------------------------------------------------------
(* FileStore.put with immutable: look at what is there, then replace the file *)

PostSnapshot(w, g, graph) ==
    /\ Accept(w)
    /\ Goes(w, [pc |-> "putting", kind |-> "snapshot", id |-> g, doc |-> graph])
    /\ UNCHANGED <<store, answer, revised>>

Docs(kind) == IF kind = "snapshot" THEN snapshots ELSE forks

\* A put that takes every document for a mutable one.
PutChecksNothing(w) ==
    /\ On(w, "putting")
    /\ Goes(w, [worker[w] EXCEPT !.pc = "replacing"])
    /\ UNCHANGED <<store, answer, revised>>

\* A different document under the id: ConflictError.
PutChecks(w) ==
    LET r == worker[w] IN
    /\ On(w, "putting")
    /\ IF r.id \in DOMAIN Docs(r.kind) /\ Docs(r.kind)[r.id] # r.doc
       THEN Goes(w, Idle)
       ELSE Goes(w, [r EXCEPT !.pc = "replacing"])
    /\ UNCHANGED <<store, answer, revised>>

PutReplaces(w) ==
    LET r == worker[w] IN
    /\ On(w, "replacing")
    /\ Goes(w, Idle)
    /\ \/ /\ r.kind = "snapshot"
          /\ snapshots' = Put(snapshots, r.id, r.doc)
          /\ Revises(snapshots, r.id, r.doc)
          /\ UNCHANGED <<forks, answer>>
       \/ /\ r.kind = "fork"
          /\ forks' = Put(forks, r.id, r.doc)
          /\ answer' = [kind |-> "fork", id |-> r.id, case |-> r.doc.case]
          /\ UNCHANGED <<snapshots, revised>>
    /\ UNCHANGED <<incidents, scenarios, runs, cases>>
-------------------------------------------------------------------------------
(* run_simulation, on its own or for a fork *)

\* What compiled_from_stored and execute_scenario make of a scenario now.
Outcome(scenario) ==
    [scenario |-> scenario, graph |-> snapshots[scenario.graph],
     effect |-> Effect[incidents[scenario.incident]]]

CaseFile(scenario, weights) ==
    [scenario |-> scenario, hashes |-> Outcome(scenario),
     incident |-> incidents[scenario.incident], weights |-> weights]

Run(w, scenario, weights) ==
    /\ Accept(w) /\ scenario \in scenarios
    /\ Goes(w, [pc |-> "running", scenario |-> scenario, weights |-> weights, fork |-> None])
    /\ UNCHANGED <<store, answer, revised>>

Executes(w) ==
    LET r == worker[w] IN
    /\ On(w, "running")
    /\ Goes(w, [pc |-> "ran", id |-> Outcome(r.scenario),
                file |-> CaseFile(r.scenario, r.weights), fork |-> r.fork])
    /\ UNCHANGED <<store, answer, revised>>

StoresRun(w) ==
    /\ On(w, "ran")
    /\ runs' = runs \cup {worker[w].id}
    /\ Goes(w, [worker[w] EXCEPT !.pc = "run stored"])
    /\ UNCHANGED <<snapshots, incidents, scenarios, cases, forks, answer, revised>>

\* A fork that names the case it was forked from.
StoresParentCase(w) ==
    LET r == worker[w] IN
    /\ On(w, "run stored")
    /\ cases' = Put(cases, r.id, r.file)
    /\ Goes(w, IF r.fork = None THEN Idle
               ELSE [pc |-> "simulated", id |-> r.fork.id,
                     doc |-> [case |-> r.fork.id.parent, created |-> r.fork.created]])
    /\ UNCHANGED <<snapshots, incidents, scenarios, runs, forks, answer, revised>>

StoresCase(w) ==
    LET r == worker[w] IN
    /\ On(w, "run stored")
    /\ cases' = Put(cases, r.id, r.file)
    /\ Goes(w, IF r.fork = None THEN Idle
               ELSE [pc |-> "simulated", id |-> r.fork.id,
                     doc |-> [case |-> r.id, created |-> r.fork.created]])
    /\ UNCHANGED <<snapshots, incidents, scenarios, runs, forks, answer, revised>>
-------------------------------------------------------------------------------
(* fork_case and build_fork *)

\* A slip: a fork identified by its parent only.
ForkIdOfParent(parent, actions) == [parent |-> parent, actions |-> NoActions]

ForkId(parent, actions) == [parent |-> parent, actions |-> actions]

Child(scenario, actions) == [scenario EXCEPT !.actions = actions]

\* The scenario is the one the case file of the parent names, which a client may have
\* posted: NotFoundError if it is not stored.  An infeasible fork is not simulated;
\* neither is one that must be reversible and is not.  The override is no part of the
\* fork's id.
ForkBegins(w, parent, actions, mustReverse) ==
    LET id == ForkId(parent, actions)
        feasible == actions \in Feasible /\ (mustReverse => actions \in Reversible)
        scenario == Child(cases[parent].scenario, actions)
    IN
    /\ Accept(w) /\ parent \in DOMAIN cases /\ cases[parent].scenario \in scenarios
    /\ \/ /\ ~ feasible
          /\ Goes(w, [pc |-> "simulated", id |-> id,
                      doc |-> [case |-> None, created |-> requests']])
          /\ UNCHANGED scenarios
       \/ /\ feasible
          /\ scenarios' = scenarios \cup {scenario}
          /\ Goes(w, [pc |-> "running", scenario |-> scenario, weights |-> DefaultWeights,
                      fork |-> [id |-> id, created |-> requests']])
    /\ UNCHANGED <<snapshots, incidents, runs, cases, forks, answer, revised>>

\* A fork that was stored before is answered, not stored, whatever was stored.
ForkChecks(w) ==
    LET r == worker[w] IN
    /\ On(w, "simulated")
    /\ \/ /\ r.id \in DOMAIN forks
          /\ answer' = [kind |-> "fork", id |-> r.id, case |-> r.doc.case]
          /\ Goes(w, Idle)
       \/ /\ r.id \notin DOMAIN forks
          /\ Goes(w, [pc |-> "putting", kind |-> "fork", id |-> r.id, doc |-> r.doc])
          /\ UNCHANGED answer
    /\ UNCHANGED <<store, revised>>
-------------------------------------------------------------------------------
(* replay *)

ReplayReads(w, id) ==
    /\ Accept(w) /\ id \in DOMAIN cases
    /\ Goes(w, [pc |-> "replaying", id |-> id, file |-> cases[id]])
    /\ UNCHANGED <<store, answer, revised>>

Answers(r, verdict) ==
    answer' = [kind |-> "replay", id |-> r.id, verdict |-> verdict, case |-> r.file,
               replayed |-> CaseFile(r.file.scenario, DefaultWeights)]

\* A replay that leaves out the scheduled actions of the scenario.
ReplayWithoutActions(w) ==
    LET r == worker[w]
        again == Outcome(Child(r.file.scenario, NoActions))
    IN
    /\ On(w, "replaying")
    /\ Goes(w, Idle)
    /\ r.file.scenario \in scenarios
    /\ Answers(r, IF again = r.file.hashes THEN "match" ELSE "mismatch")
    /\ UNCHANGED <<store, revised>>

\* The scenario the file names is compiled again (NotFoundError if it is not stored); the
\* scenario hash is compared, the graph hash, then the run hash.  The case file made on
\* the way is not compared.
ReplayCompares(w) ==
    LET r == worker[w]
        again == Outcome(r.file.scenario)
    IN
    /\ On(w, "replaying")
    /\ Goes(w, Idle)
    /\ \/ r.file.scenario \notin scenarios /\ UNCHANGED answer
       \/ /\ r.file.scenario \in scenarios
          /\ Answers(r, CASE again.scenario # r.file.hashes.scenario -> "other scenario"
                          [] again = r.file.hashes -> "match"
                          [] again.scenario = r.file.hashes.scenario
                             /\ again.graph # r.file.hashes.graph -> "other graph"
                          [] OTHER -> "mismatch")
    /\ UNCHANGED <<store, revised>>
-------------------------------------------------------------------------------
\* The process ends and starts again, and writes its fixture again, whatever was posted
\* under the same ids.
Reseeded(docs) == [i \in DOMAIN docs |-> IF i \in DOMAIN Fixture THEN Fixture[i] ELSE docs[i]]

Crash ==
    /\ crashes < MaxCrashes
    /\ crashes' = crashes + 1
    /\ worker' = [w \in Workers |-> Idle]
    /\ incidents' = Reseeded(incidents)
    /\ revised' = revised \cup {i \in DOMAIN incidents : incidents'[i] # incidents[i]}
    /\ UNCHANGED <<snapshots, scenarios, runs, cases, forks, answer, overlapped, requests>>

Request(w) ==
    \/ \E i \in Incidents, content \in IncidentContents : PostIncident(w, i, content)
    \/ \E g \in Graphs, graph \in GraphContents : PostSnapshot(w, g, graph)
    \/ \E scenario \in Scenarios, weights \in Weights :
          Compile(w, scenario) \/ Run(w, scenario, weights)
    \/ \E post \in ClientCases : SaveCase(w, post)
    \/ \E id \in DOMAIN cases : ReplayReads(w, id)
    \/ \E id \in DOMAIN cases, actions \in ActionSets, mustReverse \in Overrides :
          ForkBegins(w, id, actions, mustReverse)

Serve(w) ==
    \/ PutChecks(w) \/ PutReplaces(w)
    \/ Executes(w) \/ StoresRun(w) \/ StoresCase(w)
    \/ ForkChecks(w) \/ ReplayCompares(w)

Next == (\E w \in Workers : Request(w) \/ Serve(w)) \/ Crash

Spec == Init /\ [][Next]_vars
-------------------------------------------------------------------------------
(* Properties *)

ForkDocs == [case : CaseIds \cup {None}, created : Nat]
CaseFiles == [scenario : Scenarios, hashes : CaseIds,
              incident : IncidentContents \cup {None}, weights : Weights \cup {None}]
Marks == [id : ForkIds, created : Nat] \cup {None}

\* What a worker holds at each point of a request.
Puts == [pc : {"putting", "replacing"}, kind : {"snapshot"}, id : Graphs, doc : GraphContents]
ForkPuts == [pc : {"putting", "replacing"}, kind : {"fork"}, id : ForkIds, doc : ForkDocs]
Running == [pc : {"running"}, scenario : Scenarios, weights : Weights, fork : Marks]
Ran == [pc : {"ran", "run stored"}, id : CaseIds, file : CaseFiles, fork : Marks]
Simulated == [pc : {"simulated"}, id : ForkIds, doc : ForkDocs]
Replaying == [pc : {"replaying"}, id : CaseIds, file : CaseFiles]
Held == {Idle} \cup Puts \cup ForkPuts \cup Running \cup Ran \cup Simulated \cup Replaying

\* Every variable keeps its type.
TypeOK ==
    /\ DOMAIN snapshots \subseteq Graphs /\ snapshots \in [DOMAIN snapshots -> GraphContents]
    /\ DOMAIN incidents \subseteq Incidents
    /\ incidents \in [DOMAIN incidents -> IncidentContents]
    /\ scenarios \subseteq Scenarios /\ runs \subseteq CaseIds
    /\ DOMAIN cases \subseteq CaseIds /\ cases \in [DOMAIN cases -> CaseFiles]
    /\ DOMAIN forks \subseteq ForkIds /\ forks \in [DOMAIN forks -> ForkDocs]
    /\ worker \in [Workers -> Held]
    /\ answer \in {NoAnswer}
                 \cup [kind : {"fork"}, id : ForkIds, case : CaseIds \cup {None}]
                 \cup [kind : {"replay"}, id : CaseIds,
                       verdict : {"match", "mismatch", "other graph", "other scenario"},
                       case : CaseFiles, replayed : CaseFiles]
    /\ revised \subseteq Graphs \cup Incidents \cup CaseIds
    /\ overlapped \in BOOLEAN
    /\ requests \in 0 .. MaxRequests /\ crashes \in 0 .. MaxCrashes

ByClient(file) == file.weights = None

\* No record refers to one that is not there, whatever crashed between two writes: a run
\* has its scenario, a scenario its graph and incident, a case file, unless a client
\* posted it, the run and the scenario of its id; a fork has its parent and, if it was
\* simulated, a case of its own actions that was run: of its parent's scenario, unless a
\* client posted the parent.
RecordsResolve ==
    /\ \A scenario \in scenarios : Compiles(scenario)
    /\ \A id \in runs : id.scenario \in scenarios
    /\ \A id \in DOMAIN cases : \/ ByClient(cases[id]) /\ id \in revised
                                \/ /\ cases[id].scenario = id.scenario /\ cases[id].hashes = id
                                   /\ id \in runs
    /\ \A id \in DOMAIN forks :
          /\ id.parent \in DOMAIN cases
          /\ LET case == forks[id].case IN
             case # None =>
                /\ case \in DOMAIN cases \cap runs /\ case.scenario.actions = id.actions
                /\ \/ id.parent \in revised
                   \/ case.scenario = Child(id.parent.scenario, id.actions)

\* As long as requests are served one after the other, a stored graph or fork is
\* never replaced by another (repositories.py:6-7).  Two overlapping puts of one new id
\* both pass the check before either replaces the file.
Immutable ==
    [][~ overlapped =>
          /\ \A g \in DOMAIN snapshots : snapshots'[g] = snapshots[g]
          /\ \A id \in DOMAIN forks : forks'[id] = forks[id]]_vars

Unrevised(scenario) == revised \cap {scenario.graph, scenario.incident} = {}

\* A replay tells the truth (replay.py:1).  Unless the incident of its scenario (or, by a
\* race, its graph) was replaced, a case file is said to match if and only if the hashes
\* in it are those of its scenario, whoever stored it; they are if the service did.  And
\* if the service did with the default weights, which a replay uses, the replay made the
\* very same case file.
ReplayIsFaithful ==
    answer.kind = "replay" /\ Unrevised(answer.case.scenario) =>
        /\ answer.verdict = "match" <=> answer.case.hashes = Outcome(answer.case.scenario)
        /\ ByClient(answer.case) \/ answer.verdict = "match"
        /\ answer.case.weights = DefaultWeights => answer.case = answer.replayed

\* One fork id, one fork: unless what it rests on was replaced or posted, every request
\* for a fork is answered with the run that was stored under its id.  (An irreversible
\* fork is infeasible or not by a flag of the request that its id leaves out.)
ForkIsDeterministic ==
    /\ answer.kind = "fork"
    /\ Unrevised(answer.id.parent.scenario) /\ answer.id.parent \notin revised
    /\ answer.id.actions \in Reversible
    => answer.case = forks[answer.id].case
=============================================================================
