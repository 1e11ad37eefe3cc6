------------------------------- MODULE LLMGateway -------------------------------
(***************************************************************************)
(* A call of a language model, from end to end (llm_complete of backend/   *)
(* verine/api/live_service.py with the adapters of providers/llm/ and      *)
(* validation.py): it takes the key of a credential and the evidence of a  *)
(* hypothesis, reserves a request of the budget, waits for the provider,   *)
(* checks what the answer cites, books it and stores the run.              *)
(*                                                                         *)
(* The coroutine gives up the event loop only while the provider works,    *)
(* but each of its writes, before and after, is a step: the thread pool    *)
(* changes the credential at any time, and a crash or an exception may cut *)
(* a call off between two writes.                                          *)
(***************************************************************************)
EXTENDS LLMBudget, CredentialVault

CONSTANTS
    Subjects,   \* hypothesis, task and model of a call
    Evidence,   \* evidence ids an answer may cite
    Outputs,    \* what a provider may answer
    MaxWork     \* bound on what is done: a step of the vault counts one, a call two

VARIABLES
    call,       \* waiting call -> its id and the evidence in its prompt
    busy,       \* what holds the event loop between two writes of a call: it has
                \* reserved, or its run is checked and booked, or stored too
    runs,       \* id -> the stored run
    announced,  \* how many llm_started, llm_completed and llm_failed events
    completed,  \* id and run that every llm_completed event told
    reused,     \* ids given to more than one call
    lost,       \* calls that ended without an event: with only the reservation made,
                \* with the provider asked, with the answer booked
    work        \* what has been done

gatewayVars == <<call, busy, runs, announced, completed, reused, lost, work>>
vars == <<budgetVars, vaultVars, gatewayVars>>

Free == [at |-> "free"]

Init ==
    /\ BudgetInit /\ VaultInit
    /\ call = [c \in Calls |-> Absent]
    /\ busy = Free
    /\ runs = [id \in Subjects \X Times |-> Absent]
    /\ announced = [started |-> 0, completed |-> 0, failed |-> 0]
    /\ completed = {} /\ reused = {}
    /\ lost = [reserved |-> 0, asked |-> 0, booked |-> 0]
    /\ work = 0
-------------------------------------------------------------------------------
(* validate_structured_output: an output is an object or not, lacks fields *)
(* or not, cites evidence, and observes a collection of items.  An item is *)
(* a claim with evidence ids, a bare sentence, or something else.          *)

Claims == [kind : {"claim"}, ids : SUBSET Evidence]
Bare == [kind |-> "sentence", ids |-> {}]
Other == [kind |-> "other", ids |-> {}]
Items == Claims \cup {Bare, Other}
StoredRuns == [valid : BOOLEAN, known : SUBSET Evidence, output : Outputs,
               marked : SUBSET Items]

ASSUME GatewayAssumption ==
    /\ \A output \in Outputs :
          /\ output.object \in BOOLEAN /\ output.complete \in BOOLEAN
          /\ output.cited \subseteq Evidence /\ output.observed \subseteq Items
    /\ Absent \notin StoredRuns

\* Only what the output cites as a whole counts.
UnsupportedAsWhole(output, known) ==
    {item \in output.observed : item.kind # "other" /\ output.cited = {}}

\* The items of an output that are marked as unsupported.  A bare sentence is
\* taken to rest on what the output cites as a whole.
Unsupported(output, known) ==
    {item \in output.observed :
        \/ item.kind = "claim" /\ (item.ids = {} \/ ~ item.ids \subseteq known)
        \/ item.kind = "sentence" /\ output.cited = {}}

Valid(output, known) ==
    output.object /\ output.complete /\ output.cited \subseteq known

\* A structured output is kept only if it is valid.
Checked(output, known) ==
    IF Valid(output, known)
    THEN [valid |-> TRUE, known |-> known, output |-> output,
          marked |-> Unsupported(output, known)]
    ELSE [valid |-> FALSE, known |-> known, output |-> output, marked |-> {}]
-------------------------------------------------------------------------------
(* llm_complete *)

\* The id is derived from what is asked and the time, in whole seconds.
RequestId(subject) == <<subject, now>>

\* The evidence records a prompt may contain: those of the hypothesis that are
\* stored.
Prompts == SUBSET Evidence

BusyAt(points) == busy.at \in points

\* A coroutine gets the event loop when no test and no other call holds it.
LoopIsFree == LoopFree /\ BusyAt({"free"})

\* Two reads of the credential, the prompt, the reservation.  A missing credential, a
\* key that does not decrypt, a missing hypothesis or an exhausted budget raise before
\* anything is written.
StartCall(c, subject, cred, known) ==
    LET id == RequestId(subject) IN
    /\ LoopIsFree
    /\ work' = work + 2 /\ work' <= MaxWork
    /\ vault[cred] # Absent
    /\ CheckAndReserve(c, None)
    /\ call' = [call EXCEPT ![c] = [id |-> id, known |-> known]]
    /\ busy' = [at |-> "reserved", call |-> c]
    /\ reused' = IF runs[id] # Absent \/ \E d \in waiting : call[d].id = id
                 THEN reused \cup {id} ELSE reused
    /\ UNCHANGED <<vaultVars, runs, announced, completed, lost>>

\* llm_started; then the call waits for the provider.
AnnounceStart ==
    /\ BusyAt({"reserved"})
    /\ announced' = [announced EXCEPT !.started = @ + 1]
    /\ busy' = Free
    /\ UNCHANGED <<budgetVars, vaultVars, call, runs, completed, reused, lost, work>>

\* The adapter returns: the output is checked against the evidence of the prompt and
\* the answer is booked.
BookAnswer(c, output, cost) ==
    /\ LoopIsFree
    /\ RecordSpend(c, cost)
    /\ busy' = [at |-> "booked", id |-> call[c].id, run |-> Checked(output, call[c].known)]
    /\ call' = [call EXCEPT ![c] = Absent]
    /\ UNCHANGED <<vaultVars, runs, announced, completed, reused, lost, work>>

StoreRun ==
    /\ BusyAt({"booked"})
    /\ runs' = [runs EXCEPT ![busy.id] = busy.run]
    /\ busy' = [at |-> "stored", id |-> busy.id, run |-> busy.run]
    /\ UNCHANGED <<budgetVars, vaultVars, call, announced, completed, reused, lost, work>>

\* llm_completed
AnnounceEnd ==
    /\ BusyAt({"stored"})
    /\ completed' = completed \cup {[id |-> busy.id, run |-> busy.run]}
    /\ announced' = [announced EXCEPT !.completed = @ + 1]
    /\ busy' = Free
    /\ UNCHANGED <<budgetVars, vaultVars, call, runs, reused, lost, work>>

\* A failure that is not announced.
FailCallQuietly(c, response) ==
    /\ LoopIsFree /\ ~ Accepted(response)
    /\ CallFails(c)
    /\ call' = [call EXCEPT ![c] = Absent]
    /\ UNCHANGED <<vaultVars, busy, runs, announced, completed, reused, lost, work>>

\* The provider refuses, or fails to answer, or the adapter makes nothing of the
\* answer: the reservation stands, llm_failed is appended.
FailCall(c, response) ==
    /\ LoopIsFree /\ ~ Accepted(response)
    /\ CallFails(c)
    /\ announced' = [announced EXCEPT !.failed = @ + 1]
    /\ call' = [call EXCEPT ![c] = Absent]
    /\ UNCHANGED <<vaultVars, busy, runs, completed, reused, lost, work>>

\* Outside the try around the provider an exception ends the call with what it has
\* written: an append raises on a stream that does not parse, a put on a full disk, the
\* check on an observation it cannot iterate or an id it cannot look up.  An answer that
\* is not booked yet never is; one that is stays booked, its run stored or not.
StartRaises(c) ==
    /\ BusyAt({"reserved"}) /\ busy.call = c
    /\ CallFails(c)
    /\ lost' = [lost EXCEPT !.reserved = @ + 1]
    /\ call' = [call EXCEPT ![c] = Absent]
    /\ busy' = Free
    /\ UNCHANGED <<vaultVars, runs, announced, completed, reused, work>>

CheckRaises(c) ==
    /\ LoopIsFree
    /\ CallFails(c)
    /\ lost' = [lost EXCEPT !.asked = @ + 1]
    /\ call' = [call EXCEPT ![c] = Absent]
    /\ UNCHANGED <<vaultVars, busy, runs, announced, completed, reused, work>>

EndRaises ==
    /\ BusyAt({"booked", "stored"})
    /\ lost' = [lost EXCEPT !.booked = @ + 1]
    /\ busy' = Free
    /\ UNCHANGED <<budgetVars, vaultVars, call, runs, announced, completed, reused, work>>

Count(condition) == IF condition THEN 1 ELSE 0

\* The process ends and starts again: documents stay, requests do not.
Crash ==
    /\ waiting' = {}
    /\ lost' = [reserved |-> lost.reserved + Count(BusyAt({"reserved"})),
                asked |-> lost.asked + Cardinality(waiting) - Count(BusyAt({"reserved"})),
                booked |-> lost.booked + Count(BusyAt({"booked", "stored"}))]
    /\ call' = [c \in Calls |-> Absent]
    /\ busy' = Free
    /\ held' = [w \in Writers |-> Absent]
    /\ testing' = [t \in Tests |-> Absent]
    /\ UNCHANGED <<now, doc, admitted, bills, vault, issued, asked, overlapped,
                   runs, announced, completed, reused, work>>

Next ==
    \/ \E c \in Calls :
          \/ \E subject \in Subjects, cred \in Credentials, known \in Prompts :
                StartCall(c, subject, cred, known)
          \/ \E output \in Outputs, cost \in Costs : BookAnswer(c, output, cost)
          \/ \E response \in Responses : FailCall(c, response)
          \/ StartRaises(c) \/ CheckRaises(c)
    \/ AnnounceStart \/ StoreRun \/ AnnounceEnd \/ EndRaises
    \/ Crash
    \/ /\ VaultNext
       /\ BusyAt({"free"}) \/ UNCHANGED testing   \* a test needs the event loop
       /\ work' = work + 1 /\ work' <= MaxWork
       /\ UNCHANGED <<budgetVars, call, busy, runs, announced, completed, reused, lost>>
    \/ Tick /\ UNCHANGED <<vaultVars, gatewayVars>>

Spec == Init /\ [][Next]_vars
-------------------------------------------------------------------------------
(* Properties *)

\* Every reservation, answer and announcement is accounted for, wherever a call is cut
\* off: every answer is booked exactly once, on some day; every reserved request is
\* announced, every announced one comes to a booked answer or an announced failure, and
\* every booked answer is announced, except for the calls that are on the way and those
\* an exception or the end of the process cut off at that very point.
EveryCallAccounted ==
    /\ EveryAnswerBooked
    /\ Requests(admitted, Times) =
          announced.started + lost.reserved + Count(BusyAt({"reserved"}))
    /\ announced.started + Count(BusyAt({"reserved"})) =
          bills.answers + announced.failed + lost.asked + Cardinality(waiting)
    /\ bills.answers = announced.completed + lost.booked + Count(BusyAt({"booked", "stored"}))

\* A run that is announced can be read under its id, unless two calls got one id,
\* and no stored sentence goes unmarked unless evidence of the prompt carries it.
RunsAreHonest ==
    /\ \A told \in completed : runs[told.id] = told.run \/ told.id \in reused
    /\ \A id \in Subjects \X Times :
          runs[id] # Absent /\ runs[id].valid =>
              \A item \in runs[id].output.observed \ (runs[id].marked \cup {Other}) :
                  LET ids == IF item = Bare THEN runs[id].output.cited ELSE item.ids
                  IN  ids # {} /\ ids \subseteq runs[id].known
=============================================================================
