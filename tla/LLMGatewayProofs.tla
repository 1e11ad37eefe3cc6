---------------------------- MODULE LLMGatewayProofs ----------------------------
(***************************************************************************)
(* The vault stores what was asked for, stored runs say what was answered, *)
(* an hour admits no more calls than its limit, and every call and answer  *)
(* is accounted for, for any number of credentials, workers, tests, calls, *)
(* hours and costs, through crashes.                                       *)
(***************************************************************************)
EXTENDS LLMGateway, FiniteSetTheorems, WellFoundedInduction, TLAPS

\* A credential that no two requests wrote at a time has at most one copy outside
\* the vault, and that copy is current.
CopiesAreCurrent ==
    \A cred \in Credentials \ overlapped :
        /\ \A w \in Holders(cred) : vault[cred] # Absent /\ held[w].copy = vault[cred]
        /\ \A v, w \in Holders(cred) : v = w

\* An id that was never issued is neither stored nor being written.
OnlyIssued ==
    /\ \A cred \in Credentials : vault[cred] # Absent => cred \in issued
    /\ \A w \in Writers : held[w] # Absent => held[w].cred \in issued

VaultIInv == VaultTypeOK /\ OnlyIssued /\ CopiesAreCurrent /\ AsLastAsked
-------------------------------------------------------------------------------
(* The vault *)

\* A change of a document gives a document.
LEMMA ChangedIsDocument ==
    ASSUME NEW doc1 \in Documents, NEW change \in Changes
    PROVE  Changed(doc1, change) \in Documents
BY DEF Changed, Documents, Changes

\* An empty vault satisfies the invariant.
LEMMA InitVaultIInv == VaultInit => VaultIInv
BY DEF VaultInit, VaultIInv, VaultTypeOK, OnlyIssued, CopiesAreCurrent, AsLastAsked, Holders

\* A new id has no copies.
LEMMA CreateVaultIInv ==
    ASSUME VaultIInv, NEW cred \in Credentials, NEW key \in Keys, Create(cred, key)
    PROVE  VaultIInv'
<1> USE DEF VaultIInv
<1>1. VaultTypeOK'
  BY DEF VaultTypeOK, Create, Documents, Verdicts
<1>2. OnlyIssued'
  BY DEF OnlyIssued, VaultTypeOK, Create
<1>3. Holders(cred) = {} /\ \A c \in Credentials : Holders(c)' = Holders(c)
  BY DEF OnlyIssued, Holders, Create
<1>4. CopiesAreCurrent'
  BY <1>3 DEF CopiesAreCurrent, VaultTypeOK, Holders, Create
<1>5. AsLastAsked'
  BY DEF AsLastAsked, VaultTypeOK, Create
<1>6. QED
  BY <1>1, <1>2, <1>4, <1>5

\* A deletion while somebody holds a copy is an overlap.
LEMMA DeleteVaultIInv ==
    ASSUME VaultIInv, NEW cred \in Credentials, Delete(cred)
    PROVE  VaultIInv'
<1> USE DEF VaultIInv
<1>1. VaultTypeOK'
  BY DEF VaultTypeOK, Delete
<1>2. OnlyIssued'
  BY DEF OnlyIssued, VaultTypeOK, Delete
<1>3. \A c \in Credentials : Holders(c)' = Holders(c)
  BY DEF Holders, Delete
<1>4. cred \notin overlapped' => Holders(cred) = {}
  BY DEF Delete
<1>5. CopiesAreCurrent'
  <2> SUFFICES ASSUME NEW c \in Credentials, c \notin overlapped'
               PROVE  /\ \A w \in Holders(c)' : vault'[c] # Absent /\ held'[w].copy = vault'[c]
                      /\ \A v, w \in Holders(c)' : v = w
    BY DEF CopiesAreCurrent
  <2>1. CASE c = cred
    BY <1>3, <1>4, <2>1
  <2>2. CASE c # cred
    BY <1>3, <2>2 DEF CopiesAreCurrent, VaultTypeOK, Delete
  <2>3. QED
    BY <2>1, <2>2
<1>6. AsLastAsked'
  BY DEF AsLastAsked, VaultTypeOK, Delete
<1>7. QED
  BY <1>1, <1>2, <1>5, <1>6

\* A read while somebody else holds a copy is an overlap; otherwise the copy read is
\* the only one, and it is current.
LEMMA ReadVaultIInv ==
    ASSUME VaultIInv, NEW w \in Writers, NEW cred \in Credentials, NEW change \in Changes,
           Read(w, cred, change), UNCHANGED <<vault, issued, asked>>,
           testing' \in [Tests -> [cred : Credentials, copy : Documents] \cup {Absent}]
    PROVE  VaultIInv'
<1> USE DEF VaultIInv
<1>1. VaultTypeOK'
  BY DEF VaultTypeOK, Read
<1>2. OnlyIssued'
  <2> SUFFICES ASSUME NEW v \in Writers, held'[v] # Absent
               PROVE  held'[v].cred \in issued
    BY DEF OnlyIssued
  <2>1. CASE v = w
    BY <2>1 DEF OnlyIssued, VaultTypeOK, Read
  <2>2. CASE v # w
    BY <2>2 DEF OnlyIssued, VaultTypeOK, Read
  <2>3. QED
    BY <2>1, <2>2
<1>3. \A c \in Credentials \ {cred} : Holders(c)' = Holders(c)
  BY DEF Holders, Read, VaultTypeOK
<1>4. cred \notin overlapped' => Holders(cred) = {} /\ Holders(cred)' \subseteq {w}
  BY DEF Holders, Read, VaultTypeOK
<1>5. CopiesAreCurrent'
  <2> SUFFICES ASSUME NEW c \in Credentials, c \notin overlapped'
               PROVE  /\ \A v \in Holders(c)' : vault'[c] # Absent /\ held'[v].copy = vault'[c]
                      /\ \A u, v \in Holders(c)' : u = v
    BY DEF CopiesAreCurrent
  <2>1. CASE c = cred
    BY <1>4, <2>1 DEF Read, VaultTypeOK
  <2>2. CASE c # cred
    <3>1. Holders(c)' = Holders(c)
      BY <1>3, <2>2
    <3>2. \A v \in Holders(c) : held'[v] = held[v]
      BY <2>2 DEF Holders, Read, VaultTypeOK
    <3>3. c \notin overlapped
      BY DEF Read
    <3>4. QED
      BY <3>1, <3>2, <3>3 DEF CopiesAreCurrent
  <2>3. QED
    BY <2>1, <2>2
<1>6. AsLastAsked'
  BY DEF AsLastAsked, Read
<1>7. QED
  BY <1>1, <1>2, <1>5, <1>6

\* What is written back is the current document with the change that was asked for.
LEMMA WriteBackVaultIInv ==
    ASSUME VaultIInv, NEW w \in Writers, WriteBack(w)
    PROVE  VaultIInv'
<1> USE DEF VaultIInv
<1>1. held[w] \in [cred : Credentials, copy : Documents, change : Changes]
  BY DEF VaultTypeOK, WriteBack
<1>0. PICK cred \in Credentials : cred = held[w].cred
  BY <1>1
<1>2. VaultTypeOK'
  <2>1. Changed(held[w].copy, held[w].change) \in Documents
    BY <1>1, ChangedIsDocument
  <2>2. asked[cred] # Absent => Changed(asked[cred], held[w].change) \in Documents
    BY <1>0, <1>1, ChangedIsDocument DEF VaultTypeOK
  <2>3. QED
    BY <1>0, <1>1, <2>1, <2>2 DEF VaultTypeOK, WriteBack
<1>3. OnlyIssued'
  BY <1>1 DEF OnlyIssued, VaultTypeOK, WriteBack
<1>4. \A c \in Credentials : Holders(c)' \subseteq Holders(c)
  BY DEF Holders, WriteBack, VaultTypeOK
<1>5. w \in Holders(cred) /\ w \notin Holders(cred)'
  BY <1>0 DEF Holders, WriteBack, VaultTypeOK
<1>6. CopiesAreCurrent'
  <2> SUFFICES ASSUME NEW c \in Credentials, c \notin overlapped'
               PROVE  /\ \A v \in Holders(c)' : vault'[c] # Absent /\ held'[v].copy = vault'[c]
                      /\ \A u, v \in Holders(c)' : u = v
    BY DEF CopiesAreCurrent
  <2>0. c \notin overlapped
    BY DEF WriteBack
  <2>1. CASE c = cred
    <3>1. \A v \in Holders(cred) : v = w
      BY <1>5, <2>0, <2>1 DEF CopiesAreCurrent
    <3>2. Holders(cred)' = {}
      BY <1>4, <1>5, <3>1
    <3>3. QED
      BY <2>1, <3>2
  <2>2. CASE c # cred
    <3>1. vault'[c] = vault[c] /\ \A v \in Holders(c)' : held'[v] = held[v]
      BY <1>0, <2>2 DEF Holders, WriteBack, VaultTypeOK
    <3>2. QED
      BY <1>4, <2>0, <3>1 DEF CopiesAreCurrent
  <2>3. QED
    BY <2>1, <2>2
<1>7. AsLastAsked'
  <2> SUFFICES ASSUME NEW c \in Credentials, c \notin overlapped'
               PROVE  vault'[c] = asked'[c]
    BY DEF AsLastAsked
  <2>0. c \notin overlapped
    BY DEF WriteBack
  <2>1. CASE c = cred
    <3>1. vault[c] # Absent /\ held[w].copy = vault[c] /\ vault[c] = asked[c]
      BY <1>5, <2>0, <2>1 DEF CopiesAreCurrent, AsLastAsked
    <3>2. QED
      BY <1>0, <2>1, <3>1 DEF WriteBack, VaultTypeOK
  <2>2. CASE c # cred
    BY <1>0, <2>0, <2>2 DEF AsLastAsked, WriteBack, VaultTypeOK
  <2>3. QED
    BY <2>1, <2>2
<1>8. QED
  BY <1>2, <1>3, <1>6, <1>7

\* A step that leaves the documents alone and gives up copies keeps the invariant.
LEMMA QuietVaultIInv ==
    ASSUME VaultIInv, UNCHANGED <<vault, issued, asked, overlapped>>,
           held' = held \/ held' = [w \in Writers |-> Absent],
           testing' \in [Tests -> [cred : Credentials, copy : Documents] \cup {Absent}]
    PROVE  VaultIInv'
<1> USE DEF VaultIInv
<1>1. VaultTypeOK'
  BY DEF VaultTypeOK
<1>2. \A w \in Writers : held'[w] # Absent => held'[w] = held[w] /\ held[w] # Absent
  OBVIOUS
<1>3. OnlyIssued'
  BY <1>2 DEF OnlyIssued
<1>4. \A c \in Credentials : \A w \in Holders(c)' : w \in Holders(c) /\ held'[w] = held[w]
  BY <1>2 DEF Holders
<1>5. CopiesAreCurrent'
  BY <1>4 DEF CopiesAreCurrent
<1>6. AsLastAsked'
  BY DEF AsLastAsked
<1>7. QED
  BY <1>1, <1>3, <1>5, <1>6

\* Every step of the vault keeps the invariant.
LEMMA StepVaultIInv == VaultIInv /\ VaultNext => VaultIInv'
<1> SUFFICES ASSUME VaultIInv, VaultNext PROVE VaultIInv'
  OBVIOUS
<1>1. CASE \E cred \in Credentials, key \in Keys : Create(cred, key)
  BY <1>1, CreateVaultIInv
<1>2. CASE \E cred \in Credentials : Delete(cred)
  BY <1>2, DeleteVaultIInv
<1>3. ASSUME NEW cred \in Credentials, NEW w \in Workers, NEW key \in Keys,
             PatchReads(w, cred, key)
      PROVE  VaultIInv'
  <2>1. w \in Writers /\ Patch(key) \in Changes
    BY DEF Writers, Patch, Changes
  <2>2. testing' \in [Tests -> [cred : Credentials, copy : Documents] \cup {Absent}]
    BY <1>3 DEF PatchReads, VaultIInv, VaultTypeOK
  <2>3. Read(w, cred, Patch(key)) /\ UNCHANGED <<vault, issued, asked>>
    BY <1>3 DEF PatchReads
  <2>4. QED
    BY <2>1, <2>2, <2>3, ReadVaultIInv
<1>4. ASSUME NEW cred \in Credentials, NEW t \in Tests, TestBegins(t, cred)
      PROVE  VaultIInv'
  <2>1. testing' \in [Tests -> [cred : Credentials, copy : Documents] \cup {Absent}]
    BY <1>4 DEF TestBegins, VaultIInv, VaultTypeOK
  <2>2. UNCHANGED <<vault, issued, asked, overlapped>> /\ held' = held
    BY <1>4 DEF TestBegins
  <2>3. QED
    BY <2>1, <2>2, QuietVaultIInv
<1>5. CASE \E w \in Writers : WriteBack(w)
  BY <1>5, WriteBackVaultIInv
<1>6. ASSUME NEW t \in Tests, NEW response \in Responses, TestAnswered(t, response)
      PROVE  VaultIInv'
  <2>1. t \in Writers /\ testing[t].cred \in Credentials
    BY <1>6 DEF Writers, TestAnswered, VaultIInv, VaultTypeOK
  <2>2. Verdict(response) \in Verdicts
    BY <1>6, VaultAssumption DEF TestAnswered, Verdict, Verdicts, Accepted
  <2>3. Outcome(Verdict(response)) \in Changes
    BY <2>2 DEF Outcome, Changes
  <2>4. testing' \in [Tests -> [cred : Credentials, copy : Documents] \cup {Absent}]
    BY <1>6 DEF TestAnswered, VaultIInv, VaultTypeOK
  <2>5. /\ Read(t, testing[t].cred, Outcome(Verdict(response)))
        /\ UNCHANGED <<vault, issued, asked>>
    BY <1>6 DEF TestAnswered
  <2>6. QED
    BY <2>1, <2>3, <2>4, <2>5, ReadVaultIInv
<1>7. ASSUME NEW t \in Tests, TestFails(t)
      PROVE  VaultIInv'
  <2>1. testing' \in [Tests -> [cred : Credentials, copy : Documents] \cup {Absent}]
    BY <1>7 DEF TestFails, VaultIInv, VaultTypeOK
  <2>2. UNCHANGED <<vault, issued, asked, overlapped>> /\ held' = held
    BY <1>7 DEF TestFails
  <2>3. QED
    BY <2>1, <2>2, QuietVaultIInv
<1>8. QED
  BY <1>1, <1>2, <1>3, <1>4, <1>5, <1>6, <1>7 DEF VaultNext
-------------------------------------------------------------------------------
(* Calls and runs *)

Ids == Subjects \X Times

CallsTypeOK ==
    /\ now \in Times /\ waiting \in SUBSET Calls
    /\ call \in [Calls -> [id : Ids, known : SUBSET Evidence] \cup {Absent}]
    /\ \A c \in waiting : call[c] \in [id : Ids, known : SUBSET Evidence]
    /\ runs \in [Ids -> StoredRuns \cup {Absent}]
    /\ completed \in SUBSET [id : Ids, run : StoredRuns]
    /\ \/ busy = Free
       \/ busy \in [at : {"reserved"}, call : Calls]
       \/ busy \in [at : {"booked", "stored"}, id : Ids, run : StoredRuns]

\* A call whose id nobody else was given finds no run under it.
IdsAreFree ==
    /\ \A c \in waiting : call[c].id \in reused \/ runs[call[c].id] = Absent
    /\ \A c, d \in waiting : c # d /\ call[c].id = call[d].id => call[c].id \in reused
    /\ BusyAt({"booked"}) =>
          /\ busy.id \in reused \/ runs[busy.id] = Absent
          /\ \A d \in waiting : call[d].id = busy.id => busy.id \in reused

\* What is announced is stored, and what is stored was checked.
RunsAreChecked ==
    /\ \A told \in completed :
          /\ runs[told.id] # Absent
          /\ runs[told.id] = told.run \/ told.id \in reused
    /\ \A id \in Ids : runs[id] # Absent =>
          runs[id] = Checked(runs[id].output, runs[id].known)
    /\ BusyAt({"booked", "stored"}) => busy.run = Checked(busy.run.output, busy.run.known)
    /\ BusyAt({"stored"}) => runs[busy.id] = busy.run

CallsIInv == CallsTypeOK /\ IdsAreFree /\ RunsAreChecked

\* A checked output is a stored run.
LEMMA CheckedIsRun ==
    ASSUME NEW output \in Outputs, NEW known \in SUBSET Evidence
    PROVE  /\ Checked(output, known) \in StoredRuns
           /\ Checked(output, known).output = output
           /\ Checked(output, known).known = known
<1>1. Unsupported(output, known) \in SUBSET Items
  BY GatewayAssumption DEF Unsupported
<1>2. Valid(output, known) \in BOOLEAN
  BY DEF Valid
<1>3. QED
  BY <1>1, <1>2 DEF Checked, StoredRuns

\* What a checked output leaves unmarked rests on evidence of the prompt.
LEMMA UnmarkedIsSupported ==
    ASSUME NEW output \in Outputs, NEW known \in SUBSET Evidence,
           Checked(output, known).valid,
           NEW item \in output.observed \ (Checked(output, known).marked \cup {Other})
    PROVE  LET ids == IF item = Bare THEN output.cited ELSE item.ids
           IN  ids # {} /\ ids \subseteq known
<1>1. Valid(output, known) /\ Checked(output, known).marked = Unsupported(output, known)
  BY DEF Checked
<1>2. item \in Items /\ item # Other
  BY GatewayAssumption
<1>3. item \notin Unsupported(output, known)
  BY <1>1
<1>4. CASE item = Bare
  BY <1>1, <1>3, <1>4 DEF Unsupported, Valid, Bare
<1>5. CASE item # Bare
  <2>1. item \in Claims
    BY <1>2, <1>5 DEF Items
  <2>2. item.kind = "claim"
    BY <2>1 DEF Claims
  <2>3. QED
    BY <1>3, <1>5, <2>2 DEF Unsupported
<1>6. QED
  BY <1>4, <1>5

\* The invariant says what is promised of stored runs.
LEMMA CallsImplyHonest == CallsIInv => RunsAreHonest
<1> SUFFICES ASSUME CallsIInv PROVE RunsAreHonest
  OBVIOUS
<1>1. \A told \in completed : runs[told.id] = told.run \/ told.id \in reused
  BY DEF CallsIInv, RunsAreChecked
<1>2. ASSUME NEW id \in Ids, runs[id] # Absent, runs[id].valid,
             NEW item \in runs[id].output.observed \ (runs[id].marked \cup {Other})
      PROVE  LET ids == IF item = Bare THEN runs[id].output.cited ELSE item.ids
             IN  ids # {} /\ ids \subseteq runs[id].known
  <2>1. runs[id].output \in Outputs /\ runs[id].known \in SUBSET Evidence
    BY <1>2 DEF CallsIInv, CallsTypeOK, StoredRuns
  <2>2. runs[id] = Checked(runs[id].output, runs[id].known)
    BY <1>2 DEF CallsIInv, RunsAreChecked
  <2>3. QED
    BY <1>2, <2>1, <2>2, UnmarkedIsSupported
<1>3. QED
  BY <1>1, <1>2 DEF RunsAreHonest, Ids

\* Without calls there are no runs.
LEMMA InitCallsIInv == Init => CallsIInv
BY LLMBudgetAssumption
   DEF Init, BudgetInit, CallsIInv, CallsTypeOK, IdsAreFree, RunsAreChecked, Ids, Times,
       BusyAt, Free

\* A call that gets an id in use makes it a reused one.
LEMMA StartCallsIInv ==
    ASSUME CallsIInv, NEW c \in Calls, NEW subject \in Subjects, NEW cred \in Credentials,
           NEW known \in Prompts, StartCall(c, subject, cred, known)
    PROVE  CallsIInv'
<1> DEFINE id == <<subject, now>>
<1> USE DEF CallsIInv
<1>1. /\ c \notin waiting /\ waiting' = waiting \cup {c} /\ now' = now
      /\ call' = [call EXCEPT ![c] = [id |-> id, known |-> known]]
      /\ reused' = IF runs[id] # Absent \/ \E d \in waiting : call[d].id = id
                   THEN reused \cup {id} ELSE reused
      /\ busy' = [at |-> "reserved", call |-> c]
      /\ UNCHANGED <<runs, completed>>
  BY DEF StartCall, CheckAndReserve, RequestId
<1>2. id \in Ids /\ known \in SUBSET Evidence
  BY DEF CallsTypeOK, Ids, Prompts
<1>3. CallsTypeOK'
  BY <1>1, <1>2 DEF CallsTypeOK
<1>4. call'[c].id = id /\ \A d \in waiting : d # c /\ call'[d] = call[d]
  BY <1>1 DEF CallsTypeOK
<1>5. reused \subseteq reused'
  BY <1>1
<1>6. id \in reused' \/ (runs[id] = Absent /\ \A d \in waiting : call[d].id # id)
  BY <1>1
<1>7. IdsAreFree'
  <2>1. \A d \in waiting' : call'[d].id \in reused' \/ runs'[call'[d].id] = Absent
    BY <1>1, <1>4, <1>5, <1>6 DEF IdsAreFree
  <2>2. ASSUME NEW d \in waiting', NEW e \in waiting', d # e, call'[d].id = call'[e].id
        PROVE  call'[d].id \in reused'
    <3>1. CASE d = c
      BY <1>1, <1>4, <1>6, <2>2, <3>1
    <3>2. CASE e = c
      BY <1>1, <1>4, <1>6, <2>2, <3>2
    <3>3. CASE d # c /\ e # c
      BY <1>1, <1>4, <1>5, <2>2, <3>3 DEF IdsAreFree
    <3>4. QED
      BY <3>1, <3>2, <3>3
  <2>3. QED
    BY <1>1, <2>1, <2>2 DEF IdsAreFree, BusyAt
<1>8. RunsAreChecked'
  BY <1>1, <1>5 DEF RunsAreChecked, BusyAt
<1>9. QED
  BY <1>3, <1>7, <1>8

\* An answer that is booked has the run that will be stored.
LEMMA BookCallsIInv ==
    ASSUME CallsIInv, NEW c \in Calls, NEW output \in Outputs, NEW cost \in Costs,
           BookAnswer(c, output, cost)
    PROVE  CallsIInv'
<1> DEFINE run == Checked(output, call[c].known)
<1> USE DEF CallsIInv
<1>1. c \in waiting /\ call[c] \in [id : Ids, known : SUBSET Evidence]
  BY DEF CallsTypeOK, BookAnswer, RecordSpend
<1>2. PICK id \in Ids : id = call[c].id
  BY <1>1
<1>3. PICK stored \in StoredRuns : stored = run /\ stored = Checked(stored.output, stored.known)
  BY <1>1, CheckedIsRun
<1>4. /\ waiting' = waiting \ {c} /\ UNCHANGED <<now, runs, completed, reused>>
      /\ call' = [call EXCEPT ![c] = Absent]
      /\ busy' = [at |-> "booked", id |-> id, run |-> stored]
  BY <1>2, <1>3 DEF BookAnswer, RecordSpend
<1>5. \A d \in waiting' : d # c /\ call'[d] = call[d]
  BY <1>4 DEF CallsTypeOK
<1>6. CallsTypeOK'
  BY <1>4, <1>5 DEF CallsTypeOK
<1>7. IdsAreFree'
  <2>1. /\ \A d \in waiting' : call'[d].id \in reused' \/ runs'[call'[d].id] = Absent
        /\ \A d, e \in waiting' : d # e /\ call'[d].id = call'[e].id => call'[d].id \in reused'
    BY <1>4, <1>5 DEF IdsAreFree
  <2>2. busy'.id = id
    BY <1>4
  <2>3. id \in reused' \/ runs'[id] = Absent
    BY <1>1, <1>2, <1>4 DEF IdsAreFree
  <2>4. \A d \in waiting' : call'[d].id = id => id \in reused'
    BY <1>1, <1>2, <1>4, <1>5 DEF IdsAreFree
  <2>5. QED
    BY <2>1, <2>2, <2>3, <2>4 DEF IdsAreFree
<1>8. RunsAreChecked'
  BY <1>3, <1>4 DEF RunsAreChecked, BusyAt
<1>9. QED
  BY <1>6, <1>7, <1>8

\* A run is stored under an id where none was, unless the id is reused.
LEMMA StoreCallsIInv ==
    ASSUME CallsIInv, StoreRun
    PROVE  CallsIInv'
<1> USE DEF CallsIInv
<1>1. busy \in [at : {"booked", "stored"}, id : Ids, run : StoredRuns] /\ BusyAt({"booked"})
  BY DEF CallsTypeOK, StoreRun, BusyAt, Free
<1>2. PICK id \in Ids, stored \in StoredRuns :
         /\ id = busy.id /\ stored = busy.run
         /\ stored = Checked(stored.output, stored.known)
  BY <1>1 DEF RunsAreChecked, BusyAt
<1>3. /\ UNCHANGED <<now, waiting, call, completed, reused>>
      /\ runs' = [runs EXCEPT ![id] = stored]
      /\ busy' = [at |-> "stored", id |-> id, run |-> stored]
  BY <1>2 DEF StoreRun, budgetVars
<1>4. CallsTypeOK'
  BY <1>3 DEF CallsTypeOK
<1>5. \A i \in Ids : runs'[i] = IF i = id THEN stored ELSE runs[i]
  BY <1>3 DEF CallsTypeOK
<1>6. stored # Absent
  BY GatewayAssumption
<1>7. IdsAreFree'
  <2>1. ASSUME NEW d \in waiting' PROVE call'[d].id \in reused' \/ runs'[call'[d].id] = Absent
    <3>1. d \in waiting /\ call[d].id \in Ids
      BY <1>3 DEF CallsTypeOK
    <3>2. CASE call[d].id = id
      BY <1>1, <1>2, <1>3, <3>1, <3>2 DEF IdsAreFree
    <3>3. CASE call[d].id # id
      BY <1>3, <1>5, <3>1, <3>3 DEF IdsAreFree
    <3>4. QED
      BY <3>2, <3>3
  <2>2. QED
    BY <1>3, <2>1 DEF IdsAreFree, BusyAt
<1>8. RunsAreChecked'
  <2>1. ASSUME NEW told \in completed
        PROVE  /\ runs'[told.id] # Absent
               /\ runs'[told.id] = told.run \/ told.id \in reused
    <3>1. CASE told.id # id
      BY <1>5, <3>1 DEF RunsAreChecked, CallsTypeOK
    <3>2. CASE told.id = id
      BY <1>1, <1>2, <1>5, <1>6, <3>2 DEF RunsAreChecked, IdsAreFree
    <3>3. QED
      BY <3>1, <3>2
  <2>2. \A i \in Ids : runs'[i] # Absent => runs'[i] = Checked(runs'[i].output, runs'[i].known)
    BY <1>2, <1>5 DEF RunsAreChecked
  <2>3. busy'.run = stored /\ runs'[busy'.id] = busy'.run
    BY <1>3, <1>5
  <2>4. QED
    BY <1>2, <1>3, <2>1, <2>2, <2>3 DEF RunsAreChecked
<1>9. QED
  BY <1>4, <1>7, <1>8

\* What is announced is what was stored.
LEMMA AnnounceCallsIInv ==
    ASSUME CallsIInv, AnnounceEnd
    PROVE  CallsIInv'
<1> USE DEF CallsIInv
<1>1. /\ busy \in [at : {"booked", "stored"}, id : Ids, run : StoredRuns]
      /\ runs[busy.id] = busy.run
  BY DEF CallsTypeOK, RunsAreChecked, AnnounceEnd, BusyAt, Free
<1>0. busy.id \in Ids /\ busy.run \in StoredRuns
  BY <1>1
<1>2. PICK told \in [id : Ids, run : StoredRuns] :
         told = [id |-> busy.id, run |-> busy.run] /\ runs[told.id] = told.run
  <2> DEFINE new == [id |-> busy.id, run |-> busy.run]
  <2>1. new \in [id : Ids, run : StoredRuns] /\ runs[new.id] = new.run
    BY <1>0, <1>1
  <2>2. QED
    BY <2>1
<1>3. /\ UNCHANGED <<now, waiting, call, runs, reused>>
      /\ completed' = completed \cup {told} /\ busy' = Free
  BY <1>2 DEF AnnounceEnd, budgetVars
<1>4. CallsTypeOK'
  BY <1>3 DEF CallsTypeOK
<1>5. IdsAreFree'
  BY <1>3 DEF IdsAreFree, BusyAt, Free
<1>6. runs[told.id] # Absent
  BY <1>2, GatewayAssumption
<1>7. RunsAreChecked'
  BY <1>2, <1>3, <1>6 DEF RunsAreChecked, BusyAt, Free
<1>8. QED
  BY <1>4, <1>5, <1>7

\* A call that ends without an answer leaves the runs alone.
LEMMA EndCallsIInv ==
    ASSUME CallsIInv, now' \in Times, waiting' \subseteq waiting, busy' = busy \/ busy' = Free,
           UNCHANGED <<runs, completed, reused>>,
           call' \in [Calls -> [id : Ids, known : SUBSET Evidence] \cup {Absent}],
           \A c \in waiting' : call'[c] = call[c]
    PROVE  CallsIInv'
<1> USE DEF CallsIInv
<1>1. CallsTypeOK'
  BY DEF CallsTypeOK
<1>2. IdsAreFree'
  BY DEF IdsAreFree, BusyAt, Free
<1>3. RunsAreChecked'
  BY DEF RunsAreChecked, BusyAt, Free
<1>4. QED
  BY <1>1, <1>2, <1>3
-------------------------------------------------------------------------------
(* The gateway *)

IInv == VaultIInv /\ CallsIInv

\* Every step of the gateway keeps both invariants.
LEMMA StepIInv == IInv /\ [Next]_vars => IInv'
<1> SUFFICES ASSUME IInv, [Next]_vars PROVE IInv'
  OBVIOUS
<1> USE DEF IInv
<1>0. testing \in [Tests -> [cred : Credentials, copy : Documents] \cup {Absent}]
  BY DEF VaultIInv, VaultTypeOK
<1>1. ASSUME UNCHANGED vaultVars PROVE VaultIInv'
  BY <1>0, <1>1, QuietVaultIInv DEF vaultVars
<1>2. ASSUME UNCHANGED <<now, waiting, call, runs, completed, reused>>,
             busy' = busy \/ busy' = Free
      PROVE  CallsIInv'
  <2>1. /\ now' \in Times /\ waiting' \subseteq waiting
        /\ call' \in [Calls -> [id : Ids, known : SUBSET Evidence] \cup {Absent}]
        /\ \A d \in waiting' : call'[d] = call[d]
    BY <1>2 DEF CallsIInv, CallsTypeOK
  <2>2. QED
    BY <1>2, <2>1, EndCallsIInv
<1>3. ASSUME NEW c \in Calls, NEW subject \in Subjects, NEW cred \in Credentials,
             NEW known \in Prompts, StartCall(c, subject, cred, known)
      PROVE  IInv'
  BY <1>1, <1>3, StartCallsIInv DEF StartCall
<1>4. ASSUME NEW c \in Calls, NEW output \in Outputs, NEW cost \in Costs,
             BookAnswer(c, output, cost)
      PROVE  IInv'
  BY <1>1, <1>4, BookCallsIInv DEF BookAnswer
<1>11. ASSUME StoreRun PROVE IInv'
  BY <1>1, <1>11, StoreCallsIInv DEF StoreRun
<1>12. ASSUME AnnounceEnd PROVE IInv'
  BY <1>1, <1>12, AnnounceCallsIInv DEF AnnounceEnd
<1>13. ASSUME AnnounceStart \/ EndRaises PROVE IInv'
  BY <1>1, <1>2, <1>13 DEF AnnounceStart, EndRaises, budgetVars
<1>5. ASSUME NEW c \in Calls,
             StartRaises(c) \/ CheckRaises(c) \/ \E response \in Responses : FailCall(c, response)
      PROVE  IInv'
  <2>1. /\ waiting' = waiting \ {c} /\ call' = [call EXCEPT ![c] = Absent]
        /\ UNCHANGED <<now, runs, completed, reused, vaultVars>>
        /\ busy' = busy \/ busy' = Free
    BY <1>5 DEF StartRaises, CheckRaises, FailCall, CallFails
  <2>2. /\ now' \in Times /\ waiting' \subseteq waiting
        /\ call' \in [Calls -> [id : Ids, known : SUBSET Evidence] \cup {Absent}]
        /\ \A d \in waiting' : call'[d] = call[d]
    BY <2>1 DEF CallsIInv, CallsTypeOK
  <2>3. CallsIInv'
    BY <2>1, <2>2, EndCallsIInv
  <2>4. QED
    BY <1>1, <2>1, <2>3
<1>6. ASSUME Crash PROVE IInv'
  <2>1. VaultIInv'
    BY <1>6, QuietVaultIInv DEF Crash
  <2>2. CallsIInv'
    BY <1>6, EndCallsIInv DEF Crash, CallsIInv, CallsTypeOK
  <2>3. QED
    BY <2>1, <2>2
<1>7. ASSUME VaultNext,
             UNCHANGED <<budgetVars, call, busy, runs, announced, completed, reused, lost>>
      PROVE  IInv'
  BY <1>2, <1>7, StepVaultIInv DEF budgetVars
<1>8. ASSUME Tick, UNCHANGED <<vaultVars, gatewayVars>> PROVE IInv'
  <2>1. now' \in Times
    BY <1>8, LLMBudgetAssumption DEF Tick, CallsIInv, CallsTypeOK, Times
  <2>2. CallsIInv'
    BY <1>8, <2>1, EndCallsIInv DEF Tick, gatewayVars, CallsIInv, CallsTypeOK
  <2>3. QED
    BY <1>1, <1>8, <2>2
<1>9. ASSUME UNCHANGED vars PROVE IInv'
  BY <1>1, <1>2, <1>9 DEF vars, budgetVars, gatewayVars
<1>10. QED
  BY <1>3, <1>4, <1>5, <1>6, <1>7, <1>8, <1>9, <1>11, <1>12, <1>13 DEF Next

\* The invariant of both parts.
LEMMA Invariance == Spec => []IInv
<1>1. Init => IInv
  BY InitVaultIInv, InitCallsIInv DEF Init, IInv
<1>2. QED
  BY <1>1, StepIInv, PTL DEF Spec

\* The vault keeps its types.
THEOREM VaultTypeCorrect == Spec => []VaultTypeOK
BY Invariance, PTL DEF IInv, VaultIInv

\* The stored credential is what the answered requests add up to, unless requests
\* overlapped on it, for any number of credentials, patches and tests.
THEOREM VaultKeepsWhatWasAsked == Spec => []AsLastAsked
BY Invariance, PTL DEF IInv, VaultIInv

\* A run that was announced is the one stored under its id, unless two calls got one
\* id, and what a stored run leaves unmarked rests on evidence of its prompt.
THEOREM StoredRunsAreHonest == Spec => []RunsAreHonest
<1>1. IInv => RunsAreHonest
  BY CallsImplyHonest DEF IInv
<1>2. QED
  BY <1>1, Invariance, PTL
-------------------------------------------------------------------------------
(* Totals over finite sets: their order does not matter *)

\* A set of numbers has a least one: what is proved below about sizes rests on it.
LEMMA Least ==
    ASSUME NEW S, S \subseteq Nat, S # {}
    PROVE  \E m \in S : \A n \in S : m <= n
<1>1. PICK m \in S : \A n \in S : ~ (<<n, m>> \in OpToRel(<, Nat))
  BY NatLessThanWellFounded, WFMin
<1>2. \A n \in S : ~ (n < m)
  BY <1>1 DEF OpToRel
<1>3. QED
  BY <1>2

Chosen(s) == CHOOSE x \in s : TRUE

Total(f, S) == MapThenSumSet(LAMBDA x : f[x], S)

Adds(f, sum, D) ==
    sum = [s \in D |-> IF s = {} THEN 0 ELSE f[Chosen(s)] + sum[s \ {Chosen(s)}]]

LEMMA SumExists ==
    ASSUME NEW f, NEW S, IsFiniteSet(S)
    PROVE  \E sum : Adds(f, sum, SUBSET S)
<1> DEFINE All      == SUBSET S
           upTo(d)  == {s \in All : Cardinality(s) <= d}
           missing  == {d \in Nat : ~ \E sum : Adds(f, sum, upTo(d))}
<1> DEFINE size == Cardinality(S)
<1>1. /\ size \in Nat
      /\ \A s \in All : IsFiniteSet(s) /\ Cardinality(s) \in Nat /\ Cardinality(s) <= size
  BY FS_Subset, FS_CardinalityType
<1>2. \A s \in All : s # {} =>
         /\ Chosen(s) \in s /\ s \ {Chosen(s)} \in All
         /\ Cardinality(s \ {Chosen(s)}) = Cardinality(s) - 1
  <2> TAKE s \in All
  <2> HAVE s # {}
  <2>1. Chosen(s) \in s
    BY DEF Chosen
  <2>2. QED
    BY <1>1, <2>1, FS_RemoveElement
<1>3. \A s \in All : Cardinality(s) = 0 => s = {}
  BY <1>1, FS_EmptySet
<1>4. missing = {}
  <2> SUFFICES ASSUME missing # {} PROVE FALSE
    OBVIOUS
  <2>1. PICK d \in missing : \A m \in missing : d <= m
    BY Least
  <2>2. d # 0
    <3> SUFFICES ASSUME d = 0 PROVE FALSE
      OBVIOUS
    <3>1. \A s \in upTo(0) : s = {}
      BY <1>1, <1>3
    <3> DEFINE none == [s \in upTo(0) |-> 0]
    <3>2. Adds(f, none, upTo(0))
      BY <3>1 DEF Adds
    <3>3. QED
      BY <2>1, <3>2
  <2>3. d - 1 \in Nat /\ d \in Nat
    BY <2>2
  <2>4. d - 1 \notin missing
    <3> HIDE DEF missing
    <3>1. QED
      BY <2>1, <2>3
  <2>5. PICK sum : Adds(f, sum, upTo(d - 1))
    BY <2>3, <2>4
  <2> DEFINE next == [s \in upTo(d) |->
                        IF s = {} THEN 0 ELSE f[Chosen(s)] + sum[s \ {Chosen(s)}]]
  <2>6. \A s \in upTo(d - 1) : next[s] = sum[s]
    <3> TAKE s \in upTo(d - 1)
    <3>1. s \in upTo(d)
      BY <1>1, <2>3
    <3>2. sum[s] = IF s = {} THEN 0 ELSE f[Chosen(s)] + sum[s \ {Chosen(s)}]
      BY <2>5 DEF Adds
    <3>3. QED
      BY <3>1, <3>2
  <2>7. \A s \in upTo(d) : s # {} => s \ {Chosen(s)} \in upTo(d - 1)
    <3> TAKE s \in upTo(d)
    <3> HAVE s # {}
    <3> DEFINE rest == s \ {Chosen(s)}
    <3>1. rest \in All /\ Cardinality(rest) = Cardinality(s) - 1
      BY <1>2
    <3>2. Cardinality(s) \in Nat /\ Cardinality(s) <= d
      BY <1>1
    <3> HIDE DEF rest, All
    <3>3. rest \in upTo(d - 1)
      BY <2>3, <3>1, <3>2
    <3>4. QED
      BY <3>3 DEF rest
  <2>8. Adds(f, next, upTo(d))
    <3>1. next = [s \in upTo(d) |->
                    IF s = {} THEN 0 ELSE f[Chosen(s)] + next[s \ {Chosen(s)}]]
      <4>1. \A s \in upTo(d) :
               (IF s = {} THEN 0 ELSE f[Chosen(s)] + sum[s \ {Chosen(s)}])
               = (IF s = {} THEN 0 ELSE f[Chosen(s)] + next[s \ {Chosen(s)}])
        BY <2>6, <2>7
      <4> DEFINE other == [s \in upTo(d) |->
                    IF s = {} THEN 0 ELSE f[Chosen(s)] + next[s \ {Chosen(s)}]]
      <4>2. \A s \in upTo(d) : next[s] = other[s]
        BY <4>1
      <4>3. DOMAIN next = upTo(d) /\ DOMAIN other = upTo(d)
        OBVIOUS
      <4>4. next = [s \in upTo(d) |-> next[s]] /\ other = [s \in upTo(d) |-> other[s]]
        OBVIOUS
      <4> HIDE DEF next, other
      <4>5. next = other
        BY <4>2, <4>4
      <4>6. QED
        BY <4>5 DEF other
    <3>2. QED
      BY <3>1 DEF Adds
  <2>9. QED
    BY <2>1, <2>8
<1>5. size \notin missing
  BY <1>4
<1>6. upTo(size) = All
  BY <1>1
<1>7. QED
  BY <1>1, <1>5, <1>6

\* Two such sums agree on the sets both are defined on.
LEMMA SumsAgree ==
    ASSUME NEW f, NEW a, NEW b, NEW S, NEW T, IsFiniteSet(S), T \subseteq S,
           Adds(f, a, SUBSET S), Adds(f, b, SUBSET T)
    PROVE  a[T] = b[T]
<1> DEFINE wrong == {Cardinality(s) : s \in {t \in SUBSET T : a[t] # b[t]}}
<1>1. \A s \in SUBSET T : IsFiniteSet(s) /\ Cardinality(s) \in Nat /\ s \in SUBSET S
  BY FS_Subset, FS_CardinalityType
<1>2. ASSUME NEW u \in SUBSET T, a[u] # b[u] PROVE FALSE
  <2>1. wrong \subseteq Nat /\ wrong # {}
    BY <1>1, <1>2
  <2>2. PICK d \in wrong : \A m \in wrong : d <= m
    BY <2>1, Least
  <2>3. PICK t \in SUBSET T : a[t] # b[t] /\ Cardinality(t) = d
    OBVIOUS
  <2>4. /\ a[t] = IF t = {} THEN 0 ELSE f[Chosen(t)] + a[t \ {Chosen(t)}]
        /\ b[t] = IF t = {} THEN 0 ELSE f[Chosen(t)] + b[t \ {Chosen(t)}]
    BY <1>1 DEF Adds
  <2>5. t # {}
    BY <2>3, <2>4
  <2>6. Chosen(t) \in t
    BY <2>5 DEF Chosen
  <2> DEFINE rest == t \ {Chosen(t)}
  <2>7. rest \in SUBSET T /\ Cardinality(rest) = Cardinality(t) - 1
    BY <1>1, <2>6, FS_RemoveElement
  <2>8. Cardinality(t) \in Nat /\ Cardinality(rest) \in Nat
    BY <1>1, <2>7
  <2>9. a[rest] = b[rest]
    <3> SUFFICES ASSUME a[rest] # b[rest] PROVE FALSE
      OBVIOUS
    <3>1. Cardinality(rest) \in wrong
      BY <2>7
    <3> HIDE DEF wrong, rest
    <3>2. QED
      BY <2>2, <2>3, <2>7, <2>8, <3>1
  <2>10. QED
    BY <2>3, <2>4, <2>9
<1>3. QED
  BY <1>2

\* A total is such a sum.
LEMMA TotalIsSum ==
    ASSUME NEW f, NEW S, IsFiniteSet(S)
    PROVE  \E sum : Adds(f, sum, SUBSET S) /\ \A s \in SUBSET S : Total(f, s) = sum[s]
<1>1. ASSUME NEW T, IsFiniteSet(T)
      PROVE  \E sum : Adds(f, sum, SUBSET T) /\ Total(f, T) = sum[T]
  <2> DEFINE sum == CHOOSE g : g = [s \in SUBSET T |->
                       IF s = {} THEN 0
                       ELSE f[CHOOSE x \in s : TRUE] + g[s \ {CHOOSE x \in s : TRUE}]]
  <2>1. Total(f, T) = sum[T]
    BY DEF Total, MapThenSumSet, MapThenFoldSet
  <2>2. PICK h : Adds(f, h, SUBSET T)
    BY <1>1, SumExists
  <2>3. h = [s \in SUBSET T |->
               IF s = {} THEN 0
               ELSE f[CHOOSE x \in s : TRUE] + h[s \ {CHOOSE x \in s : TRUE}]]
    BY <2>2 DEF Adds, Chosen
  <2>4. sum = [s \in SUBSET T |->
                 IF s = {} THEN 0
                 ELSE f[CHOOSE x \in s : TRUE] + sum[s \ {CHOOSE x \in s : TRUE}]]
    BY <2>3
  <2>5. Adds(f, sum, SUBSET T)
    BY <2>4 DEF Adds, Chosen
  <2>6. QED
    BY <2>1, <2>5
<1>2. PICK sum : Adds(f, sum, SUBSET S)
  BY SumExists
<1>3. ASSUME NEW s \in SUBSET S PROVE Total(f, s) = sum[s]
  <2>1. IsFiniteSet(s)
    BY FS_Subset
  <2>2. PICK b : Adds(f, b, SUBSET s) /\ Total(f, s) = b[s]
    BY <1>1, <2>1
  <2>3. QED
    BY <1>2, <2>2, SumsAgree
<1>4. QED
  BY <1>2, <1>3

\* A total begins with whichever element is chosen.
LEMMA TotalUnfolds ==
    ASSUME NEW f, NEW S, IsFiniteSet(S)
    PROVE  /\ Total(f, {}) = 0
           /\ S # {} => /\ Chosen(S) \in S
                        /\ Total(f, S) = f[Chosen(S)] + Total(f, S \ {Chosen(S)})
<1>1. PICK sum : Adds(f, sum, SUBSET S) /\ \A s \in SUBSET S : Total(f, s) = sum[s]
  BY TotalIsSum
<1>2. \A s \in SUBSET S : sum[s] = IF s = {} THEN 0 ELSE f[Chosen(s)] + sum[s \ {Chosen(s)}]
  BY <1>1 DEF Adds
<1>3. S # {} => Chosen(S) \in S
  BY DEF Chosen
<1>4. QED
  BY <1>1, <1>2, <1>3

\* A total of naturals is a natural, and it takes its elements in any order.
LEMMA TotalTakes ==
    ASSUME NEW f, NEW S, IsFiniteSet(S), \A x \in S : f[x] \in Nat
    PROVE  /\ Total(f, S) \in Nat
           /\ \A x \in S : Total(f, S) = f[x] + Total(f, S \ {x})
<1> DEFINE Fine(s) == /\ Total(f, s) \in Nat
                      /\ \A x \in s : Total(f, s) = f[x] + Total(f, s \ {x})
           wrong   == {Cardinality(s) : s \in {t \in SUBSET S : ~ Fine(t)}}
<1>1. \A s \in SUBSET S : /\ IsFiniteSet(s) /\ Cardinality(s) \in Nat
                          /\ \A x \in s : /\ s \ {x} \in SUBSET S
                                          /\ Cardinality(s \ {x}) = Cardinality(s) - 1
  BY FS_Subset, FS_CardinalityType, FS_RemoveElement
<1>2. ASSUME NEW u \in SUBSET S, ~ Fine(u) PROVE FALSE
  <2>1. wrong \subseteq Nat /\ wrong # {}
    BY <1>1, <1>2
  <2>2. PICK d \in wrong : \A m \in wrong : d <= m
    BY <2>1, Least
  <2>3. PICK t \in SUBSET S : ~ Fine(t) /\ Cardinality(t) = d
    OBVIOUS
  <2>4. \A s \in SUBSET S : Cardinality(s) < Cardinality(t) => Fine(s)
    <3> SUFFICES ASSUME NEW s \in SUBSET S, Cardinality(s) < Cardinality(t), ~ Fine(s)
                 PROVE  FALSE
      OBVIOUS
    <3>1. Cardinality(s) \in wrong
      OBVIOUS
    <3>2. Cardinality(s) \in Nat /\ Cardinality(t) \in Nat
      BY <1>1
    <3> HIDE DEF wrong
    <3>3. QED
      BY <2>2, <2>3, <3>1, <3>2
  <2>5. t # {}
    <3>1. Total(f, {}) = 0
      BY TotalUnfolds
    <3>2. Fine({})
      BY <3>1
    <3> HIDE DEF Fine
    <3>3. QED
      BY <2>3, <3>2
  <2> DEFINE c == Chosen(t)
  <2>6. c \in t /\ Total(f, t) = f[c] + Total(f, t \ {c})
    BY <1>1, <2>5, TotalUnfolds
  <2>7. \A x \in t : Fine(t \ {x})
    <3>1. \A x \in t : Cardinality(t \ {x}) < Cardinality(t) /\ t \ {x} \in SUBSET S
      BY <1>1
    <3> HIDE DEF Fine
    <3>2. QED
      BY <2>4, <3>1
  <2>8. \A x \in t : f[x] \in Nat /\ Total(f, t \ {x}) \in Nat
    BY <2>7
  <2>9. Total(f, t) \in Nat
    BY <2>6, <2>8
  <2>10. ASSUME NEW x \in t PROVE Total(f, t) = f[x] + Total(f, t \ {x})
    <3>1. CASE x = c
      BY <2>6, <3>1
    <3>2. CASE x # c
      <4> DEFINE rest == t \ {x, c}
      <4>1. (t \ {x}) \ {c} = rest /\ (t \ {c}) \ {x} = rest
        OBVIOUS
      <4>2. Total(f, t \ {x}) = f[c] + Total(f, rest)
        BY <2>6, <2>7, <3>2, <4>1
      <4>3. Total(f, t \ {c}) = f[x] + Total(f, rest) /\ Total(f, rest) \in Nat
        <5>1. x \in t \ {c}
          BY <3>2
        <5>2. Total(f, t \ {c}) = f[x] + Total(f, rest)
          BY <2>6, <2>7, <4>1, <5>1
        <5>3. rest \in SUBSET S /\ Cardinality(rest) < Cardinality(t)
          <6>1. (t \ {x}) \in SUBSET S /\ c \in t \ {x}
            BY <2>6, <3>2
          <6>2. Cardinality(rest) = Cardinality(t \ {x}) - 1
            BY <1>1, <4>1, <6>1
          <6>3. Cardinality(t \ {x}) = Cardinality(t) - 1 /\ Cardinality(t) \in Nat
            BY <1>1
          <6>4. QED
            BY <6>2, <6>3
        <5>4. Fine(rest)
          <6> HIDE DEF Fine, rest
          <6>1. QED
            BY <2>4, <5>3
        <5>5. QED
          BY <5>2, <5>4
      <4>4. f[x] \in Nat /\ f[c] \in Nat
        BY <2>6
      <4> HIDE DEF rest, c
      <4>5. QED
        BY <2>6, <4>2, <4>3, <4>4
    <3>3. QED
      BY <3>1, <3>2
  <2>11. QED
    BY <2>3, <2>9, <2>10
<1>3. Fine(S)
  BY <1>2
<1>4. QED
  BY <1>3

\* More of each is more in total.
LEMMA TotalsCompare ==
    ASSUME NEW f, NEW g, NEW S, IsFiniteSet(S),
           \A x \in S : f[x] \in Nat /\ g[x] \in Nat /\ f[x] <= g[x]
    PROVE  Total(f, S) <= Total(g, S)
<1> DEFINE Fine(s) == Total(f, s) <= Total(g, s)
           wrong   == {Cardinality(s) : s \in {t \in SUBSET S : ~ Fine(t)}}
<1>1. \A s \in SUBSET S : /\ IsFiniteSet(s) /\ Cardinality(s) \in Nat
                          /\ \A x \in s : /\ s \ {x} \in SUBSET S
                                          /\ Cardinality(s \ {x}) = Cardinality(s) - 1
  BY FS_Subset, FS_CardinalityType, FS_RemoveElement
<1>2. ASSUME NEW u \in SUBSET S, ~ Fine(u) PROVE FALSE
  <2>1. wrong \subseteq Nat /\ wrong # {}
    BY <1>1, <1>2
  <2>2. PICK d \in wrong : \A m \in wrong : d <= m
    BY <2>1, Least
  <2>3. PICK t \in SUBSET S : ~ Fine(t) /\ Cardinality(t) = d
    OBVIOUS
  <2>4. Total(f, {}) = 0 /\ Total(g, {}) = 0
    BY TotalUnfolds
  <2>5. PICK x \in t : TRUE
    BY <2>3, <2>4
  <2> DEFINE rest == t \ {x}
  <2>6. rest \in SUBSET S /\ Cardinality(rest) = Cardinality(t) - 1
        /\ Cardinality(t) \in Nat /\ IsFiniteSet(rest) /\ IsFiniteSet(t)
    BY <1>1, <2>5
  <2>7. Fine(rest)
    <3> SUFFICES ASSUME ~ Fine(rest) PROVE FALSE
      OBVIOUS
    <3>1. Cardinality(rest) \in wrong
      BY <2>6
    <3> HIDE DEF wrong, rest
    <3>2. QED
      BY <2>2, <2>3, <2>6, <3>1
  <2>8. /\ Total(f, t) = f[x] + Total(f, rest)
        /\ Total(g, t) = g[x] + Total(g, rest)
        /\ Total(f, rest) \in Nat /\ Total(g, rest) \in Nat
    BY <2>5, <2>6, TotalTakes
  <2>9. f[x] \in Nat /\ g[x] \in Nat /\ f[x] <= g[x]
    BY <2>5
  <2> HIDE DEF rest
  <2>10. QED
    BY <2>3, <2>7, <2>8, <2>9
<1>3. Fine(S)
  BY <1>2
<1>4. QED
  BY <1>3

\* Functions that agree have the same total.
LEMMA TotalsAgree ==
    ASSUME NEW f, NEW g, NEW S, IsFiniteSet(S),
           \A x \in S : f[x] \in Nat /\ g[x] = f[x]
    PROVE  Total(f, S) = Total(g, S)
<1>1. \A x \in S : f[x] \in Nat /\ g[x] \in Nat /\ f[x] <= g[x] /\ g[x] <= f[x]
  OBVIOUS
<1>2. Total(f, S) <= Total(g, S) /\ Total(g, S) <= Total(f, S)
  BY <1>1, TotalsCompare
<1>3. Total(f, S) \in Nat /\ Total(g, S) \in Nat
  BY <1>1, TotalTakes
<1>4. QED
  BY <1>2, <1>3

\* Only one element changes: the total changes as much.
LEMMA TotalGrows ==
    ASSUME NEW f, NEW g, NEW S, IsFiniteSet(S), NEW y \in S, NEW n \in Nat,
           \A x \in S : f[x] \in Nat /\ g[x] = IF x = y THEN f[x] + n ELSE f[x]
    PROVE  Total(g, S) = Total(f, S) + n
<1>1. \A x \in S : f[x] \in Nat /\ g[x] \in Nat
  OBVIOUS
<1>2. IsFiniteSet(S \ {y})
  BY FS_RemoveElement
<1>3. Total(f, S \ {y}) = Total(g, S \ {y})
  BY <1>2, TotalsAgree
<1>4. /\ Total(f, S) = f[y] + Total(f, S \ {y})
      /\ Total(g, S) = g[y] + Total(g, S \ {y})
  BY <1>1, TotalTakes
<1>5. Total(f, S \ {y}) \in Nat
  BY <1>1, <1>2, TotalTakes
<1>6. QED
  BY <1>1, <1>3, <1>4, <1>5

\* Over fewer elements there is less, and nothing less if what is left out is zero.
LEMMA TotalOfPart ==
    ASSUME NEW f, NEW S, IsFiniteSet(S), NEW T \in SUBSET S, \A x \in S : f[x] \in Nat
    PROVE  /\ Total(f, T) <= Total(f, S)
           /\ (\A x \in S \ T : f[x] = 0) => Total(f, T) = Total(f, S)
<1> DEFINE part == [x \in S |-> IF x \in T THEN f[x] ELSE 0]
           Fine(s) == Total(part, s) = Total(f, T \cap s)
           wrong   == {Cardinality(s) : s \in {t \in SUBSET S : ~ Fine(t)}}
<1>1. \A s \in SUBSET S : /\ IsFiniteSet(s) /\ Cardinality(s) \in Nat
                          /\ \A x \in s : /\ s \ {x} \in SUBSET S
                                          /\ Cardinality(s \ {x}) = Cardinality(s) - 1
  BY FS_Subset, FS_CardinalityType, FS_RemoveElement
<1>2. \A x \in S : part[x] \in Nat /\ f[x] \in Nat /\ part[x] <= f[x]
  OBVIOUS
<1>3. ASSUME NEW u \in SUBSET S, ~ Fine(u) PROVE FALSE
  <2>1. wrong \subseteq Nat /\ wrong # {}
    <3> HIDE DEF Fine
    <3>1. QED
      BY <1>1, <1>3
  <2>2. PICK d \in wrong : \A m \in wrong : d <= m
    BY <2>1, Least
  <2>3. PICK t \in SUBSET S : ~ Fine(t) /\ Cardinality(t) = d
    OBVIOUS
  <2>4. t # {}
    <3>1. Total(part, {}) = 0 /\ Total(f, {}) = 0 /\ T \cap {} = {}
      BY TotalUnfolds
    <3> HIDE DEF part
    <3>2. QED
      BY <2>3, <3>1
  <2>5. PICK x \in t : TRUE
    BY <2>4
  <2> DEFINE rest == t \ {x}
  <2>6. rest \in SUBSET S /\ Cardinality(rest) = Cardinality(t) - 1
        /\ Cardinality(t) \in Nat /\ IsFiniteSet(rest) /\ IsFiniteSet(t)
    BY <1>1, <2>5
  <2>7. Fine(rest)
    <3> SUFFICES ASSUME ~ Fine(rest) PROVE FALSE
      OBVIOUS
    <3>1. Cardinality(rest) \in wrong
      BY <2>6
    <3> HIDE DEF wrong, rest
    <3>2. QED
      BY <2>2, <2>3, <2>6, <3>1
  <2>8. Total(part, t) = part[x] + Total(part, rest) /\ Total(part, rest) \in Nat
    <3> HIDE DEF part
    <3>1. QED
      BY <1>2, <2>5, <2>6, TotalTakes
  <2>9. CASE x \in T
    <3>1. (T \cap t) \ {x} = T \cap rest /\ x \in T \cap t /\ IsFiniteSet(T \cap t)
      BY <1>1, <2>5, <2>9
    <3>2. Total(f, T \cap t) = f[x] + Total(f, T \cap rest)
      BY <1>2, <3>1, TotalTakes
    <3>3. part[x] = f[x]
      BY <2>9
    <3> HIDE DEF part, rest
    <3>4. QED
      BY <2>3, <2>7, <2>8, <3>2, <3>3
  <2>10. CASE x \notin T
    <3>1. T \cap t = T \cap rest /\ part[x] = 0
      BY <2>5, <2>10
    <3>2. Total(part, t) = Total(part, rest)
      <4> HIDE DEF part, rest
      <4>1. QED
        BY <2>8, <3>1
    <3> HIDE DEF part, rest
    <3>3. QED
      BY <2>3, <2>7, <3>1, <3>2
  <2>11. QED
    BY <2>9, <2>10
<1>4. Fine(S)
  BY <1>3
<1>5. T \cap S = T
  OBVIOUS
<1>6. Total(part, S) = Total(f, T)
  BY <1>4, <1>5
<1>7. Total(part, S) <= Total(f, S)
  <2> HIDE DEF part
  <2>1. QED
    BY <1>2, TotalsCompare
<1>8. ASSUME \A x \in S \ T : f[x] = 0 PROVE Total(part, S) = Total(f, S)
  <2>1. \A x \in S : f[x] \in Nat /\ part[x] = f[x]
    BY <1>8
  <2> HIDE DEF part
  <2>2. QED
    BY <2>1, TotalsAgree
<1>9. QED
  BY <1>6, <1>7, <1>8
-------------------------------------------------------------------------------
(* Totals of the budget *)

\* Times and days are finitely many.
LEMMA TimesAreFinite ==
    /\ Times \subseteq Nat /\ IsFiniteSet(Times) /\ IsFiniteSet(Days)
    /\ \A t \in Times : t \div Day \in Days /\ Window(t) \subseteq Times
<1>1. MaxTime \in Nat /\ 0 \in Int /\ MaxTime \in Int /\ Day \in Nat \ {0}
  BY LLMBudgetAssumption
<1>2. IsFiniteSet(Times)
  BY <1>1, FS_Interval DEF Times
<1>3. \A t \in Times : t \in Nat /\ t \div Day \in Times
  BY <1>1 DEF Times
<1>4. Days \in SUBSET Times
  BY <1>3 DEF Days
<1>5. IsFiniteSet(Days)
  BY <1>2, <1>4, FS_Subset
<1>6. QED
  BY <1>2, <1>3, <1>5 DEF Days, Window

\* What the documents of all days have booked, by day.
SpentOn(docs) == [d \in Days |-> docs[d].spent]
UnknownOn(docs) == [d \in Days |-> docs[d].unknown]

\* The sums of EveryAnswerBooked are totals of these functions.
LEMMA BooksAreTotals ==
    ASSUME NEW docs
    PROVE  /\ MapThenSumSet(LAMBDA d : docs[d].spent, Days) = Total(SpentOn(docs), Days)
           /\ MapThenSumSet(LAMBDA d : docs[d].unknown, Days) = Total(UnknownOn(docs), Days)
<1>0. \A s \in SUBSET Days : s # {} => (CHOOSE x \in s : TRUE) \in Days
  <2> TAKE s \in SUBSET Days
  <2> HAVE s # {}
  <2>1. (CHOOSE x \in s : TRUE) \in s
    OBVIOUS
  <2>2. QED
    BY <2>1
<1>1. MapThenSumSet(LAMBDA d : docs[d].spent, Days) = Total(SpentOn(docs), Days)
  <2> DEFINE sum == CHOOSE g : g = [s \in SUBSET Days |->
                       IF s = {} THEN 0
                       ELSE docs[CHOOSE x \in s : TRUE].spent + g[s \ {CHOOSE x \in s : TRUE}]]
  <2>1. MapThenSumSet(LAMBDA d : docs[d].spent, Days) = sum[Days]
    BY DEF MapThenSumSet, MapThenFoldSet
  <2>2. PICK h : /\ Adds(SpentOn(docs), h, SUBSET Days)
                 /\ \A s \in SUBSET Days : Total(SpentOn(docs), s) = h[s]
    BY TimesAreFinite, TotalIsSum
  <2>3. \A s \in SUBSET Days : s # {} =>
           SpentOn(docs)[CHOOSE x \in s : TRUE] = docs[CHOOSE x \in s : TRUE].spent
    BY <1>0 DEF SpentOn
  <2>4. ASSUME NEW k
        PROVE  Adds(SpentOn(docs), k, SUBSET Days) <=>
                 k = [s \in SUBSET Days |->
                        IF s = {} THEN 0
                        ELSE docs[CHOOSE x \in s : TRUE].spent + k[s \ {CHOOSE x \in s : TRUE}]]
    BY <2>3 DEF Adds, Chosen
  <2>5. Adds(SpentOn(docs), sum, SUBSET Days)
    <3>1. h = [s \in SUBSET Days |->
                 IF s = {} THEN 0
                 ELSE docs[CHOOSE x \in s : TRUE].spent + h[s \ {CHOOSE x \in s : TRUE}]]
      BY <2>2, <2>4
    <3>2. sum = [s \in SUBSET Days |->
                   IF s = {} THEN 0
                   ELSE docs[CHOOSE x \in s : TRUE].spent + sum[s \ {CHOOSE x \in s : TRUE}]]
      BY <3>1
    <3> HIDE DEF sum
    <3>3. QED
      BY <2>4, <3>2
  <2> HIDE DEF sum
  <2>6. h[Days] = sum[Days]
    BY <2>2, <2>5, TimesAreFinite, SumsAgree
  <2>7. QED
    BY <2>1, <2>2, <2>6
<1>2. MapThenSumSet(LAMBDA d : docs[d].unknown, Days) = Total(UnknownOn(docs), Days)
  <2> DEFINE sum == CHOOSE g : g = [s \in SUBSET Days |->
                       IF s = {} THEN 0
                       ELSE docs[CHOOSE x \in s : TRUE].unknown + g[s \ {CHOOSE x \in s : TRUE}]]
  <2>1. MapThenSumSet(LAMBDA d : docs[d].unknown, Days) = sum[Days]
    BY DEF MapThenSumSet, MapThenFoldSet
  <2>2. PICK h : /\ Adds(UnknownOn(docs), h, SUBSET Days)
                 /\ \A s \in SUBSET Days : Total(UnknownOn(docs), s) = h[s]
    BY TimesAreFinite, TotalIsSum
  <2>3. \A s \in SUBSET Days : s # {} =>
           UnknownOn(docs)[CHOOSE x \in s : TRUE] = docs[CHOOSE x \in s : TRUE].unknown
    BY <1>0 DEF UnknownOn
  <2>4. ASSUME NEW k
        PROVE  Adds(UnknownOn(docs), k, SUBSET Days) <=>
                 k = [s \in SUBSET Days |->
                        IF s = {} THEN 0
                        ELSE docs[CHOOSE x \in s : TRUE].unknown + k[s \ {CHOOSE x \in s : TRUE}]]
    BY <2>3 DEF Adds, Chosen
  <2>5. Adds(UnknownOn(docs), sum, SUBSET Days)
    <3>1. h = [s \in SUBSET Days |->
                 IF s = {} THEN 0
                 ELSE docs[CHOOSE x \in s : TRUE].unknown + h[s \ {CHOOSE x \in s : TRUE}]]
      BY <2>2, <2>4
    <3>2. sum = [s \in SUBSET Days |->
                   IF s = {} THEN 0
                   ELSE docs[CHOOSE x \in s : TRUE].unknown + sum[s \ {CHOOSE x \in s : TRUE}]]
      BY <3>1
    <3> HIDE DEF sum
    <3>3. QED
      BY <2>4, <3>2
  <2> HIDE DEF sum
  <2>6. h[Days] = sum[Days]
    BY <2>2, <2>5, TimesAreFinite, SumsAgree
  <2>7. QED
    BY <2>1, <2>2, <2>6
<1>3. QED
  BY <1>1, <1>2

\* Requests over a set of times are a total as well.
LEMMA RequestsAreTotals ==
    ASSUME NEW counts, NEW times
    PROVE  Requests(counts, times) = Total(counts, times)
BY DEF Requests, Total
-------------------------------------------------------------------------------
(* The budget *)

BudgetTypeOK ==
    /\ now \in Times
    /\ doc \in [Days -> [requests : [Times -> Nat], spent : Nat, unknown : Nat]]
    /\ waiting \in SUBSET Calls /\ IsFiniteSet(waiting)
    /\ admitted \in [Times -> Nat]
    /\ bills \in [cents : Nat, unknown : Nat, answers : Nat]
    /\ announced \in [started : Nat, completed : Nat, failed : Nat]
    /\ lost \in [reserved : Nat, asked : Int, booked : Nat]

\* Nothing is admitted ahead of time, and the document of each day still holds what was
\* admitted on that day within the last hour.
HourIsKept ==
    /\ \A u \in Times : u > now => admitted[u] = 0
    /\ \A d \in Days : \A u \in Window(now) :
          u \div Day = d => admitted[u] <= doc[d].requests[u]

\* What EveryCallAccounted says, with the totals by name.
Reserving == Count(BusyAt({"reserved"}))
Ending == Count(BusyAt({"booked", "stored"}))

Booked ==
    /\ Total(SpentOn(doc), Days) = bills.cents
    /\ Total(UnknownOn(doc), Days) = bills.unknown

Ledgers ==
    /\ Total(admitted, Times) = announced.started + lost.reserved + Reserving
    /\ announced.started + Reserving =
          bills.answers + announced.failed + lost.asked + Cardinality(waiting)
    /\ bills.answers = announced.completed + lost.booked + Ending

Accounts == Booked /\ Ledgers

LEMMA AccountsAreThat == Accounts <=> EveryCallAccounted
BY BooksAreTotals, RequestsAreTotals
   DEF Accounts, Booked, Ledgers, Reserving, Ending, EveryCallAccounted, EveryAnswerBooked

\* What holds the event loop counts for one.
LEMMA CountsAreSmall ==
    /\ Reserving \in {0, 1} /\ Ending \in {0, 1}
    /\ Reserving' \in {0, 1} /\ Ending' \in {0, 1}
BY DEF Reserving, Ending, Count

\* Where a call holds the event loop.
LEMMA HoldingCounts ==
    /\ busy.at = "free" => Reserving = 0 /\ Ending = 0
    /\ busy.at = "reserved" => Reserving = 1 /\ Ending = 0
    /\ busy.at \in {"booked", "stored"} => Reserving = 0 /\ Ending = 1
    /\ busy'.at = "free" => Reserving' = 0 /\ Ending' = 0
    /\ busy'.at = "reserved" => Reserving' = 1 /\ Ending' = 0
    /\ busy'.at \in {"booked", "stored"} => Reserving' = 0 /\ Ending' = 1
BY DEF Reserving, Ending, Count, BusyAt

BudgetIInv == BudgetTypeOK /\ HourIsKept /\ HourlyLimitWithinDay /\ Accounts

\* The budget begins empty.
LEMMA InitBudget == Init => BudgetIInv
<1> SUFFICES ASSUME Init PROVE BudgetIInv
  OBVIOUS
<1>1. /\ now = 0 /\ waiting = {} /\ admitted = [t \in Times |-> 0]
      /\ doc = [d \in Days |-> [requests |-> [t \in Times |-> 0], spent |-> 0, unknown |-> 0]]
      /\ bills = [cents |-> 0, unknown |-> 0, answers |-> 0]
      /\ announced = [started |-> 0, completed |-> 0, failed |-> 0]
      /\ lost = [reserved |-> 0, asked |-> 0, booked |-> 0] /\ busy.at = "free"
  BY DEF Init, BudgetInit, NewDoc, NoRequests, Free
<1>2. now \in Times
  BY <1>1, LLMBudgetAssumption DEF Times
<1>3. BudgetTypeOK
  BY <1>1, <1>2, FS_EmptySet DEF BudgetTypeOK
<1>4. HourIsKept
  BY <1>1, TimesAreFinite DEF HourIsKept, Window
<1>5. ASSUME NEW f, NEW S, IsFiniteSet(S), \A x \in S : f[x] = 0 PROVE Total(f, S) = 0
  <2>1. Total(f, {}) = Total(f, S)
    BY <1>5, TotalOfPart
  <2>2. Total(f, {}) = 0
    BY FS_EmptySet, TotalUnfolds
  <2>3. QED
    BY <2>1, <2>2
<1>6. HourlyLimitWithinDay
  <2> SUFFICES ASSUME NEW t \in Times
               PROVE  Requests(admitted, {u \in Window(t) : u \div Day = t \div Day}) <= PerHour
    BY DEF HourlyLimitWithinDay
  <2> DEFINE hour == {u \in Window(t) : u \div Day = t \div Day}
  <2>1. hour \in SUBSET Times /\ IsFiniteSet(hour)
    BY TimesAreFinite, FS_Subset
  <2>2. \A u \in hour : admitted[u] = 0
    BY <1>1, <2>1
  <2> HIDE DEF hour
  <2>3. Total(admitted, hour) = 0
    BY <1>5, <2>1, <2>2
  <2>4. QED
    BY <2>3, RequestsAreTotals, LLMBudgetAssumption DEF hour
<1>7. Accounts
  <2>1. Total(SpentOn(doc), Days) = 0 /\ Total(UnknownOn(doc), Days) = 0
    BY <1>1, <1>5, TimesAreFinite DEF SpentOn, UnknownOn
  <2>2. Total(admitted, Times) = 0
    BY <1>1, <1>5, TimesAreFinite
  <2>3. Cardinality(waiting) = 0
    BY <1>1, FS_EmptySet
  <2>4. QED
    BY <1>1, <2>1, <2>2, <2>3, HoldingCounts DEF Accounts, Booked, Ledgers
<1>8. QED
  BY <1>3, <1>4, <1>6, <1>7 DEF BudgetIInv

\* A reservation is counted for the current time, and the hour holds one more.
LEMMA ReserveKeepsHour ==
    ASSUME BudgetIInv, NEW c \in Calls, CheckAndReserve(c, None)
    PROVE  HourIsKept' /\ HourlyLimitWithinDay'
<1>1. BudgetTypeOK /\ HourIsKept /\ HourlyLimitWithinDay
  BY DEF BudgetIInv
<1>2. /\ now \in Times /\ Today \in Days /\ now' = now /\ Window(now) \subseteq Times
      /\ now \in Window(now)
  BY <1>1, TimesAreFinite, LLMBudgetAssumption
     DEF BudgetTypeOK, Today, CheckAndReserve, Window
<1>3. \A u \in Times : admitted'[u] = IF u = now THEN admitted[u] + 1 ELSE admitted[u]
  BY <1>1 DEF CheckAndReserve, BudgetTypeOK
<1>4. \A d \in Days : \A u \in Window(now) :
         doc'[d].requests[u] = IF d = Today /\ u = now THEN doc[d].requests[u] + 1
                               ELSE doc[d].requests[u]
  <2>1. \A d \in Days : d # Today => doc'[d] = doc[d]
    BY <1>1 DEF CheckAndReserve, BudgetTypeOK
  <2>2. doc'[Today].requests = Reserved(doc[Today].requests)
    BY <1>1, <1>2 DEF CheckAndReserve, BudgetTypeOK
  <2>3. \A u \in Window(now) :
           doc'[Today].requests[u] = IF u = now THEN doc[Today].requests[u] + 1
                                     ELSE doc[Today].requests[u]
    BY <1>2, <2>2 DEF Recent, Reserved
  <2>4. QED
    BY <2>1, <2>3
<1>5. \A u \in Times : admitted[u] \in Nat
  BY <1>1 DEF BudgetTypeOK
<1>6. \A d \in Days : \A u \in Times : doc[d].requests[u] \in Nat
  BY <1>1 DEF BudgetTypeOK
<1>7. HourIsKept'
  <2>1. ASSUME NEW u \in Times, u > now' PROVE admitted'[u] = 0
    BY <1>1, <1>2, <1>3, <2>1, TimesAreFinite DEF HourIsKept
  <2>2. ASSUME NEW d \in Days, NEW u \in Window(now), u \div Day = d
        PROVE  admitted'[u] <= doc'[d].requests[u]
    <3>1. u \in Times /\ admitted[u] <= doc[d].requests[u]
      BY <1>1, <1>2, <2>2 DEF HourIsKept
    <3>2. u = now => d = Today
      BY <2>2 DEF Today
    <3>3. admitted[u] \in Nat /\ doc[d].requests[u] \in Nat
      BY <1>5, <1>6, <3>1
    <3>4. QED
      BY <1>3, <1>4, <3>1, <3>2, <3>3
  <2>3. Window(now)' = Window(now)
    BY <1>2 DEF Window
  <2>4. QED
    BY <2>1, <2>2, <2>3 DEF HourIsKept
<1>8. ASSUME NEW t \in Times
      PROVE  Requests(admitted', {u \in Window(t) : u \div Day = t \div Day}) <= PerHour
  <2> DEFINE hour == {u \in Window(t) : u \div Day = t \div Day}
             kept == {u \in Window(now) : u \div Day = Today}
  <2>1. /\ hour \in SUBSET Times /\ IsFiniteSet(hour)
        /\ kept \in SUBSET Times /\ IsFiniteSet(kept) /\ kept \in SUBSET Window(now)
        /\ IsFiniteSet(Window(now))
    BY <1>2, TimesAreFinite, FS_Subset
  <2>2. CASE now \notin hour
    <3>1. \A u \in hour : admitted[u] \in Nat /\ admitted'[u] = admitted[u]
      BY <1>3, <1>5, <2>1, <2>2
    <3> HIDE DEF hour
    <3>2. Total(admitted, hour) = Total(admitted', hour)
      BY <2>1, <3>1, TotalsAgree
    <3>3. Total(admitted, hour) <= PerHour
      BY <1>1, RequestsAreTotals DEF HourlyLimitWithinDay, hour
    <3>4. QED
      BY <3>2, <3>3, RequestsAreTotals DEF hour
  <2>3. CASE now \in hour
    <3> DEFINE past == hour \cap kept
    <3>1. \A u \in hour \ past : admitted'[u] = 0
      <4> TAKE u \in hour \ past
      <4>1. u \in Times /\ u \in Nat /\ now \in Nat /\ t \in Nat /\ u \div Day = Today
        BY <1>2, <2>1, <2>3, TimesAreFinite DEF Today
      <4>2. t - Hour < u /\ u <= t /\ now <= t /\ Hour \in Nat
        BY <2>3, LLMBudgetAssumption DEF Window
      <4>3. u > now
        <5> SUFFICES ASSUME u <= now PROVE FALSE
          BY <4>1
        <5>1. now - Hour < u
          BY <4>1, <4>2
        <5>2. u \in kept
          BY <4>1, <5>1 DEF Window
        <5>3. QED
          BY <5>2
      <4>4. QED
        BY <1>1, <1>3, <4>1, <4>3 DEF HourIsKept
    <3>2. past \in SUBSET hour /\ past \in SUBSET kept /\ \A u \in hour : admitted'[u] \in Nat
      BY <1>3, <1>5, <2>1
    <3> HIDE DEF hour, past
    <3>3. Total(admitted', past) = Total(admitted', hour)
      BY <2>1, <3>1, <3>2, TotalOfPart
    <3>4. \A u \in kept : admitted'[u] \in Nat /\ admitted[u] \in Nat
      BY <1>3, <1>5, <2>1
    <3>5. now \in kept /\ \A u \in kept : /\ admitted[u] <= doc[Today].requests[u]
                                          /\ doc[Today].requests[u] \in Nat
      BY <1>1, <1>2, <1>6, <2>1 DEF HourIsKept, Today
    <3>6. \A u \in Window(now) : doc[Today].requests[u] \in Nat
      BY <1>2, <1>6
    <3> HIDE DEF kept
    <3>7. Total(admitted', past) <= Total(admitted', kept)
      BY <2>1, <3>2, <3>4, TotalOfPart
    <3>8. Total(admitted', kept) = Total(admitted, kept) + 1
      <4>1. \A u \in kept : /\ admitted[u] \in Nat
                            /\ admitted'[u] = IF u = now THEN admitted[u] + 1 ELSE admitted[u]
        BY <1>3, <1>5, <2>1
      <4>2. QED
        BY <2>1, <3>5, <4>1, TotalGrows
    <3>9. Total(admitted, kept) <= Total(doc[Today].requests, kept)
      BY <2>1, <3>4, <3>5, TotalsCompare
    <3>10. Total(doc[Today].requests, kept) <= Total(doc[Today].requests, Window(now))
      BY <2>1, <3>6, TotalOfPart
    <3>11. Total(doc[Today].requests, Window(now)) < PerHour
      BY RequestsAreTotals DEF CheckAndReserve, Admits
    <3>12. /\ Total(doc[Today].requests, Window(now)) \in Nat
           /\ Total(doc[Today].requests, kept) \in Nat
           /\ Total(admitted, kept) \in Nat /\ Total(admitted', past) \in Nat
      <4>1. IsFiniteSet(past)
        BY <2>1, <3>2, FS_Subset
      <4>2. QED
        BY <2>1, <3>2, <3>4, <3>5, <3>6, <4>1, TotalTakes
    <3>13. PerHour \in Nat
      BY LLMBudgetAssumption
    <3>14. Total(admitted', past) <= PerHour
      BY <3>7, <3>8, <3>9, <3>10, <3>11, <3>12, <3>13
    <3>15. QED
      BY <3>3, <3>14, RequestsAreTotals DEF hour
  <2>4. QED
    BY <2>2, <2>3
<1>9. HourlyLimitWithinDay'
  BY <1>8 DEF HourlyLimitWithinDay, Window
<1>10. QED
  BY <1>7, <1>9

\* The types after a reservation.
LEMMA ReserveKeepsTypes ==
    ASSUME BudgetTypeOK, NEW c \in Calls, CheckAndReserve(c, None),
           UNCHANGED <<announced, lost>>
    PROVE  BudgetTypeOK'
<1>1. now \in Times /\ Today \in Days
  BY TimesAreFinite DEF BudgetTypeOK, Today
<1>2. Reserved(doc[Today].requests) \in [Times -> Nat]
  <2>1. doc[Today].requests \in [Times -> Nat]
    BY <1>1 DEF BudgetTypeOK
  <2>2. Recent(doc[Today].requests) \in [Times -> Nat]
    BY <2>1 DEF Recent
  <2>3. QED
    BY <1>1, <2>2 DEF Reserved
<1>3. doc' \in [Days -> [requests : [Times -> Nat], spent : Nat, unknown : Nat]]
  BY <1>1, <1>2 DEF BudgetTypeOK, CheckAndReserve
<1>4. waiting' \in SUBSET Calls /\ IsFiniteSet(waiting')
  BY FS_AddElement DEF BudgetTypeOK, CheckAndReserve
<1>5. admitted' \in [Times -> Nat]
  BY <1>1 DEF BudgetTypeOK, CheckAndReserve
<1>6. QED
  BY <1>3, <1>4, <1>5 DEF BudgetTypeOK, CheckAndReserve

\* A reservation is one request more.
LEMMA ReserveIsAdmitted ==
    ASSUME BudgetTypeOK, NEW c \in Calls, CheckAndReserve(c, None)
    PROVE  Total(admitted', Times) = Total(admitted, Times) + 1
<1>1. \A u \in Times : /\ admitted[u] \in Nat
                       /\ admitted'[u] = IF u = now THEN admitted[u] + 1 ELSE admitted[u]
  BY DEF BudgetTypeOK, CheckAndReserve
<1>2. now \in Times
  BY DEF BudgetTypeOK
<1>3. IsFiniteSet(Times) /\ 1 \in Nat
  BY TimesAreFinite
<1>4. QED
  BY ONLY <1>1, <1>2, <1>3, TotalGrows

\* A reservation is one request more, one call more that waits, and nothing booked.
LEMMA ReserveKeepsAccounts ==
    ASSUME BudgetTypeOK, Accounts, NEW c \in Calls, CheckAndReserve(c, None),
           UNCHANGED <<announced, lost>>, busy.at = "free", busy'.at = "reserved"
    PROVE  Accounts'
<1>1. now \in Times /\ Today \in Days
  BY TimesAreFinite DEF BudgetTypeOK, Today
<1>2. \A d \in Days : doc'[d].spent = doc[d].spent /\ doc'[d].unknown = doc[d].unknown
  BY <1>1 DEF BudgetTypeOK, CheckAndReserve
<1>3. SpentOn(doc') = SpentOn(doc) /\ UnknownOn(doc') = UnknownOn(doc)
  BY <1>2 DEF SpentOn, UnknownOn
<1>4. Total(admitted', Times) = Total(admitted, Times) + 1
  BY ReserveIsAdmitted
<1>5. Cardinality(waiting') = Cardinality(waiting) + 1
  BY FS_AddElement DEF BudgetTypeOK, CheckAndReserve
<1>6. /\ announced.started \in Nat /\ announced.failed \in Nat /\ announced.completed \in Nat
      /\ lost.reserved \in Nat /\ lost.asked \in Int /\ lost.booked \in Nat
      /\ bills.answers \in Nat
  BY DEF BudgetTypeOK
<1>7. UNCHANGED <<announced, lost, bills>>
  BY DEF CheckAndReserve
<1>8. Cardinality(waiting) \in Nat
  BY FS_CardinalityType DEF BudgetTypeOK
<1>9. Reserving = 0 /\ Reserving' = 1 /\ Ending = 0 /\ Ending' = 0
  BY HoldingCounts
<1>10. Booked'
  BY <1>3, <1>7 DEF Accounts, Booked
<1>11. Ledgers'
  BY <1>4, <1>5, <1>6, <1>7, <1>8, <1>9 DEF Accounts, Ledgers
<1>12. QED
  BY <1>10, <1>11 DEF Accounts

\* An answer is booked on one day, with what it costs.
LEMMA AnswerIsBooked ==
    ASSUME BudgetTypeOK, NEW c \in Calls, NEW cost \in Costs, RecordSpend(c, cost)
    PROVE  /\ doc' \in [Days -> [requests : [Times -> Nat], spent : Nat, unknown : Nat]]
           /\ \A d \in Days : doc'[d].requests = doc[d].requests
           /\ bills' \in [cents : Nat, unknown : Nat, answers : Nat]
           /\ bills'.answers = bills.answers + 1
           /\ \E n \in Nat : /\ bills'.cents = bills.cents + n
                             /\ Total(SpentOn(doc'), Days) = Total(SpentOn(doc), Days) + n
           /\ \E n \in Nat : /\ bills'.unknown = bills.unknown + n
                             /\ Total(UnknownOn(doc'), Days) = Total(UnknownOn(doc), Days) + n
<1> DEFINE paid  == IF cost = None THEN 0 ELSE cost
           guess == IF cost = None THEN 1 ELSE 0
<1>1. Today \in Days
  BY TimesAreFinite DEF BudgetTypeOK, Today
<1>2. paid \in Nat /\ guess \in Nat
  BY LLMBudgetAssumption
<1>3. \A d \in Days :
         /\ doc[d].requests \in [Times -> Nat] /\ doc[d].spent \in Nat /\ doc[d].unknown \in Nat
         /\ doc'[d].requests = doc[d].requests
         /\ doc'[d].spent = IF d = Today THEN doc[d].spent + paid ELSE doc[d].spent
         /\ doc'[d].unknown = IF d = Today THEN doc[d].unknown + guess ELSE doc[d].unknown
  BY <1>1, <1>2 DEF BudgetTypeOK, RecordSpend
<1>4. doc' \in [Days -> [requests : [Times -> Nat], spent : Nat, unknown : Nat]]
  <2>1. CASE cost = None
    BY <1>1, <2>1 DEF BudgetTypeOK, RecordSpend
  <2>2. CASE cost # None
    <3>1. cost \in Nat
      BY <2>2, LLMBudgetAssumption
    <3>2. QED
      BY <1>1, <2>2, <3>1 DEF BudgetTypeOK, RecordSpend
  <2>3. QED
    BY <2>1, <2>2
<1>5. /\ bills.cents \in Nat /\ bills.unknown \in Nat /\ bills.answers \in Nat
      /\ bills'.cents = bills.cents + paid /\ bills'.unknown = bills.unknown + guess
      /\ bills'.answers = bills.answers + 1
      /\ bills' \in [cents : Nat, unknown : Nat, answers : Nat]
  <2>0. /\ bills \in [cents : Nat, unknown : Nat, answers : Nat]
        /\ bills.cents \in Nat /\ bills.unknown \in Nat /\ bills.answers \in Nat
    BY DEF BudgetTypeOK
  <2>1. CASE cost = None
    <3>1. bills' = [bills EXCEPT !.answers = @ + 1, !.unknown = @ + 1]
      BY <2>1 DEF RecordSpend
    <3>2. paid = 0 /\ guess = 1
      BY <2>1
    <3>3. /\ bills'.cents = bills.cents /\ bills'.unknown = bills.unknown + 1
          /\ bills'.answers = bills.answers + 1
      BY <2>0, <3>1
    <3> DEFINE once == [bills EXCEPT !.answers = @ + 1]
    <3>6. /\ once \in [cents : Nat, unknown : Nat, answers : Nat]
          /\ bills' = [once EXCEPT !.unknown = @ + 1]
      BY <2>0, <3>1
    <3> HIDE DEF once
    <3>4. bills' \in [cents : Nat, unknown : Nat, answers : Nat]
      BY <3>6
    <3> HIDE DEF paid, guess
    <3>5. QED
      BY <2>0, <3>2, <3>3, <3>4
  <2>2. CASE cost # None
    <3>1. cost \in Nat
      BY <2>2, LLMBudgetAssumption
    <3>2. bills' = [bills EXCEPT !.answers = @ + 1, !.cents = @ + cost]
      BY <2>2 DEF RecordSpend
    <3>3. paid = cost /\ guess = 0
      BY <2>2
    <3>4. /\ bills'.cents = bills.cents + cost /\ bills'.unknown = bills.unknown
          /\ bills'.answers = bills.answers + 1
      BY <2>0, <3>2
    <3> DEFINE once == [bills EXCEPT !.answers = @ + 1]
    <3>7. /\ once \in [cents : Nat, unknown : Nat, answers : Nat]
          /\ bills' = [once EXCEPT !.cents = @ + cost]
      BY <2>0, <3>2
    <3> HIDE DEF once
    <3>5. bills' \in [cents : Nat, unknown : Nat, answers : Nat]
      BY <3>1, <3>7
    <3> HIDE DEF paid, guess
    <3>6. QED
      BY <2>0, <3>3, <3>4, <3>5
  <2>3. QED
    BY <2>1, <2>2
<1> HIDE DEF paid, guess
<1>6. Total(SpentOn(doc'), Days) = Total(SpentOn(doc), Days) + paid
  <2>1. \A d \in Days :
           /\ SpentOn(doc)[d] \in Nat
           /\ SpentOn(doc')[d] = IF d = Today THEN SpentOn(doc)[d] + paid ELSE SpentOn(doc)[d]
    BY <1>3 DEF SpentOn
  <2>2. QED
    BY <1>1, <1>2, <2>1, TimesAreFinite, TotalGrows
<1>7. Total(UnknownOn(doc'), Days) = Total(UnknownOn(doc), Days) + guess
  <2>1. \A d \in Days :
           /\ UnknownOn(doc)[d] \in Nat
           /\ UnknownOn(doc')[d] = IF d = Today THEN UnknownOn(doc)[d] + guess
                                   ELSE UnknownOn(doc)[d]
    BY <1>3 DEF UnknownOn
  <2>2. QED
    BY <1>1, <1>2, <2>1, TimesAreFinite, TotalGrows
<1>8. QED
  BY <1>2, <1>3, <1>4, <1>5, <1>6, <1>7

\* A step after which the documents hold the same requests and fewer calls wait keeps
\* the budget sound, if the ledgers of announcements stay balanced.
LEMMA EndKeepsBudget ==
    ASSUME BudgetIInv,
           UNCHANGED <<now, admitted>>,
           doc' \in [Days -> [requests : [Times -> Nat], spent : Nat, unknown : Nat]],
           \A d \in Days : doc'[d].requests = doc[d].requests,
           bills' \in [cents : Nat, unknown : Nat, answers : Nat],
           \E n \in Nat : /\ bills'.cents = bills.cents + n
                          /\ Total(SpentOn(doc'), Days) = Total(SpentOn(doc), Days) + n,
           \E n \in Nat : /\ bills'.unknown = bills.unknown + n
                          /\ Total(UnknownOn(doc'), Days) = Total(UnknownOn(doc), Days) + n,
           waiting' \in SUBSET waiting,
           announced' \in [started : Nat, completed : Nat, failed : Nat],
           lost' \in [reserved : Nat, asked : Int, booked : Nat],
           Ledgers'
    PROVE  BudgetIInv'
<1>1. BudgetTypeOK /\ HourIsKept /\ HourlyLimitWithinDay /\ Accounts
  BY DEF BudgetIInv
<1>2. BudgetTypeOK'
  <2>1. IsFiniteSet(waiting')
    BY <1>1, FS_Subset DEF BudgetTypeOK
  <2>2. QED
    BY <1>1, <2>1 DEF BudgetTypeOK
<1>3. HourIsKept'
  BY <1>1, TimesAreFinite DEF HourIsKept, Window, BudgetTypeOK
<1>4. HourlyLimitWithinDay'
  <2>1. \A t \in Times :
           Requests(admitted', {u \in Window(t) : u \div Day = t \div Day}) <= PerHour
    <3>1. admitted' = admitted
      OBVIOUS
    <3>2. QED
      BY <1>1, <3>1 DEF HourlyLimitWithinDay
  <2>2. QED
    BY <2>1 DEF HourlyLimitWithinDay, Window
<1>5. Accounts'
  <2>1. /\ Total(SpentOn(doc), Days) = bills.cents
        /\ Total(UnknownOn(doc), Days) = bills.unknown
    BY <1>1 DEF Accounts, Booked
  <2>2. Total(SpentOn(doc'), Days) = bills'.cents
    BY <2>1
  <2>3. Total(UnknownOn(doc'), Days) = bills'.unknown
    BY <2>1
  <2>4. QED
    BY <2>2, <2>3 DEF Accounts, Booked
<1>6. QED
  BY <1>2, <1>3, <1>4, <1>5 DEF BudgetIInv

\* Time passes: an hour that is not over holds nothing new.
LEMMA TimeKeepsBudget ==
    ASSUME BudgetIInv, now' \in Times, now' >= now,
           UNCHANGED <<doc, waiting, admitted, bills, announced, lost, busy>>
    PROVE  BudgetIInv'
<1>1. BudgetTypeOK /\ HourIsKept /\ HourlyLimitWithinDay /\ Accounts
  BY DEF BudgetIInv
<1>2. BudgetTypeOK'
  BY <1>1 DEF BudgetTypeOK
<1>3. HourIsKept'
  <2>1. /\ now \in Times /\ \A u \in Times : admitted[u] \in Nat
        /\ \A d \in Days : \A u \in Times : doc[d].requests[u] \in Nat
    BY <1>1 DEF BudgetTypeOK
  <2>2. /\ Hour \in Nat /\ \A u \in Times : u \in Nat
        /\ \A u \in Times : u > now => admitted[u] = 0
    BY <1>1, TimesAreFinite, LLMBudgetAssumption DEF HourIsKept
  <2>3. PICK later \in Times : later = now' /\ later >= now
    OBVIOUS
  <2>4. ASSUME NEW u \in Times, u > later PROVE admitted[u] = 0
    BY <2>1, <2>2, <2>3, <2>4
  <2>5. ASSUME NEW d \in Days, NEW u \in Times, later - Hour < u, u <= later, u \div Day = d
        PROVE  admitted[u] <= doc[d].requests[u]
    <3>1. CASE u > now
      <4>1. admitted[u] = 0 /\ doc[d].requests[u] \in Nat
        BY <2>1, <2>2, <3>1
      <4>2. QED
        BY <4>1
    <3>2. CASE u <= now
      <4>1. u \in Nat /\ now \in Nat /\ later \in Nat
        BY <2>1, <2>2
      <4>2. later >= now /\ later - Hour < u /\ Hour \in Nat
        BY <2>2, <2>3, <2>5
      <4>3. u \in Window(now)
        BY <3>2, <4>1, <4>2 DEF Window
      <4>4. QED
        BY <1>1, <2>5, <4>3 DEF HourIsKept
    <3>3. u \in Nat /\ now \in Nat
      BY <2>1, <2>2
    <3>4. QED
      BY <3>1, <3>2, <3>3
  <2>6. QED
    BY <2>3, <2>4, <2>5 DEF HourIsKept, Window
<1>4. HourlyLimitWithinDay'
  <2>1. \A t \in Times :
           Requests(admitted', {u \in Window(t) : u \div Day = t \div Day}) <= PerHour
    <3>1. admitted' = admitted
      OBVIOUS
    <3>2. QED
      BY <1>1, <3>1 DEF HourlyLimitWithinDay
  <2>2. QED
    BY <2>1 DEF HourlyLimitWithinDay, Window
<1>5. Accounts'
  BY <1>1 DEF Accounts, Booked, Ledgers, Reserving, Ending, BusyAt
<1>6. QED
  BY <1>2, <1>3, <1>4, <1>5 DEF BudgetIInv

\* Every step of the gateway keeps the budget sound.
LEMMA StepBudget == BudgetIInv /\ [Next]_vars => BudgetIInv'
<1> SUFFICES ASSUME BudgetIInv, [Next]_vars PROVE BudgetIInv'
  OBVIOUS
<1>1. BudgetTypeOK /\ HourIsKept /\ HourlyLimitWithinDay /\ Accounts
  BY DEF BudgetIInv
<1>2. /\ announced \in [started : Nat, completed : Nat, failed : Nat]
      /\ lost \in [reserved : Nat, asked : Int, booked : Nat]
      /\ IsFiniteSet(waiting) /\ Cardinality(waiting) \in Nat
      /\ now \in Nat /\ now \in Times
  BY <1>1, FS_CardinalityType, TimesAreFinite DEF BudgetTypeOK
<1>14. /\ announced.started \in Nat /\ announced.completed \in Nat /\ announced.failed \in Nat
       /\ lost.reserved \in Nat /\ lost.asked \in Int /\ lost.booked \in Nat
       /\ bills.answers \in Nat
  BY <1>1, <1>2 DEF BudgetTypeOK
<1>3. ASSUME NEW c \in waiting, waiting' = waiting \ {c}
      PROVE  Cardinality(waiting') \in Nat /\ Cardinality(waiting) = Cardinality(waiting') + 1
  <2>1. Cardinality(waiting \ {c}) = Cardinality(waiting) - 1 /\ IsFiniteSet(waiting \ {c})
    BY <1>2, FS_RemoveElement
  <2>2. Cardinality(waiting \ {c}) \in Nat
    BY <2>1, FS_CardinalityType
  <2>3. QED
    BY <1>2, <1>3, <2>1, <2>2
<1>4. ASSUME UNCHANGED <<doc, bills>>
      PROVE  /\ doc' \in [Days -> [requests : [Times -> Nat], spent : Nat, unknown : Nat]]
             /\ \A d \in Days : doc'[d].requests = doc[d].requests
             /\ bills' \in [cents : Nat, unknown : Nat, answers : Nat]
             /\ \E n \in Nat : /\ bills'.cents = bills.cents + n
                               /\ Total(SpentOn(doc'), Days) = Total(SpentOn(doc), Days) + n
             /\ \E n \in Nat : /\ bills'.unknown = bills.unknown + n
                               /\ Total(UnknownOn(doc'), Days) = Total(UnknownOn(doc), Days) + n
  <2>1. /\ Total(SpentOn(doc), Days) = bills.cents /\ bills.cents \in Nat
        /\ Total(UnknownOn(doc), Days) = bills.unknown /\ bills.unknown \in Nat
    BY <1>1 DEF Accounts, Booked, BudgetTypeOK
  <2>2. 0 \in Nat /\ bills.cents = bills.cents + 0 /\ bills.unknown = bills.unknown + 0
    BY <2>1
  <2>3. QED
    BY <1>1, <1>4, <2>1, <2>2 DEF BudgetTypeOK
<1>5. ASSUME NEW c \in Calls, NEW subject \in Subjects, NEW cred \in Credentials,
             NEW known \in Prompts, StartCall(c, subject, cred, known)
      PROVE  BudgetIInv'
  <2>1. /\ CheckAndReserve(c, None) /\ UNCHANGED <<announced, lost>>
        /\ busy.at = "free" /\ busy'.at = "reserved"
    BY <1>5 DEF StartCall, LoopIsFree, BusyAt
  <2>2. QED
    BY <1>1, <2>1, ReserveKeepsTypes, ReserveKeepsHour, ReserveKeepsAccounts DEF BudgetIInv
<1>15. ASSUME AnnounceStart PROVE BudgetIInv'
  <2>1. /\ announced' = [announced EXCEPT !.started = @ + 1]
        /\ busy.at = "reserved" /\ busy'.at = "free"
        /\ UNCHANGED <<lost, now, waiting, admitted, doc, bills>>
    BY <1>15 DEF AnnounceStart, BusyAt, Free, budgetVars
  <2>2. /\ announced' \in [started : Nat, completed : Nat, failed : Nat]
        /\ announced'.started = announced.started + 1 /\ announced'.failed = announced.failed
        /\ announced'.completed = announced.completed
    BY <1>2, <2>1
  <2>3. Ledgers'
    BY <1>1, <1>2, <1>14, <2>1, <2>2, HoldingCounts DEF Accounts, Ledgers
  <2>4. QED
    BY <1>2, <1>4, <2>1, <2>2, <2>3, EndKeepsBudget
<1>6. ASSUME NEW c \in Calls, NEW output \in Outputs, NEW cost \in Costs,
             BookAnswer(c, output, cost)
      PROVE  BudgetIInv'
  <2>1. /\ RecordSpend(c, cost) /\ c \in waiting /\ waiting' = waiting \ {c}
        /\ busy.at = "free" /\ busy'.at = "booked"
        /\ UNCHANGED <<announced, lost, now, admitted>>
    BY <1>6 DEF BookAnswer, RecordSpend, LoopIsFree, BusyAt
  <2>2. bills'.answers = bills.answers + 1
    BY <1>1, <2>1, AnswerIsBooked
  <2>3. Cardinality(waiting') \in Nat /\ Cardinality(waiting) = Cardinality(waiting') + 1
    BY <1>3, <2>1
  <2>4. Reserving = 0 /\ Reserving' = 0 /\ Ending = 0 /\ Ending' = 1
    BY <2>1, HoldingCounts
  <2>5. Ledgers'
    BY <1>1, <1>14, <2>1, <2>2, <2>3, <2>4 DEF Accounts, Ledgers
  <2>6. QED
    BY <1>1, <1>2, <2>1, <2>5, AnswerIsBooked, EndKeepsBudget
<1>16. ASSUME StoreRun PROVE BudgetIInv'
  <2>1. /\ busy.at = "booked" /\ busy'.at = "stored"
        /\ UNCHANGED <<announced, lost, now, waiting, admitted, doc, bills>>
    BY <1>16 DEF StoreRun, BusyAt, budgetVars
  <2>2. Ledgers'
    BY <1>1, <2>1, HoldingCounts DEF Accounts, Ledgers
  <2>3. QED
    BY <1>2, <1>4, <2>1, <2>2, EndKeepsBudget
<1>17. ASSUME AnnounceEnd PROVE BudgetIInv'
  <2>1. /\ announced' = [announced EXCEPT !.completed = @ + 1]
        /\ busy.at = "stored" /\ busy'.at = "free"
        /\ UNCHANGED <<lost, now, waiting, admitted, doc, bills>>
    BY <1>17 DEF AnnounceEnd, BusyAt, Free, budgetVars
  <2>2. /\ announced' \in [started : Nat, completed : Nat, failed : Nat]
        /\ announced'.started = announced.started /\ announced'.failed = announced.failed
        /\ announced'.completed = announced.completed + 1
    BY <1>2, <2>1
  <2>3. Ledgers'
    BY <1>1, <1>2, <1>14, <2>1, <2>2, HoldingCounts DEF Accounts, Ledgers
  <2>4. QED
    BY <1>2, <1>4, <2>1, <2>2, <2>3, EndKeepsBudget
<1>7. ASSUME NEW c \in Calls, NEW response \in Responses, FailCall(c, response)
      PROVE  BudgetIInv'
  <2>1. /\ c \in waiting /\ waiting' = waiting \ {c}
        /\ announced' = [announced EXCEPT !.failed = @ + 1]
        /\ UNCHANGED <<lost, busy, now, admitted, doc, bills>>
    BY <1>7 DEF FailCall, CallFails
  <2>2. /\ announced' \in [started : Nat, completed : Nat, failed : Nat]
        /\ announced'.started = announced.started /\ announced'.failed = announced.failed + 1
        /\ announced'.completed = announced.completed
    BY <1>2, <2>1
  <2>3. Cardinality(waiting') \in Nat /\ Cardinality(waiting) = Cardinality(waiting') + 1
    BY <1>3, <2>1
  <2>4. Reserving' = Reserving /\ Ending' = Ending
    BY <2>1 DEF Reserving, Ending, BusyAt
  <2>5. Ledgers'
    BY <1>1, <1>14, <2>1, <2>2, <2>3, <2>4, CountsAreSmall DEF Accounts, Ledgers
  <2>6. QED
    BY <1>2, <1>4, <2>1, <2>2, <2>5, EndKeepsBudget
<1>18. ASSUME NEW c \in Calls, StartRaises(c) PROVE BudgetIInv'
  <2>1. /\ c \in waiting /\ waiting' = waiting \ {c}
        /\ lost' = [lost EXCEPT !.reserved = @ + 1]
        /\ busy.at = "reserved" /\ busy'.at = "free"
        /\ UNCHANGED <<announced, now, admitted, doc, bills>>
    BY <1>18 DEF StartRaises, CallFails, BusyAt, Free
  <2>2. /\ lost' \in [reserved : Nat, asked : Int, booked : Nat]
        /\ lost'.reserved = lost.reserved + 1 /\ lost'.asked = lost.asked
        /\ lost'.booked = lost.booked
    BY <1>2, <2>1
  <2>3. Cardinality(waiting') \in Nat /\ Cardinality(waiting) = Cardinality(waiting') + 1
    BY <1>3, <2>1
  <2>4. Reserving = 1 /\ Reserving' = 0 /\ Ending = 0 /\ Ending' = 0
    BY <2>1, HoldingCounts
  <2>5. Ledgers'
    <3>1. PICK n \in Nat : n = Cardinality(waiting') /\ Cardinality(waiting) = n + 1
      BY <2>3
    <3>2. /\ announced'.started = announced.started /\ announced'.failed = announced.failed
          /\ announced'.completed = announced.completed /\ bills'.answers = bills.answers
          /\ Total(admitted', Times) = Total(admitted, Times)
      BY <2>1
    <3>3. QED
      BY <1>1, <1>14, <2>2, <2>4, <3>1, <3>2, CountsAreSmall DEF Accounts, Ledgers
  <2>6. QED
    BY <1>2, <1>4, <2>1, <2>2, <2>5, EndKeepsBudget
<1>8. ASSUME NEW c \in Calls, CheckRaises(c) PROVE BudgetIInv'
  <2>1. /\ c \in waiting /\ waiting' = waiting \ {c}
        /\ lost' = [lost EXCEPT !.asked = @ + 1]
        /\ UNCHANGED <<announced, busy, now, admitted, doc, bills>>
    BY <1>8 DEF CheckRaises, CallFails
  <2>2. /\ lost' \in [reserved : Nat, asked : Int, booked : Nat]
        /\ lost'.reserved = lost.reserved /\ lost'.asked = lost.asked + 1
        /\ lost'.booked = lost.booked
    BY <1>2, <2>1
  <2>3. Cardinality(waiting') \in Nat /\ Cardinality(waiting) = Cardinality(waiting') + 1
    BY <1>3, <2>1
  <2>4. Reserving' = Reserving /\ Ending' = Ending
    BY <2>1 DEF Reserving, Ending, BusyAt
  <2>5. Ledgers'
    <3>1. PICK n \in Nat : n = Cardinality(waiting') /\ Cardinality(waiting) = n + 1
      BY <2>3
    <3>2. /\ announced'.started = announced.started /\ announced'.failed = announced.failed
          /\ announced'.completed = announced.completed /\ bills'.answers = bills.answers
          /\ Total(admitted', Times) = Total(admitted, Times)
      BY <2>1
    <3>3. QED
      BY <1>1, <1>14, <2>2, <2>4, <3>1, <3>2, CountsAreSmall DEF Accounts, Ledgers
  <2>6. QED
    BY <1>2, <1>4, <2>1, <2>2, <2>5, EndKeepsBudget
<1>19. ASSUME EndRaises PROVE BudgetIInv'
  <2>1. /\ lost' = [lost EXCEPT !.booked = @ + 1]
        /\ busy.at \in {"booked", "stored"} /\ busy'.at = "free"
        /\ UNCHANGED <<announced, now, waiting, admitted, doc, bills>>
    BY <1>19 DEF EndRaises, BusyAt, Free, budgetVars
  <2>2. /\ lost' \in [reserved : Nat, asked : Int, booked : Nat]
        /\ lost'.reserved = lost.reserved /\ lost'.asked = lost.asked
        /\ lost'.booked = lost.booked + 1
    BY <1>2, <2>1
  <2>3. Reserving = 0 /\ Reserving' = 0 /\ Ending = 1 /\ Ending' = 0
    BY <2>1, HoldingCounts
  <2>4. Ledgers'
    BY <1>1, <1>2, <1>14, <2>1, <2>2, <2>3 DEF Accounts, Ledgers
  <2>5. QED
    BY <1>2, <1>4, <2>1, <2>2, <2>4, EndKeepsBudget
<1>9. ASSUME Crash PROVE BudgetIInv'
  <2>1. /\ waiting' = {} /\ busy'.at = "free"
        /\ lost' = [reserved |-> lost.reserved + Reserving,
                    asked |-> lost.asked + Cardinality(waiting) - Reserving,
                    booked |-> lost.booked + Ending]
        /\ UNCHANGED <<announced, now, admitted, doc, bills>>
    BY <1>9 DEF Crash, Free, Reserving, Ending
  <2>2. Cardinality(waiting') = 0
    BY <2>1, FS_EmptySet
  <2>3. Reserving \in {0, 1} /\ Ending \in {0, 1} /\ Reserving' = 0 /\ Ending' = 0
    BY <2>1, HoldingCounts, CountsAreSmall
  <2>4. Ledgers'
    BY <1>1, <1>2, <1>14, <2>1, <2>2, <2>3 DEF Accounts, Ledgers
  <2>5. waiting' \in SUBSET waiting /\ lost' \in [reserved : Nat, asked : Int, booked : Nat]
    BY <1>2, <1>14, <2>1, <2>3
  <2>6. QED
    BY <1>2, <1>4, <2>1, <2>4, <2>5, EndKeepsBudget
<1>10. ASSUME UNCHANGED <<budgetVars, announced, lost, busy>> PROVE BudgetIInv'
  <2>1. UNCHANGED <<now, doc, waiting, admitted, bills, announced, lost, busy>>
    BY <1>10 DEF budgetVars
  <2>2. now' \in Times /\ now' >= now
    BY <1>2, <2>1
  <2>3. QED
    BY <2>1, <2>2, TimeKeepsBudget
<1>11. ASSUME Tick, UNCHANGED <<vaultVars, gatewayVars>> PROVE BudgetIInv'
  <2>1. UNCHANGED <<doc, waiting, admitted, bills, announced, lost, busy>>
    BY <1>11 DEF Tick, gatewayVars
  <2>2. now' \in Times /\ now' >= now
    BY <1>2, <1>11, LLMBudgetAssumption DEF Tick, Times
  <2>3. QED
    BY <2>1, <2>2, TimeKeepsBudget
<1>12. ASSUME UNCHANGED vars PROVE BudgetIInv'
  BY <1>10, <1>12 DEF vars, gatewayVars
<1>13. QED
  BY <1>5, <1>6, <1>7, <1>8, <1>9, <1>10, <1>11, <1>12, <1>15, <1>16, <1>17, <1>18, <1>19
     DEF Next

\* Within a day, no hour admits more calls than the limit (budget.py:41-44), although
\* every answer rewrites the document the reservations are in.
THEOREM HourIsLimited == Spec => []HourlyLimitWithinDay
<1>1. BudgetIInv => HourlyLimitWithinDay
  BY DEF BudgetIInv
<1>2. QED
  BY <1>1, InitBudget, StepBudget, PTL DEF Spec

\* Every answer is booked once, every reservation announced, every announced call
\* answered or announced as failed and every booked answer announced (llm_complete), save
\* for what is on the way and what an exception or the end of the process cut off there.
THEOREM NothingUnaccounted == Spec => []EveryCallAccounted
<1>1. BudgetIInv => EveryCallAccounted
  BY AccountsAreThat DEF BudgetIInv
<1>2. QED
  BY <1>1, InitBudget, StepBudget, PTL DEF Spec
=============================================================================
