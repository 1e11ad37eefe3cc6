---------------------------- MODULE WatchPackProofs ----------------------------
(***************************************************************************)
(* No supervisor of a watch pack leaks, and between undisturbed requests   *)
(* the stored status tells the truth, for any number of supervisors, pause *)
(* requests and restarts.                                                  *)
(***************************************************************************)
EXTENDS WatchPack, TLAPS

\* Stoppable is inductive once the variables have their types: what start puts
\* in the table replaces either nothing or a supervisor that is done.
IInv == TypeOK /\ Stoppable
-------------------------------------------------------------------------------
\* Nothing is live initially.
LEMMA InitIInv == Init => IInv
<1> SUFFICES ASSUME Init PROVE IInv
  OBVIOUS
<1>1. TypeOK
  <2>1. crashes \in 0 .. MaxCrashes
    BY WatchPackAssumption DEF Init
  <2>2. IdlePauser \in [pc : {"idle", "saved", "popped"}, task : Tasks \cup {None}]
    BY DEF IdlePauser
  <2>3. QED
    BY <2>1, <2>2 DEF Init, TypeOK
<1>2. Stoppable
  BY DEF Init, Stoppable, Live
<1>3. QED
  BY <1>1, <1>2 DEF IInv

\* start replaces an empty or a finished entry of the table.
LEMMA CreateIInv ==
    ASSUME IInv, NEW t \in Tasks, Create(t), table = None \/ Done(table)
    PROVE  IInv'
<1>1. TypeOK'
  BY DEF IInv, TypeOK, Create
<1>2. ASSUME NEW u \in Live'
      PROVE  \/ table' = u
             \/ u \in cancelled'
             \/ \E w \in Pausers : pauser'[w].pc = "popped" /\ pauser'[w].task = u
  <2>1. CASE u = t
    BY <2>1 DEF Create
  <2>2. CASE u # t
    <3>1. u \in Live
      BY <1>2, <2>2 DEF Live, Create, IInv, TypeOK
    <3>2. table # u
      BY <3>1, WatchPackAssumption DEF Live, Done
    <3>3. QED
      BY <3>1, <3>2 DEF IInv, Stoppable, Create
  <2>3. QED
    BY <2>1, <2>2
<1>3. Stoppable'
  BY <1>2 DEF Stoppable
<1>4. QED
  BY <1>1, <1>3 DEF IInv

\* A turn of a supervisor changes nothing but where it is.
LEMMA MovesIInv ==
    ASSUME IInv, NEW t \in Live, NEW to \in {"polling", "sleeping", "done"}, Moves(t, to),
           lost' \in BOOLEAN
    PROVE  IInv'
<1>1. TypeOK'
  BY DEF IInv, TypeOK, Moves, Live
<1>2. Live' \subseteq Live
  BY DEF IInv, TypeOK, Moves, Live
<1>3. Stoppable'
  BY <1>2 DEF IInv, Stoppable, Moves
<1>4. QED
  BY <1>1, <1>3 DEF IInv

\* The invariant survives every step of start, of the pauses, of the supervisors
\* and of a restart.
LEMMA NextIInv == IInv /\ [Next]_vars => IInv'
<1> SUFFICES ASSUME IInv, [Next]_vars PROVE IInv'
  OBVIOUS
<1>1. CASE StartSaves
  BY <1>1 DEF StartSaves, IInv, TypeOK, Stoppable, Live
<1>2. CASE StartFindsNone
  BY <1>2, CreateIInv DEF StartFindsNone
<1>3. CASE StartFindsTask
  BY <1>3 DEF StartFindsTask, IInv, TypeOK, Stoppable, Live
<1>4. CASE StartLooks
  <2>1. CASE table # None /\ Done(table)
    BY <1>4, <2>1, CreateIInv DEF StartLooks
  <2>2. CASE ~ (table # None /\ Done(table))
    BY <1>4, <2>2 DEF StartLooks, IInv, TypeOK, Stoppable, Live
  <2>3. QED
    BY <2>1, <2>2
<1>5. ASSUME NEW w \in Pausers, PauseSaves(w) PROVE IInv'
  <2>1. TypeOK'
    BY <1>5 DEF PauseSaves, IInv, TypeOK
  <2>2. \A v \in Pausers : pauser[v].pc = "popped" => pauser'[v] = pauser[v]
    BY <1>5 DEF PauseSaves, IInv, TypeOK
  <2>3. Stoppable'
    BY <1>5, <2>2 DEF PauseSaves, IInv, Stoppable, Live
  <2>4. QED
    BY <2>1, <2>3 DEF IInv
<1>6. ASSUME NEW w \in Pausers, PausePops(w) PROVE IInv'
  <2>1. TypeOK'
    BY <1>6 DEF PausePops, IInv, TypeOK
  <2>2. pauser'[w].pc = "popped" /\ pauser'[w].task = table
    BY <1>6 DEF PausePops, IInv, TypeOK
  <2>3. \A v \in Pausers : pauser[v].pc = "popped" => pauser'[v] = pauser[v]
    BY <1>6 DEF PausePops, IInv, TypeOK
  <2>4. Stoppable'
    BY <1>6, <2>2, <2>3 DEF PausePops, IInv, Stoppable, Live
  <2>5. QED
    BY <2>1, <2>4 DEF IInv
<1>7. ASSUME NEW w \in Pausers, PauseCancels(w) PROVE IInv'
  <2>1. TypeOK'
    BY <1>7 DEF PauseCancels, IInv, TypeOK, IdlePauser, Live
  <2>2. \A v \in Pausers : v # w => pauser'[v] = pauser[v]
    BY <1>7 DEF PauseCancels, IInv, TypeOK
  <2>3. Stoppable'
    BY <1>7, <2>2 DEF PauseCancels, IInv, Stoppable, Live
  <2>4. QED
    BY <2>1, <2>3 DEF IInv
<1>8. ASSUME NEW t \in Tasks, Loop(t) PROVE IInv'
  <2>1. lost' \in BOOLEAN /\ t \in Live
    BY <1>8 DEF Loop, Supervise, PollEnds, SuperviseFails, CancelArrives, Runs, IInv, TypeOK
  <2>2. \E to \in {"polling", "sleeping", "done"} : Moves(t, to)
    BY <1>8 DEF Loop, Supervise, PollEnds, SuperviseFails, CancelArrives
  <2>3. QED
    BY <2>1, <2>2, MovesIInv
<1>9. CASE Crash
  <2>1. TypeOK'
    BY <1>9, WatchPackAssumption DEF Crash, IInv, TypeOK, IdlePauser
  <2>2. Live' = {}
    BY <1>9 DEF Crash, Live
  <2>3. QED
    BY <2>1, <2>2 DEF IInv, Stoppable
<1>10. CASE UNCHANGED vars
  BY <1>10 DEF vars, IInv, TypeOK, Stoppable, Live
<1>11. ASSUME NEW given \in {"running", "paused"}, PostPack(given) PROVE IInv'
  BY <1>11 DEF PostPack, IInv, TypeOK, Stoppable, Live
<1>12. CASE StartRaises
  BY <1>12 DEF StartRaises, IInv, TypeOK, Stoppable, Live
<1>13. QED
  BY <1>1, <1>2, <1>3, <1>4, <1>5, <1>6, <1>7, <1>8, <1>9, <1>10, <1>11, <1>12
     DEF Next, Start, Pause

\* The types of the pack document, of the table and of the requests in service.
THEOREM TypeCorrect == Spec => []TypeOK
<1>1. IInv => TypeOK
  BY DEF IInv
<1>2. QED
  BY <1>1, InitIInv, NextIInv, PTL DEF Spec

\* However start and pause interleave, every live supervisor can still be stopped.
THEOREM NoLeak == Spec => []Stoppable
<1>1. IInv => Stoppable
  BY DEF IInv
<1>2. QED
  BY <1>1, InitIInv, NextIInv, PTL DEF Spec
-------------------------------------------------------------------------------
(* The stored status *)

\* A supervisor is taken out of the table before it is cancelled and never put
\* back, and one that was not created yet is known to nobody.
TableIsFresh ==
    /\ table # None => task[table] # "unborn" /\ table \notin cancelled
    /\ \A w \in Pausers, t \in Tasks :
          pauser[w].pc = "popped" /\ pauser[w].task = t => t # table /\ task[t] # "unborn"
    /\ \A t \in cancelled : task[t] # "unborn"

\* What a request that overlaps with no other has done so far: a start has written
\* "running" and, at its second look, has seen an entry; a pause has written
\* "paused" and, once it took the entry out, has left the table empty.
OneAtATime ==
    ~ lost =>
        /\ starter # "idle" => Busy = {} /\ status = "running"
        /\ starter = "looking" => table # None
        /\ \A v, w \in Busy : v = w
        /\ \A w \in Busy :
              /\ status = "paused"
              /\ pauser[w].pc = "popped" => table = None

\* The strengthening of StatusIsTrue that is inductive.
SInv == IInv /\ TableIsFresh /\ OneAtATime /\ StatusIsTrue
-------------------------------------------------------------------------------
\* Initially the pack is paused and unsupervised.
LEMMA InitSInv == Init => SInv
<1> SUFFICES ASSUME Init PROVE SInv
  OBVIOUS
<1>1. Busy = {}
  BY DEF Init, Busy, IdlePauser
<1>2. TableIsFresh
  BY DEF Init, TableIsFresh, IdlePauser
<1>3. OneAtATime /\ StatusIsTrue
  BY <1>1 DEF Init, OneAtATime, StatusIsTrue
<1>4. QED
  BY <1>2, <1>3, InitIInv DEF SInv

\* start puts the new supervisor in the table: the status it wrote is true again.
LEMMA CreateSInv ==
    ASSUME SInv, NEW t \in Tasks, Create(t), starter # "idle"
    PROVE  TableIsFresh' /\ OneAtATime' /\ StatusIsTrue'
<1>1. /\ task[t] = "unborn" /\ table' = t /\ task' = [task EXCEPT ![t] = "created"]
      /\ starter' = "idle" /\ Busy' = Busy
      /\ UNCHANGED <<status, cancelled, pauser, lost>>
  BY DEF Create, Busy
<1>2. /\ task'[t] = "created" /\ t # None
      /\ \A u \in Tasks : task[u] # "unborn" => task'[u] # "unborn" /\ u # t
  BY <1>1, WatchPackAssumption DEF SInv, IInv, TypeOK
<1>3. t \notin cancelled /\ t \in Live'
  BY <1>1, <1>2 DEF SInv, TableIsFresh, Live
<1>4. TableIsFresh'
  BY <1>1, <1>2, <1>3 DEF SInv, IInv, TypeOK, TableIsFresh
<1>5. OneAtATime'
  BY <1>1 DEF SInv, OneAtATime
<1>6. StatusIsTrue'
  BY <1>1, <1>2, <1>3 DEF SInv, OneAtATime, StatusIsTrue
<1>7. QED
  BY <1>4, <1>5, <1>6

\* A turn of a supervisor takes the entry of the table off the live ones only when
\* the loop has read "paused", has failed, or was cancelled.
LEMMA LoopSInv ==
    ASSUME SInv, NEW t \in Tasks, Loop(t)
    PROVE  TableIsFresh' /\ OneAtATime' /\ StatusIsTrue'
<1>1. /\ starter = "idle" /\ t \in Live /\ Busy' = Busy
      /\ UNCHANGED <<status, table, cancelled, starter, pauser>>
      /\ \E to \in {"polling", "sleeping", "done"} : task' = [task EXCEPT ![t] = to]
  BY DEF Loop, Supervise, PollEnds, SuperviseFails, CancelArrives, Runs, Moves, Busy
<1>2. \A u \in Tasks : task[u] # "unborn" => task'[u] # "unborn"
  BY <1>1 DEF SInv, IInv, TypeOK
<1>3. TableIsFresh'
  BY <1>1, <1>2 DEF SInv, IInv, TypeOK, TableIsFresh
<1>4. lost' = lost \/ (lost' = TRUE /\ lost' # lost)
  BY DEF Loop, Supervise, PollEnds, SuperviseFails, CancelArrives, SInv, IInv, TypeOK
<1>5. OneAtATime'
  BY <1>1, <1>4 DEF SInv, OneAtATime
<1>6. ASSUME ~ lost', Busy = {}
      PROVE  status = "running" <=> table # None /\ table \in Live' \ cancelled
  <2>1. ~ lost /\ (status = "running" <=> table # None /\ table \in Live \ cancelled)
    BY <1>1, <1>4, <1>6 DEF SInv, StatusIsTrue
  <2>2. Live' \subseteq Live
    BY <1>1 DEF Live, SInv, IInv, TypeOK
  <2>3. ASSUME status = "running" PROVE table \in Live'
    <3>1. table # t => table \in Live'
      BY <1>1, <2>1, <2>3 DEF Live, SInv, IInv, TypeOK
    <3>2. CASE table = t
      <4>1. ~ SuperviseFails(t) /\ ~ CancelArrives(t)
        BY <1>6, <2>1, <2>3, <3>2 DEF SuperviseFails, CancelArrives
      <4>2. task'[t] \in {"polling", "sleeping"}
        BY <2>3, <4>1 DEF Loop, Supervise, PollEnds, Moves, SInv, IInv, TypeOK
      <4>3. QED
        BY <3>2, <4>2 DEF Live
    <3>3. QED
      BY <3>1, <3>2
  <2>4. QED
    BY <2>1, <2>2, <2>3
<1>7. StatusIsTrue'
  BY <1>1, <1>6 DEF StatusIsTrue
<1>8. QED
  BY <1>3, <1>5, <1>7

\* The status stays true through every step of start, of the pauses, of the
\* supervisors, of a client's post and of a restart.
LEMMA NextSInv == SInv /\ [Next]_vars => SInv'
<1> SUFFICES ASSUME SInv, [Next]_vars PROVE SInv'
  OBVIOUS
<1> SUFFICES TableIsFresh' /\ OneAtATime' /\ StatusIsTrue'
  BY NextIInv DEF SInv
<1>1. CASE StartSaves
  <2>1. /\ starter = "idle" /\ starter' = "saved" /\ status' = "running"
        /\ lost' = (Busy # {}) /\ Busy' = Busy
        /\ UNCHANGED <<table, task, cancelled, pauser>>
    BY <1>1 DEF StartSaves, Busy
  <2>2. TableIsFresh'
    BY <2>1 DEF SInv, TableIsFresh
  <2>3. QED
    BY <2>1, <2>2 DEF OneAtATime, StatusIsTrue
<1>2. CASE StartFindsNone
  BY <1>2, CreateSInv DEF StartFindsNone
<1>3. CASE StartFindsTask
  <2>1. /\ starter' = "looking" /\ starter # "idle" /\ table # None /\ Busy' = Busy
        /\ UNCHANGED <<status, table, task, cancelled, pauser, lost>>
    BY <1>3 DEF StartFindsTask, Busy
  <2>2. TableIsFresh'
    BY <2>1 DEF SInv, TableIsFresh
  <2>3. OneAtATime'
    BY <2>1 DEF SInv, OneAtATime
  <2>4. QED
    BY <2>1, <2>2, <2>3 DEF StatusIsTrue
<1>4. CASE StartLooks
  <2>1. CASE table # None /\ Done(table)
    BY <1>4, <2>1, CreateSInv DEF StartLooks
  <2>2. CASE ~ (table # None /\ Done(table))
    <3>1. /\ starter = "looking" /\ starter' = "idle" /\ Busy' = Busy /\ Live' = Live
          /\ UNCHANGED <<status, table, task, cancelled, pauser, lost>>
      BY <1>4, <2>2 DEF StartLooks, Busy, Live
    <3>2. TableIsFresh'
      BY <3>1 DEF SInv, TableIsFresh
    <3>3. OneAtATime'
      BY <3>1 DEF SInv, OneAtATime
    <3>4. ~ lost => status = "running" /\ table # None /\ table \in Live \ cancelled
      BY <2>2, <3>1 DEF SInv, IInv, TypeOK, OneAtATime, TableIsFresh, Live, Done
    <3>5. QED
      BY <3>1, <3>2, <3>3, <3>4 DEF StatusIsTrue
  <2>3. QED
    BY <2>1, <2>2
<1>5. ASSUME NEW w \in Pausers, PauseSaves(w) PROVE TableIsFresh' /\ OneAtATime' /\ StatusIsTrue'
  <2>1. /\ w \notin Busy /\ Busy' = Busy \cup {w} /\ status' = "paused"
        /\ lost' = (lost \/ starter # "idle" \/ Busy # {})
        /\ pauser'[w].pc = "saved"
        /\ \A v \in Pausers : v # w => pauser'[v] = pauser[v]
        /\ UNCHANGED <<table, task, cancelled, starter>>
    BY <1>5 DEF PauseSaves, Busy, SInv, IInv, TypeOK
  <2>2. TableIsFresh'
    BY <2>1 DEF SInv, TableIsFresh
  <2>3. OneAtATime'
    BY <2>1 DEF OneAtATime
  <2>4. QED
    BY <2>1, <2>2, <2>3 DEF StatusIsTrue
<1>6. ASSUME NEW w \in Pausers, PausePops(w) PROVE TableIsFresh' /\ OneAtATime' /\ StatusIsTrue'
  <2>1. /\ w \in Busy /\ Busy' = Busy /\ table' = None
        /\ pauser'[w] = [pc |-> "popped", task |-> table]
        /\ \A v \in Pausers : v # w => pauser'[v] = pauser[v]
        /\ UNCHANGED <<status, task, cancelled, starter, lost>>
    BY <1>6 DEF PausePops, Busy, SInv, IInv, TypeOK
  <2>2. TableIsFresh'
    BY <2>1, WatchPackAssumption DEF SInv, IInv, TypeOK, TableIsFresh
  <2>3. OneAtATime'
    BY <2>1 DEF SInv, OneAtATime
  <2>4. QED
    BY <2>1, <2>2, <2>3 DEF StatusIsTrue
<1>7. ASSUME NEW w \in Pausers, PauseCancels(w) PROVE TableIsFresh' /\ OneAtATime' /\ StatusIsTrue'
  <2>1. /\ w \in Busy /\ Busy' = Busy \ {w} /\ pauser[w].pc = "popped"
        /\ cancelled' = cancelled \cup ({pauser[w].task} \cap Live)
        /\ pauser'[w].pc = "idle"
        /\ \A v \in Pausers : v # w => pauser'[v] = pauser[v]
        /\ UNCHANGED <<status, table, task, starter, lost>>
    BY <1>7 DEF PauseCancels, IdlePauser, Busy, SInv, IInv, TypeOK
  <2>2. TableIsFresh'
    <3>1. pauser[w].task \in Live => pauser[w].task # table /\ task[pauser[w].task] # "unborn"
      BY <2>1 DEF SInv, TableIsFresh, Live
    <3>2. QED
      BY <2>1, <3>1 DEF SInv, TableIsFresh
  <2>3. OneAtATime'
    BY <2>1 DEF SInv, OneAtATime
  <2>4. ~ lost => status = "paused" /\ table = None
    BY <2>1 DEF SInv, OneAtATime
  <2>5. QED
    BY <2>1, <2>2, <2>3, <2>4 DEF StatusIsTrue
<1>8. ASSUME NEW t \in Tasks, Loop(t) PROVE TableIsFresh' /\ OneAtATime' /\ StatusIsTrue'
  BY <1>8, LoopSInv
<1>9. CASE Crash
  BY <1>9 DEF Crash, TableIsFresh, OneAtATime, StatusIsTrue, IdlePauser
<1>10. CASE UNCHANGED vars
  BY <1>10 DEF vars, SInv, TableIsFresh, OneAtATime, StatusIsTrue, Busy, Live
<1>11. ASSUME NEW given \in {"running", "paused"}, PostPack(given)
       PROVE  TableIsFresh' /\ OneAtATime' /\ StatusIsTrue'
  BY <1>11 DEF PostPack, SInv, TableIsFresh, OneAtATime, StatusIsTrue
<1>12. CASE StartRaises
  BY <1>12 DEF StartRaises, SInv, TableIsFresh, OneAtATime, StatusIsTrue
<1>13. QED
  BY <1>1, <1>2, <1>3, <1>4, <1>5, <1>6, <1>7, <1>8, <1>9, <1>10, <1>11, <1>12
     DEF Next, Start, Pause

\* Between requests, and unless since the last start some overlapped, the pack was
\* posted anew, a start or the supervisor failed or the process died, the stored status
\* says whether the pack is supervised.
THEOREM StatusTrue == Spec => []StatusIsTrue
<1>1. SInv => StatusIsTrue
  BY DEF SInv
<1>2. QED
  BY <1>1, InitSInv, NextSInv, PTL DEF Spec
=============================================================================
