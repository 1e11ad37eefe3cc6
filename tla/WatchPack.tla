------------------------------- MODULE WatchPack -------------------------------
(***************************************************************************)
(* Starting, pausing and supervising one watch pack                        *)
(* (backend/verine/api/live_service.py, start_watch_pack to _supervise).   *)
(*                                                                         *)
(* start is a coroutine of the event loop, so no supervisor moves while it *)
(* runs; pause is a plain `def` endpoint in the thread pool, so it runs    *)
(* between any two steps of start and of the supervisors.  They share the  *)
(* pack document, whose status each overwrites, and the table _tasks,      *)
(* which only lives in memory.  A cancellation is only requested by pause: *)
(* the loop delivers it later.                                             *)
(***************************************************************************)
EXTENDS Naturals

CONSTANTS
    MaxTasks,     \* bound of the model: supervisors ever created
    Pausers,      \* thread pool workers that serve pause
    None,
    MaxCrashes    \* bound of the model: restarts of the process

Tasks == 1 .. MaxTasks

ASSUME WatchPackAssumption ==
    MaxTasks \in Nat /\ MaxCrashes \in Nat /\ None \notin Tasks

VARIABLES
    status,     \* of the stored pack document
    table,      \* _tasks[watch_pack_id], or None
    task,       \* supervisor -> where it is
    cancelled,  \* supervisors whose cancellation was requested
    starter,    \* the start request being served on the loop
    pauser,     \* worker -> the pause request it serves
    lost,       \* since the last start requests overlapped, a client stored the pack
                \* anew, a start or the supervisor failed or the process died
    crashes

vars == <<status, table, task, cancelled, starter, pauser, lost, crashes>>

IdlePauser == [pc |-> "idle", task |-> None]

Init ==
    /\ status = "paused"
    /\ table = None
    /\ task = [t \in Tasks |-> "unborn"]
    /\ cancelled = {}
    /\ starter = "idle"
    /\ pauser = [w \in Pausers |-> IdlePauser]
    /\ lost = FALSE
    /\ crashes = 0

Busy == {w \in Pausers : pauser[w].pc # "idle"}
Done(t) == task[t] = "done"
Live == {t \in Tasks : task[t] \notin {"unborn", "done"}}
-------------------------------------------------------------------------------
(* create_watch_pack *)

\* The client's document is stored whole, over one that exists as well, with the
\* status the client gave; no supervisor is started or cancelled.
PostPack(given) ==
    /\ status' = given
    /\ lost' = TRUE
    /\ UNCHANGED <<table, task, cancelled, starter, pauser, crashes>>
-------------------------------------------------------------------------------
(* start_watch_pack *)

StartSaves ==
    /\ starter = "idle"
    /\ \E t \in Tasks : task[t] = "unborn"
    /\ status' = "running"
    /\ starter' = "saved"
    /\ lost' = (Busy # {})
    /\ UNCHANGED <<table, task, cancelled, pauser, crashes>>

Create(t) ==
    /\ task[t] = "unborn" /\ \A u \in 1 .. t - 1 : task[u] # "unborn"
    /\ task' = [task EXCEPT ![t] = "created"]
    /\ table' = t
    /\ starter' = "idle"
    /\ UNCHANGED <<status, cancelled, pauser, lost, crashes>>

\* The announcement of the start raises on a stream that does not parse: the status is
\* saved, and no task is looked for or created.
StartRaises ==
    /\ starter = "saved"
    /\ starter' = "idle"
    /\ lost' = TRUE
    /\ UNCHANGED <<status, table, task, cancelled, pauser, crashes>>

\* "not in _tasks" ...
StartFindsNone ==
    /\ starter = "saved" /\ table = None
    /\ \E t \in Tasks : Create(t)

StartFindsTask ==
    /\ starter = "saved" /\ table # None
    /\ starter' = "looking"
    /\ UNCHANGED <<status, table, task, cancelled, pauser, lost, crashes>>

\* A start that forgets to ask whether the task it found is done, and one that
\* never asks and always creates another.
StartLooksUndone ==
    /\ starter = "looking"
    /\ starter' = "idle"
    /\ UNCHANGED <<status, table, task, cancelled, pauser, lost, crashes>>

StartLooksAndCreates ==
    /\ starter = "looking"
    /\ \E t \in Tasks : Create(t)

\* ... or "_tasks[id].done()": by now a pause may have taken the entry out, and the
\* look-up raises KeyError.
StartLooks ==
    /\ starter = "looking"
    /\ IF table # None /\ Done(table)
       THEN \E t \in Tasks : Create(t)
       ELSE /\ starter' = "idle"
            /\ UNCHANGED <<status, table, task, cancelled, pauser, lost, crashes>>
-------------------------------------------------------------------------------
(* pause_watch_pack *)

PauseSaves(w) ==
    /\ pauser[w].pc = "idle"
    /\ status' = "paused"
    /\ pauser' = [pauser EXCEPT ![w].pc = "saved"]
    /\ lost' = (lost \/ starter # "idle" \/ Busy # {})
    /\ UNCHANGED <<table, task, cancelled, starter, crashes>>

PausePops(w) ==
    /\ pauser[w].pc = "saved"
    /\ pauser' = [pauser EXCEPT ![w] = [pc |-> "popped", task |-> table]]
    /\ table' = None
    /\ UNCHANGED <<status, task, cancelled, starter, lost, crashes>>

PauseCancels(w) ==
    /\ pauser[w].pc = "popped"
    /\ cancelled' = cancelled \cup ({pauser[w].task} \cap Live)
    /\ pauser' = [pauser EXCEPT ![w] = IdlePauser]
    /\ UNCHANGED <<status, table, task, starter, lost, crashes>>
-------------------------------------------------------------------------------
(* _supervise *)

\* A supervisor takes a turn of the loop: nobody else is on it.
Runs(t) == starter = "idle" /\ t \in Live \ cancelled

Moves(t, to) ==
    /\ task' = [task EXCEPT ![t] = to]
    /\ UNCHANGED <<status, table, cancelled, starter, pauser, crashes>>

SuperviseBlindly(t) ==
    /\ Runs(t) /\ task[t] \in {"created", "sleeping"}
    /\ Moves(t, "polling")
    /\ UNCHANGED lost

\* The head of the while loop: the status is read again before every poll.
Supervise(t) ==
    /\ Runs(t) /\ task[t] \in {"created", "sleeping"}
    /\ Moves(t, IF status = "running" THEN "polling" ELSE "done")
    /\ UNCHANGED lost

\* poll_watch_pack returns: a VerineError of a connector is part of its result.
PollEnds(t) ==
    /\ Runs(t) /\ task[t] = "polling"
    /\ Moves(t, "sleeping")
    /\ UNCHANGED lost

\* Anything else (a feed whose shape changed, a connector that is gone) ends the
\* loop; the status document is not touched.
SuperviseFails(t) ==
    /\ Runs(t) /\ task[t] = "polling"
    /\ Moves(t, "done")
    /\ lost' = (lost \/ table = t)

CancelArrives(t) ==
    /\ starter = "idle" /\ t \in Live \cap cancelled
    /\ Moves(t, "done")
    /\ UNCHANGED lost

\* A restart starts no supervisor.
Crash ==
    /\ crashes < MaxCrashes
    /\ crashes' = crashes + 1
    /\ task' = [t \in Tasks |-> IF task[t] = "unborn" THEN "unborn" ELSE "done"]
    /\ table' = None
    /\ cancelled' = {}
    /\ starter' = "idle"
    /\ pauser' = [w \in Pausers |-> IdlePauser]
    /\ lost' = TRUE
    /\ UNCHANGED status

Start == StartSaves \/ StartRaises \/ StartFindsNone \/ StartFindsTask \/ StartLooks
Pause(w) == PauseSaves(w) \/ PausePops(w) \/ PauseCancels(w)
Loop(t) == Supervise(t) \/ PollEnds(t) \/ SuperviseFails(t) \/ CancelArrives(t)

Next ==
    \/ \E given \in {"running", "paused"} : PostPack(given)
    \/ Start
    \/ \E w \in Pausers : Pause(w)
    \/ \E t \in Tasks : Loop(t)
    \/ Crash

Spec == Init /\ [][Next]_vars

\* Requests that are being served go on, and every task gets its turns: a poll
\* ends because each fetch has a time-out, a sleep because it is finite.
Fairness ==
    /\ WF_vars(StartFindsNone \/ StartFindsTask \/ StartLooks)
    /\ \A w \in Pausers : WF_vars(PausePops(w) \/ PauseCancels(w))
    /\ \A t \in Tasks : WF_vars(Loop(t))

FairSpec == Spec /\ Fairness
-------------------------------------------------------------------------------
(* Properties *)

\* Every variable keeps its type.
TypeOK ==
    /\ status \in {"running", "paused"}
    /\ table \in Tasks \cup {None}
    /\ task \in [Tasks -> {"unborn", "created", "polling", "sleeping", "done"}]
    /\ cancelled \in SUBSET Tasks
    /\ starter \in {"idle", "saved", "looking"}
    /\ pauser \in [Pausers -> [pc : {"idle", "saved", "popped"}, task : Tasks \cup {None}]]
    /\ lost \in BOOLEAN
    /\ crashes \in 0 .. MaxCrashes

\* However start and pause interleave, no supervisor leaks: each live one is in the
\* table, where a pause finds it, or a pause has it in hand, or it has been
\* cancelled.  With one table entry, no two supervisors poll a pack for good.
Stoppable ==
    \A t \in Live :
        \/ table = t
        \/ t \in cancelled
        \/ \E w \in Pausers : pauser[w].pc = "popped" /\ pauser[w].task = t

\* Between requests, and unless since the last start some overlapped, the pack was
\* posted anew, a start or the supervisor failed or the process was restarted, the status
\* tells the truth: the pack is supervised exactly when it says "running"
\* (watch_pack_status reports both).
StatusIsTrue ==
    starter = "idle" /\ Busy = {} /\ ~ lost =>
        (status = "running" <=> table # None /\ table \in Live \ cancelled)

\* A pack whose status is "paused" falls silent, whatever the pause raced with and
\* even if a client only posted the status: the supervisors that were live end, unless
\* the status becomes "running" again ("stops on pause").
PausedFallsSilent == status = "paused" ~> (status = "running" \/ Live = {})
=============================================================================
