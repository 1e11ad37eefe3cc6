------------------------------- MODULE LLMBudget -------------------------------
(***************************************************************************)
(* Request and spending limits of LLM calls (backend/verine/providers/llm/ *)
(* budget.py and their use in llm_complete of api/live_service.py).        *)
(*                                                                         *)
(* A call is a coroutine of the event loop: it reserves a request, waits   *)
(* for the provider, and records what the answer cost.  Each of the two    *)
(* reads and rewrites the whole budget document of the current day without *)
(* giving up the loop, but other calls and midnight come in between.       *)
(* LLMGateway composes these steps with the rest of a call.                *)
(***************************************************************************)
EXTENDS Integers, FiniteSets, FiniteSetsExt

CONSTANTS
    Calls,        \* coroutines that may call a provider
    Hour, Day,    \* lengths in ticks
    PerHour,      \* VERINE_LLM_REQUESTS_PER_HOUR
    DailyBudget,  \* VERINE_LLM_DAILY_BUDGET_CENTS
    Estimates,    \* estimates callers pass; the one caller passes none
    Costs,        \* what an answer may cost, None when the provider does not say
    None,
    MaxTime       \* bound of the model

ASSUME LLMBudgetAssumption ==
    /\ Hour \in Nat \ {0} /\ Day \in Nat \ {0}
    /\ PerHour \in Nat /\ DailyBudget \in Nat
    /\ Estimates \ {None} \subseteq Nat /\ Costs \ {None} \subseteq Nat
    /\ None \notin Nat
    /\ MaxTime \in Nat

Times == 0 .. MaxTime
Days == {t \div Day : t \in Times}

VARIABLES
    now,
    doc,        \* day -> its document: requests by time, cents, calls of unknown cost
    waiting,    \* calls that wait for their provider
    admitted,   \* time -> calls ever admitted then
    bills       \* the costs of all answers, and how many there were

budgetVars == <<now, doc, waiting, admitted, bills>>

NoRequests == [t \in Times |-> 0]
NewDoc == [requests |-> NoRequests, spent |-> 0, unknown |-> 0]

BudgetInit ==
    /\ now = 0
    /\ doc = [d \in Days |-> NewDoc]
    /\ waiting = {}
    /\ admitted = NoRequests
    /\ bills = [cents |-> 0, unknown |-> 0, answers |-> 0]

Today == now \div Day
-------------------------------------------------------------------------------
(* check_and_reserve *)

Window(t) == {u \in Times : t - Hour < u /\ u <= t}
Requests(counts, times) == MapThenSumSet(LAMBDA t : counts[t], times)

Recent(requests) == [t \in Times |-> IF t \in Window(now) THEN requests[t] ELSE 0]

\* What is an hour old is dropped when a request is added.
Reserved(requests) == [Recent(requests) EXCEPT ![now] = @ + 1]

Admits == Requests(doc[Today].requests, Window(now)) < PerHour

WithinBudget(estimate) ==
    estimate # None => doc[Today].spent + estimate <= DailyBudget

\* A call that is refused raises before anything is written.
CheckAndReserve(c, estimate) ==
    /\ c \notin waiting
    /\ Admits
    /\ WithinBudget(estimate)
    /\ doc' = [doc EXCEPT ![Today].requests = Reserved(@)]
    /\ waiting' = waiting \cup {c}
    /\ admitted' = [admitted EXCEPT ![now] = @ + 1]
    /\ UNCHANGED <<now, bills>>
-------------------------------------------------------------------------------
(* The provider answers, or fails: the reservation stands either way *)

\* The answer's document, as it was when the day began.
RecordSpendAfresh(c, cost) ==
    /\ c \in waiting
    /\ IF cost = None
       THEN /\ doc' = [doc EXCEPT ![Today] = [NewDoc EXCEPT !.unknown = doc[Today].unknown + 1]]
            /\ bills' = [bills EXCEPT !.answers = @ + 1, !.unknown = @ + 1]
       ELSE /\ doc' = [doc EXCEPT ![Today] = [NewDoc EXCEPT !.spent = doc[Today].spent + cost]]
            /\ bills' = [bills EXCEPT !.answers = @ + 1, !.cents = @ + cost]
    /\ waiting' = waiting \ {c}
    /\ UNCHANGED <<now, admitted>>

\* record_spend books on the day of the answer, not of the reservation.
RecordSpend(c, cost) ==
    /\ c \in waiting
    /\ IF cost = None
       THEN /\ doc' = [doc EXCEPT ![Today].unknown = @ + 1]
            /\ bills' = [bills EXCEPT !.answers = @ + 1, !.unknown = @ + 1]
       ELSE /\ doc' = [doc EXCEPT ![Today].spent = @ + cost]
            /\ bills' = [bills EXCEPT !.answers = @ + 1, !.cents = @ + cost]
    /\ waiting' = waiting \ {c}
    /\ UNCHANGED <<now, admitted>>

CallFails(c) ==
    /\ c \in waiting
    /\ waiting' = waiting \ {c}
    /\ UNCHANGED <<now, doc, admitted, bills>>

Tick ==
    /\ now < MaxTime
    /\ now' = now + 1
    /\ UNCHANGED <<doc, waiting, admitted, bills>>
-------------------------------------------------------------------------------
(* Properties *)

\* Within a day, no hour admits more calls than the limit, although every answer
\* rewrites the document that holds the reservations, and every reservation drops
\* the ones that are an hour old.
HourlyLimitWithinDay ==
    \A t \in Times :
        Requests(admitted, {u \in Window(t) : u \div Day = t \div Day}) <= PerHour

\* Every answer is booked exactly once, on some day, whatever calls overlap it.
EveryAnswerBooked ==
    /\ MapThenSumSet(LAMBDA d : doc[d].spent, Days) = bills.cents
    /\ MapThenSumSet(LAMBDA d : doc[d].unknown, Days) = bills.unknown
=============================================================================
