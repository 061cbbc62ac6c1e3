--------------------------- MODULE EscalationBudget ---------------------------
(***************************************************************************)
(* The escalation broker of the router (escalation.py): paid calls to      *)
(* Claude under a daily and a monthly dollar cap.                          *)
(*                                                                         *)
(* handle() runs without an await up to _post, so admission (duplicate     *)
(* check, budget check, reservation) is one step; _post awaits Anthropic   *)
(* and may retry once; what comes back is booked in the ledger and the     *)
(* reservation dropped in one step.  Between those, other calls run, the   *)
(* client may leave, and the router may be restarted, which loses every    *)
(* reservation but no ledger row.                                          *)
(*                                                                         *)
(* Each call appends at most one row, so the ledger is a function from     *)
(* calls to rows; costs are small integers in place of dollars.            *)
(***************************************************************************)
EXTENDS Integers, FiniteSets

CONSTANTS
    Calls,          \* escalation requests
    Briefs,         \* brief texts, up to equality of their hash
    Aliases,        \* the aliases in use, a subset of AllAliases
    Worst,          \* worst_cost(): what a call of the alias reserves
    Extra,          \* what an answer past RESERVE_ANSWER_TOKENS can cost on top
    DayCap, MonthCap,
    HardLimit, SharedLimit, AutoLimit,   \* calls a day, or NoLimit
    NoLimit,
    DedupeS,        \* cfg.dedupe_s, 0 switches the duplicate check off
    DayLen, MonthLen, MaxClock           \* ticks; MaxClock bounds the model

AllAliases == {"ask", "auto", "hard"}

ASSUME BudgetAssumption ==
    /\ IsFiniteSet(Calls)
    /\ Aliases \subseteq AllAliases /\ Aliases # {} /\ Briefs # {}
    /\ Worst \in [Aliases -> Nat \ {0}]
    /\ Extra \in Nat
    /\ DayCap \in Nat /\ MonthCap \in Nat
    /\ {HardLimit, SharedLimit, AutoLimit} \subseteq Nat \cup {NoLimit}
    /\ DedupeS \in Nat
    /\ DayLen \in Nat \ {0} /\ MonthLen \in Nat \ {0}
    /\ MaxClock \in Nat

VARIABLES
    clock,          \* time.time()
    phase,          \* where handle() stands for the call
    alias, brief, arrived,   \* its alias, brief and `now`, once it has arrived
    attempt,        \* _post's loop variable
    pending,        \* Ledger._pending: the calls that hold a reservation
    ledger,         \* the row each call has appended
    billed          \* what Anthropic has charged for the call so far

callVars == <<alias, brief, arrived>>
vars == <<clock, phase, alias, brief, arrived, attempt, pending, ledger, billed>>

Phases   == {"new", "sending", "refused", "answered", "failed", "unrecorded", "lost"}
Outcomes == {"none", "ok", "error", "refused:budget", "refused:other"}
NoRow    == [outcome |-> "none", cost |-> 0, done |-> 0]

TypeOK ==
    /\ clock \in 0..MaxClock
    /\ phase \in [Calls -> Phases]
    /\ alias \in [Calls -> Aliases]
    /\ brief \in [Calls -> Briefs]
    /\ arrived \in [Calls -> 0..MaxClock]
    /\ attempt \in [Calls -> {0, 1}]
    /\ pending \subseteq Calls
    /\ ledger \in [Calls -> [outcome : Outcomes, cost : Nat, done : 0..MaxClock]]
    /\ billed \in [Calls -> Nat]

\* The alias and brief of a call are set when it arrives.
Init ==
    /\ clock = 0
    /\ phase = [c \in Calls |-> "new"]
    /\ alias = [c \in Calls |-> CHOOSE a \in Aliases : TRUE]
    /\ brief = [c \in Calls |-> CHOOSE b \in Briefs : TRUE]
    /\ arrived = [c \in Calls |-> 0]
    /\ attempt = [c \in Calls |-> 0]
    /\ pending = {}
    /\ ledger = [c \in Calls |-> NoRow]
    /\ billed = [c \in Calls |-> 0]

-----------------------------------------------------------------------------
(* Reading the ledger.                                                     *)

Recorded(c) == ledger[c].outcome # "none"
WorstOf(c)  == Worst[alias[c]]
Day(t)      == t \div DayLen
Month(t)    == t \div MonthLen

\* A sum over calls is the number of units of money they stand for.
Units(amount, S) == UNION {{c} \X (1..amount[c]) : c \in S}
Total(amount, S) == Cardinality(Units(amount, S))

Costs == [c \in Calls |-> ledger[c].cost]
Held  == [c \in Calls |-> WorstOf(c)]
CostOf(S)  == Total(Costs, S)
HeldFor(S) == Total(Held, S)

\* Ledger.usage: the rows of the current day or month plus everything reserved.
RowsToday     == {c \in Calls : Recorded(c) /\ Day(arrived[c]) = Day(clock)}
RowsThisMonth == {c \in Calls : Recorded(c) /\ Month(arrived[c]) = Month(clock)}

\* Mutant of DayCost: what is in flight is not counted.
DayCostBooked == CostOf(RowsToday)

DayCost       == CostOf(RowsToday) + HeldFor(pending)
MonthCost     == CostOf(RowsThisMonth) + HeldFor(pending)

\* A refused row is not a call.
IsCallRow(c) == ledger[c].outcome \in {"ok", "error"}
\* Mutant of CallsToday: calls in flight are not counted.
CallsBooked(A) == Cardinality({c \in RowsToday : IsCallRow(c) /\ alias[c] \in A})

CallsToday(A) == Cardinality({c \in RowsToday : IsCallRow(c) /\ alias[c] \in A})
                 + Cardinality({c \in pending : alias[c] \in A})

Under(limit, used) == limit # NoLimit => used < limit

\* check_budget, for a call of alias a.
FitsBudget(a) ==
    /\ MonthCost + Worst[a] <= MonthCap
    /\ DayCost + Worst[a] <= DayCap
    /\ IF a = "hard"
       THEN Under(HardLimit, CallsToday({"hard"}))
       ELSE /\ Under(SharedLimit, CallsToday({"ask", "auto"}))
            /\ a = "auto" => Under(AutoLimit, CallsToday({"auto"}))

\* _spent_or_budget_refused and _duplicate_age: an identical brief was answered,
\* charged or budget-refused, and that call ended within the window.
Spent(c) == \/ ledger[c].outcome \in {"ok", "refused:budget"}
            \/ ledger[c].outcome = "error" /\ ledger[c].cost > 0
\* Mutant of IsDuplicate: the window starts when the first call arrived.
ArrivedRecently(b) ==
    /\ DedupeS > 0
    /\ \E c \in Calls : Spent(c) /\ brief[c] = b /\ arrived[c] >= clock - DedupeS

IsDuplicate(b) ==
    /\ DedupeS > 0
    /\ \E c \in Calls : Spent(c) /\ brief[c] = b /\ ledger[c].done >= clock - DedupeS

-----------------------------------------------------------------------------
(* handle(), up to the await.                                              *)

Arrives(c, a, b) ==
    /\ phase[c] = "new"
    /\ alias' = [alias EXCEPT ![c] = a]
    /\ brief' = [brief EXCEPT ![c] = b]
    /\ arrived' = [arrived EXCEPT ![c] = clock]

\* refuse(): one free row.  If the append fails the exception reaches the
\* client and no row is written.
Refuse(c, outcome) ==
    /\ phase' = [phase EXCEPT ![c] = "refused"]
    /\ \/ ledger' = [ledger EXCEPT ![c] = [outcome |-> outcome, cost |-> 0, done |-> clock]]
       \/ UNCHANGED ledger
    /\ UNCHANGED <<clock, attempt, pending, billed>>

\* An invalid brief, an unpriced model or a missing key.
RefuseUnfit(c, a, b) ==
    Arrives(c, a, b) /\ Refuse(c, "refused:other")

RefuseDuplicate(c, a, b) ==
    Arrives(c, a, b) /\ IsDuplicate(b) /\ Refuse(c, "refused:other")

RefuseBudget(c, a, b) ==
    Arrives(c, a, b) /\ ~IsDuplicate(b) /\ ~FitsBudget(a) /\ Refuse(c, "refused:budget")

\* Ledger.reserve succeeds and the request goes out.
Reserve(c, a, b) ==
    /\ Arrives(c, a, b)
    /\ ~IsDuplicate(b)
    /\ FitsBudget(a)
    /\ phase' = [phase EXCEPT ![c] = "sending"]
    /\ pending' = pending \cup {c}
    /\ UNCHANGED <<clock, attempt, ledger, billed>>

-----------------------------------------------------------------------------
(* _post and what handle() does with its result.                           *)

\* What Anthropic may charge for one delivered request.
Bills(c) == {1, WorstOf(c), WorstOf(c) + Extra}

\* Mutant of Settle: the reservation is dropped although no row was written.
SettleUnrecorded(c, outcome, cost, next) ==
    /\ pending' = pending \ {c}
    /\ phase' = [phase EXCEPT ![c] = next]
    /\ \/ ledger' = [ledger EXCEPT ![c] = [outcome |-> outcome, cost |-> cost, done |-> clock]]
       \/ UNCHANGED ledger
    /\ UNCHANGED <<clock, alias, brief, arrived, attempt>>

\* Ledger.settle: append the row and drop the reservation.  If the append
\* fails, the reservation stays held and the caller gets an error.
Settle(c, outcome, cost, next) ==
    /\ \/ /\ ledger' = [ledger EXCEPT ![c] = [outcome |-> outcome, cost |-> cost, done |-> clock]]
          /\ pending' = pending \ {c}
          /\ phase' = [phase EXCEPT ![c] = next]
       \/ /\ phase' = [phase EXCEPT ![c] = "unrecorded"]
          /\ UNCHANGED <<ledger, pending>>
    /\ UNCHANGED <<clock, alias, brief, arrived, attempt>>

\* Mutants of RetryUnbilled: a third attempt; retries without end.
RetryAgain(c) ==
    /\ phase[c] = "sending"
    /\ attempt' = [attempt EXCEPT ![c] = @ + 1]
    /\ UNCHANGED <<clock, phase, callVars, pending, ledger, billed>>
RetryForever(c) ==
    /\ phase[c] = "sending"
    /\ attempt' = [attempt EXCEPT ![c] = 1 - @]
    /\ UNCHANGED <<clock, phase, callVars, pending, ledger, billed>>

\* The request never left, or Anthropic answered 429 or >= 500: try once more.
RetryUnbilled(c) ==
    /\ phase[c] = "sending" /\ attempt[c] = 0
    /\ attempt' = [attempt EXCEPT ![c] = 1]
    /\ UNCHANGED <<clock, phase, callVars, pending, ledger, billed>>

\* The same on the second attempt, or any other HTTP error: free.
FailUnbilled(c) ==
    /\ phase[c] = "sending"
    /\ Settle(c, "error", 0, "failed")
    /\ UNCHANGED billed

\* A timeout, a read error or an unreadable answer after the request may have
\* been sent: never retried, booked at the worst case.
FailMaybeBilled(c) ==
    /\ phase[c] = "sending"
    /\ \E b \in Bills(c) \cup {0} : billed' = [billed EXCEPT ![c] = @ + b]
    /\ Settle(c, "error", WorstOf(c), "failed")

\* Mutant of Cancel: a cancelled call is booked as free.
CancelFree(c) ==
    /\ phase[c] = "sending"
    /\ \E b \in Bills(c) \cup {0} : billed' = [billed EXCEPT ![c] = @ + b]
    /\ Settle(c, "error", 0, "failed")

\* The client leaves during the call; booked at the worst case.
Cancel(c) ==
    /\ phase[c] = "sending"
    /\ \E b \in Bills(c) \cup {0} : billed' = [billed EXCEPT ![c] = @ + b]
    /\ Settle(c, "error", WorstOf(c), "failed")

\* 200 with a usage block: booked at what it cost, which may exceed the
\* reservation because the answer is not capped at RESERVE_ANSWER_TOKENS.
Answer(c) ==
    /\ phase[c] = "sending"
    /\ \E b \in Bills(c) :
          /\ billed' = [billed EXCEPT ![c] = @ + b]
          /\ Settle(c, "ok", b, "answered")

-----------------------------------------------------------------------------
\* The router is restarted: every reservation, kept in memory only, is gone, and
\* the calls that held one end without a row.  Anthropic may have charged those
\* in flight.
InFlight == {c \in Calls : phase[c] = "sending"}
Restart ==
    /\ phase' = [c \in Calls |-> IF c \in pending THEN "lost" ELSE phase[c]]
    /\ pending' = {}
    /\ \E charged \in SUBSET InFlight :
          billed' = [c \in Calls |-> IF c \in charged THEN billed[c] + WorstOf(c) ELSE billed[c]]
    /\ UNCHANGED <<clock, callVars, attempt, ledger>>

Tick ==
    /\ clock < MaxClock
    /\ clock' = clock + 1
    /\ UNCHANGED <<phase, callVars, attempt, pending, ledger, billed>>

Handle(c, a, b) ==
    \/ RefuseUnfit(c, a, b) \/ RefuseDuplicate(c, a, b)
    \/ RefuseBudget(c, a, b) \/ Reserve(c, a, b)

PostReturns(c) ==
    RetryUnbilled(c) \/ FailUnbilled(c) \/ FailMaybeBilled(c) \/ Cancel(c) \/ Answer(c)

Next ==
    \/ \E c \in Calls, a \in Aliases, b \in Briefs : Handle(c, a, b)
    \/ \E c \in Calls : PostReturns(c)
    \/ Restart
    \/ Tick

Spec == Init /\ [][Next]_vars

\* Every attempt ends: httpx timeouts and the outer wait_for bound it.
FairSpec == Spec /\ \A c \in Calls : WF_vars(PostReturns(c))

-----------------------------------------------------------------------------
(* Properties.                                                             *)

\* Money that Anthropic has charged is either reserved or in the ledger, never
\* in neither and never counted twice, until a restart drops the reservations
\* (Ledger.settle does both under one lock).
SpendInOnePlace ==
    \A c \in Calls : billed[c] > 0 /\ phase[c] # "lost" => (c \in pending <=> ~Recorded(c))

\* A ledger row covers what Anthropic charged for its call, up to the length of
\* one uncapped answer: no failure that may have been billed is booked as free,
\* and no call that may have been billed is sent again (_post, handle).
BookedCoversBill ==
    \A c \in Calls : Recorded(c) => ledger[c].cost + Extra >= billed[c]

\* Every charge is on the books, once and at what it was (Ledger, handle).
SpendOnTheBooks == SpendInOnePlace /\ BookedCoversBill

\* Spend and reservations of every day and every month stay within the cap,
\* except for what answers longer than their reservation cost on top, however
\* many calls were in flight when the budget was checked (reserve, check_budget).
Overlong(S) == Cardinality({c \in S : ledger[c].cost > WorstOf(c)})
Within(S, cap) == CostOf({c \in S : Recorded(c)}) + HeldFor(S \cap pending)
                      <= cap + Extra * Overlong(S)
SpendWithinCaps ==
    \A t \in 0..MaxClock :
        /\ Within({c \in Calls : Day(arrived[c]) = Day(t)}, DayCap)
        /\ Within({c \in Calls : Month(arrived[c]) = Month(t)}, MonthCap)

\* The calls of one day, answered, failed or in flight, stay within the limits
\* per alias and for the two cheap aliases together (check_budget).
CountOf(A, t) ==
    Cardinality({c \in Calls : /\ IsCallRow(c) \/ c \in pending
                               /\ alias[c] \in A
                               /\ Day(arrived[c]) = Day(t)})
CallLimitsHold ==
    \A t \in 0..MaxClock :
        /\ HardLimit # NoLimit   => CountOf({"hard"}, t) <= HardLimit
        /\ SharedLimit # NoLimit => CountOf({"ask", "auto"}, t) <= SharedLimit
        /\ AutoLimit # NoLimit   => CountOf({"auto"}, t) <= AutoLimit

\* An identical brief is not paid for again within the window that starts when
\* the first call ended, not when it arrived (_duplicate_age).
NoPromptResend ==
    \A c, d \in Calls :
        /\ Spent(c) /\ brief[c] = brief[d]
        /\ d \in pending \/ IsCallRow(d)
        /\ arrived[d] > ledger[c].done
        => arrived[d] > ledger[c].done + DedupeS

\* Calls are refused by what has been called before, in flight or ended
\* (check_budget, _duplicate_age).
CallsAreRationed == CallLimitsHold /\ NoPromptResend

\* A reservation ends with the call, unless the ledger could not be written
\* (every path of handle() after reserve() settles, and _post retries once).
EveryReservationEnds ==
    \A c \in Calls : c \in pending ~> c \notin pending \/ phase[c] = "unrecorded"
=============================================================================
