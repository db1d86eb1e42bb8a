--------------------------- MODULE BudgetLimiter ---------------------------
(***************************************************************************)
(* The spending limiter of internal/budget for one subject, a virtual key  *)
(* or a user: the figure it keeps of what the subject spent this period,   *)
(* the sums over request_logs that replace it, and the charges that land   *)
(* on it in between.  Subjects share nothing.                              *)
(*                                                                         *)
(* Everything under e.mu is one step.  A sum of the store runs outside it, *)
(* in the request that first sees the subject (admit, Spent) or in a       *)
(* background reload, and is three steps: it begins, the store takes its   *)
(* snapshot, it lands.  Requests, their rows and their charges interleave  *)
(* with all of them.                                                       *)
(*                                                                         *)
(* Every row costs one dollar, and the figure is kept as how often it      *)
(* holds each row, which tells a charge counted twice from one missed.     *)
(* Instants are kept as ages, cut at the interval they are compared with.  *)
(***************************************************************************)
EXTENDS Integers, FiniteSets, Functions

CONSTANTS
    Rows,            \* priced requests of the subject, one row each
    Askers,          \* goroutines in admit or Spent
    NumReloads,      \* reload goroutines the model has room for
    Budgets,         \* the budgets the subject's key or user may be given
    LastDay,         \* the calendar ends here; the month begins on day 1
    RefreshInterval, \* refreshInterval (1m)
    RetryInterval,   \* retryInterval (5s)
    SourceTimeout,   \* sourceTimeout (3s)
    MaxOverlapped    \* maxOverlappedReloads (3)

Days    == 1..LastDay
Reloads == 1..NumReloads
Budget  == [usd : Nat, period : {"day", "month"}]
NoBudget == [usd |-> 0, period |-> "day"]

ASSUME BudgetAssumption ==
    /\ IsFiniteSet(Rows) /\ Budgets \subseteq Budget
    /\ NumReloads \in Nat /\ LastDay \in Nat \ {0}
    /\ RefreshInterval \in Nat /\ RetryInterval \in Nat /\ SourceTimeout \in Nat
    /\ MaxOverlapped \in Nat

(* Two reads in a row are over before a figure is stale again.             *)
ASSUME TimeoutAssumption == 2 * SourceTimeout < RefreshInterval

VARIABLES
    day,       \* the wall clock's calendar day
    rows,      \* per row, its arrival, its created_at and how far it got
    entry,     \* the subject's entry
    asks,      \* per asker, the first-sight read it is in
    reloads,   \* per reload goroutine, the read it is in
    accepted   \* history: the charges the figure took since it was started

vars == <<day, rows, entry, asks, reloads, accepted>>

Never == -1
Tally == [Rows -> Nat]

Row == [stage : {"none", "inserted", "priced", "charged"},
        at : Days, created : Days]

(* age is the time since loadedAt, failed the time since failedAt.  An     *)
(* entry that was never used starts in no period.                          *)
Entry ==
    [ start : 0..LastDay, judged : Budget, spent : Tally,
      loaded : BOOLEAN, age : 0..RefreshInterval, failed : Never..RetryInterval,
      reloading : BOOLEAN, overlapped : 0..MaxOverlapped,
      chargeSeq : Nat, chargedSince : Tally,
      warned : BOOLEAN, exceeded : BOOLEAN ]

FirstSight ==
    [ reading : BOOLEAN, judges : BOOLEAN, budget : Budget,
      start : Days, age : 0..SourceTimeout, summed : BOOLEAN, sum : SUBSET Rows ]

Reload ==
    [ running : BOOLEAN, start : Days, seq : Nat,
      age : 0..SourceTimeout, summed : BOOLEAN, sum : SUBSET Rows ]

NoCharge == [r \in Rows |-> 0]
NoAsk ==
    [ reading |-> FALSE, judges |-> FALSE, budget |-> NoBudget,
      start |-> 1, age |-> 0, summed |-> FALSE, sum |-> {} ]
NoReload ==
    [ running |-> FALSE, start |-> 1, seq |-> 0,
      age |-> 0, summed |-> FALSE, sum |-> {} ]

-----------------------------------------------------------------------------
(***************************************************************************)
(* Figures.                                                                *)
(***************************************************************************)
PeriodStart(period, d) == IF period = "month" THEN 1 ELSE d

(* The rows SUM(cost_usd) adds up: priced, and created in the period. *)
Spend(start) ==
    {r \in Rows : rows[r].stage \in {"priced", "charged"} /\ rows[r].created >= start}

Once(sum) == [r \in Rows |-> IF r \in sum THEN 1 ELSE 0]
Plus(f, g) == [r \in Rows |-> f[r] + g[r]]

(* Fault: the flag of the old period's reload survives the roll. *)
RolledReloading(e, start) ==
    IF e.start = start THEN e
    ELSE [e EXCEPT !.start = start, !.spent = NoCharge, !.loaded = FALSE,
                   !.age = 0, !.failed = Never, !.overlapped = 0,
                   !.warned = FALSE, !.exceeded = FALSE]

Rolled(e, start) ==
    IF e.start = start THEN e
    ELSE [e EXCEPT !.start = start, !.spent = NoCharge, !.loaded = FALSE,
                   !.age = 0, !.failed = Never, !.reloading = FALSE,
                   !.overlapped = 0, !.warned = FALSE, !.exceeded = FALSE]

(* The spend against the budget.  A warning is due at four fifths of it.   *)
Reached(spent, budget) == SumFunction(spent) >= budget.usd
Near(spent, budget)    == 5 * SumFunction(spent) >= 4 * budget.usd

(* admit, past refresh: an edited budget is judged afresh, and a flag goes *)
(* up with the event that reports it.                                      *)
Judged(e, budget) ==
    LET afresh == e.judged # budget
        over   == Reached(e.spent, budget)
    IN  [e EXCEPT !.judged = budget,
                  !.exceeded = (@ /\ ~afresh) \/ over,
                  !.warned = (@ /\ ~afresh) \/ (~over /\ Near(e.spent, budget))]

(* What the answer of Spent or admit leaves. *)
Answered(e, ask) == IF ask.judges THEN Judged(e, ask.budget) ELSE e

-----------------------------------------------------------------------------
Init ==
    /\ day = 1
    /\ rows = [r \in Rows |-> [stage |-> "none", at |-> 1, created |-> 1]]
    /\ entry = [ start |-> 0, judged |-> NoBudget, spent |-> NoCharge,
                 loaded |-> FALSE, age |-> 0, failed |-> Never,
                 reloading |-> FALSE, overlapped |-> 0, chargeSeq |-> 0,
                 chargedSince |-> NoCharge, warned |-> FALSE, exceeded |-> FALSE ]
    /\ asks = [a \in Askers |-> NoAsk]
    /\ reloads = [g \in Reloads |-> NoReload]
    /\ accepted = {}

(***************************************************************************)
(* The request log and the charges.  The row is inserted when the request  *)
(* arrives, or just past midnight if it arrived just before; its price     *)
(* lands at the end, and the charge follows the price.                     *)
(***************************************************************************)
Insert(r, at) ==
    /\ rows[r].stage = "none"
    /\ at \in {day, day - 1} \cap Days
    /\ rows' = [rows EXCEPT ![r] = [stage |-> "inserted", at |-> at, created |-> day]]
    /\ UNCHANGED <<day, entry, asks, reloads, accepted>>

Price(r) ==
    /\ rows[r].stage = "inserted"
    /\ rows' = [rows EXCEPT ![r].stage = "priced"]
    /\ UNCHANGED <<day, entry, asks, reloads, accepted>>

(* A charge for a figure not yet summed, or for the period before, is      *)
(* dropped.                                                                *)
Charge(r) ==
    /\ rows[r].stage = "priced"
    /\ rows' = [rows EXCEPT ![r].stage = "charged"]
    /\ IF entry.loaded /\ rows[r].at >= entry.start
       THEN /\ entry' = [entry EXCEPT !.spent[r] = @ + 1,
                                     !.chargeSeq = @ + 1,
                                     !.chargedSince[r] = IF entry.reloading THEN @ + 1 ELSE @]
            /\ accepted' = accepted \cup {r}
       ELSE UNCHANGED <<entry, accepted>>
    /\ UNCHANGED <<day, asks, reloads>>

-----------------------------------------------------------------------------
(***************************************************************************)
(* refresh, for the asker a.  It answers from the figure it has, starting  *)
(* the one background reload if that is stale; or goes to sum a figure     *)
(* never summed; or stays unknown for a while after a sum that failed.     *)
(***************************************************************************)
AnswersNow(a, ask, e) ==
    /\ e.loaded /\ (e.age < RefreshInterval \/ e.reloading)
    /\ entry' = Answered(e, ask)
    /\ asks' = [asks EXCEPT ![a] = NoAsk]
    /\ UNCHANGED reloads

StartsReload(a, ask, e) ==
    /\ e.loaded /\ e.age >= RefreshInterval /\ ~e.reloading
    /\ \E g \in Reloads :
          /\ ~reloads[g].running /\ \A h \in 1..(g - 1) : reloads[h].running
          /\ reloads' = [reloads EXCEPT ![g] =
                 [NoReload EXCEPT !.running = TRUE, !.start = e.start, !.seq = e.chargeSeq]]
    /\ entry' = Answered([e EXCEPT !.reloading = TRUE, !.chargedSince = NoCharge], ask)
    /\ asks' = [asks EXCEPT ![a] = NoAsk]

StaysUnknown(a, e) ==
    /\ ~e.loaded /\ e.failed \in 0..(RetryInterval - 1)
    /\ entry' = e
    /\ asks' = [asks EXCEPT ![a] = NoAsk]
    /\ UNCHANGED reloads

BeginsSum(a, ask, e) ==
    /\ ~e.loaded /\ e.failed \notin 0..(RetryInterval - 1)
    /\ entry' = e
    /\ asks' = [asks EXCEPT ![a] =
           [NoAsk EXCEPT !.reading = TRUE, !.judges = ask.judges,
                         !.budget = ask.budget, !.start = e.start]]
    /\ UNCHANGED reloads

Refresh(a, ask) ==
    LET start == PeriodStart(ask.budget.period, day)
        e     == Rolled(entry, start)
    IN  /\ \/ AnswersNow(a, ask, e) \/ StartsReload(a, ask, e)
           \/ StaysUnknown(a, e) \/ BeginsSum(a, ask, e)
        /\ accepted' = IF entry.start = start THEN accepted ELSE {}
        /\ UNCHANGED <<day, rows>>

(* admit, which judges, and Spent, which does not. *)
Asks(a, budget, judges) ==
    /\ ~asks[a].reading
    /\ Refresh(a, [budget |-> budget, judges |-> judges])

(* The store takes the snapshot of a sum in flight. *)
AskSummed(a) ==
    /\ asks[a].reading /\ ~asks[a].summed
    /\ asks' = [asks EXCEPT ![a].summed = TRUE, ![a].sum = Spend(asks[a].start)]
    /\ UNCHANGED <<day, rows, entry, reloads, accepted>>

ReloadSummed(g) ==
    /\ reloads[g].running /\ ~reloads[g].summed
    /\ reloads' = [reloads EXCEPT ![g].summed = TRUE, ![g].sum = Spend(reloads[g].start)]
    /\ UNCHANGED <<day, rows, entry, asks, accepted>>

(***************************************************************************)
(* A first-sight read lands.  The lock was let go: the period may have     *)
(* rolled, and then the asker begins again; another asker may have summed  *)
(* it.  A figure summed here is as old as the question.                    *)
(***************************************************************************)
(* Fault: the read is repeated for the period it was begun in. *)
ReadsSamePeriod(a) ==
    /\ asks[a].reading /\ entry.start # asks[a].start
    /\ asks' = [asks EXCEPT ![a].age = 0, ![a].summed = FALSE, ![a].sum = {}]
    /\ UNCHANGED <<day, rows, entry, reloads, accepted>>

AskRolled(a) ==
    /\ asks[a].reading /\ entry.start # asks[a].start
    /\ Refresh(a, asks[a])

(* Fault: the read is not checked against a figure summed meanwhile. *)
LandsOverFigure(a, ok) ==
    LET ask == asks[a]
        sum == Once(ask.sum)
    IN  /\ ask.reading /\ entry.start = ask.start
        /\ ok => ask.summed
        /\ entry' = IF ~ok THEN [entry EXCEPT !.failed = 0]
                    ELSE Answered([entry EXCEPT !.spent = sum, !.loaded = TRUE,
                                                !.age = ask.age], ask)
        /\ asks' = [asks EXCEPT ![a] = NoAsk]
        /\ UNCHANGED <<day, rows, reloads, accepted>>

AskLands(a, ok) ==
    LET ask == asks[a]
        sum == Once(ask.sum)
        installed == [entry EXCEPT !.spent = sum, !.loaded = TRUE, !.age = ask.age,
                                   !.judged = ask.budget,
                                   !.warned = Near(sum, ask.budget),
                                   !.exceeded = Reached(sum, ask.budget)]
    IN  /\ ask.reading /\ entry.start = ask.start
        /\ ok => ask.summed
        /\ entry' = IF entry.loaded THEN Answered(entry, ask)
                    ELSE IF ok THEN Answered(installed, ask)
                    ELSE [entry EXCEPT !.failed = IF ask.age < RetryInterval
                                                  THEN ask.age ELSE RetryInterval]
        /\ asks' = [asks EXCEPT ![a] = NoAsk]
        /\ UNCHANGED <<day, rows, reloads, accepted>>

-----------------------------------------------------------------------------
(***************************************************************************)
(* A reload lands.  It dates the figure, and so marks it as summed, even   *)
(* where it failed.                                                        *)
(***************************************************************************)
Settled(e) == [e EXCEPT !.reloading = FALSE, !.overlapped = 0, !.chargedSince = NoCharge]

ReloadRolled(g) ==
    /\ reloads[g].running /\ entry.start # reloads[g].start
    /\ entry' = Settled(entry)
    /\ reloads' = [reloads EXCEPT ![g] = NoReload]
    /\ UNCHANGED <<day, rows, asks, accepted>>

(* Fault: a failed read returns before the flag is taken down. *)
FailsReloading(g) ==
    /\ reloads[g].running /\ entry.start = reloads[g].start
    /\ reloads' = [reloads EXCEPT ![g] = NoReload]
    /\ UNCHANGED <<day, rows, entry, asks, accepted>>

ReloadFails(g) ==
    /\ reloads[g].running /\ entry.start = reloads[g].start
    /\ entry' = [Settled(entry) EXCEPT !.loaded = TRUE, !.age = 0]
    /\ reloads' = [reloads EXCEPT ![g] = NoReload]
    /\ UNCHANGED <<day, rows, asks, accepted>>

Overlaps(g) == entry.chargeSeq # reloads[g].seq /\ entry.overlapped < MaxOverlapped

(* Charges overlapped the sum: it is run once more. *)
ReloadAgain(g) ==
    /\ reloads[g].running /\ reloads[g].summed
    /\ entry.start = reloads[g].start /\ Overlaps(g)
    /\ entry' = [entry EXCEPT !.overlapped = @ + 1, !.chargedSince = NoCharge]
    /\ reloads' = [reloads EXCEPT ![g] =
           [NoReload EXCEPT !.running = TRUE, !.start = entry.start, !.seq = entry.chargeSeq]]
    /\ UNCHANGED <<day, rows, asks, accepted>>

ReloadInstalls(g) ==
    /\ reloads[g].running /\ reloads[g].summed
    /\ entry.start = reloads[g].start /\ ~Overlaps(g)
    /\ entry' = [Settled(entry) EXCEPT !.loaded = TRUE, !.age = 0,
                    !.spent = IF entry.chargeSeq = reloads[g].seq THEN Once(reloads[g].sum)
                              ELSE Plus(Once(reloads[g].sum), entry.chargedSince)]
    /\ reloads' = [reloads EXCEPT ![g] = NoReload]
    /\ UNCHANGED <<day, rows, asks, accepted>>

-----------------------------------------------------------------------------
CountUpTo(n, bound) == IF n < bound THEN n + 1 ELSE bound

(* One unit of time.  No read outlives its timeout. *)
Tick ==
    /\ \A a \in Askers : asks[a].reading => asks[a].age < SourceTimeout
    /\ \A g \in Reloads : reloads[g].running => reloads[g].age < SourceTimeout
    /\ entry' = [entry EXCEPT !.age = IF entry.loaded THEN CountUpTo(@, RefreshInterval) ELSE @,
                              !.failed = IF @ = Never THEN @ ELSE CountUpTo(@, RetryInterval)]
    /\ asks' = [a \in Askers |-> IF asks[a].reading
                                 THEN [asks[a] EXCEPT !.age = @ + 1] ELSE asks[a]]
    /\ reloads' = [g \in Reloads |-> IF reloads[g].running
                                     THEN [reloads[g] EXCEPT !.age = @ + 1] ELSE reloads[g]]
    /\ UNCHANGED <<day, rows, accepted>>

Midnight ==
    /\ day < LastDay
    /\ day' = day + 1
    /\ UNCHANGED <<rows, entry, asks, reloads, accepted>>

Next ==
    \/ \E r \in Rows : (\E at \in Days : Insert(r, at)) \/ Price(r) \/ Charge(r)
    \/ \E a \in Askers :
          \/ \E budget \in Budgets, judges \in BOOLEAN : Asks(a, budget, judges)
          \/ AskSummed(a) \/ AskRolled(a)
          \/ \E ok \in BOOLEAN : AskLands(a, ok)
    \/ \E g \in Reloads :
          \/ ReloadSummed(g) \/ ReloadRolled(g) \/ ReloadFails(g)
          \/ ReloadAgain(g) \/ ReloadInstalls(g)
    \/ Tick \/ Midnight

(***************************************************************************)
(* Time passes, requests keep asking, a read is answered or runs into its  *)
(* timeout, and the store does not fail every reload for ever.             *)
(***************************************************************************)
Fairness ==
    /\ WF_vars(Tick)
    /\ WF_vars(\E a \in Askers, budget \in Budgets : Asks(a, budget, TRUE))
    /\ \A a \in Askers : WF_vars(AskRolled(a) \/ \E ok \in BOOLEAN : AskLands(a, ok))
    /\ WF_vars(\E g \in Reloads : ReloadRolled(g) \/ ReloadFails(g))
    /\ SF_vars(\E g \in Reloads : ReloadSummed(g))
    /\ SF_vars(\E g \in Reloads : ReloadAgain(g) \/ ReloadInstalls(g))

Spec == Init /\ [][Next]_vars
FairSpec == Spec /\ Fairness

-----------------------------------------------------------------------------
(***************************************************************************)
(* Properties.                                                             *)
(***************************************************************************)
TypeOK ==
    /\ day \in Days
    /\ rows \in [Rows -> Row]
    /\ entry \in Entry
    /\ asks \in [Askers -> FirstSight]
    /\ reloads \in [Reloads -> Reload]
    /\ accepted \subseteq Rows

(* The figure never misses a charge it took: however charges, snapshots,   *)
(* re-runs, failed reads and landings interleave, a charge counted since   *)
(* the period was started is still in the figure, once or twice (reload,   *)
(* charge).                                                                *)
NeverMisses == \A r \in accepted : entry.loaded /\ entry.spent[r] >= 1

(* A stale figure is replaced by one reload at a time, and a figure that   *)
(* says a reload is in flight is waiting for a real one, so it can never   *)
(* be left un-refreshed (refresh, reload).                                 *)
Current == {g \in Reloads : reloads[g].running /\ reloads[g].start = entry.start}
OneReload ==
    /\ Cardinality(Current) <= 1
    /\ entry.reloading => Current # {}

(* The error is taken away: once no more rows come, the figure that is     *)
(* served becomes the exact sum of the store, and stays it (reload).       *)
Exact == entry.loaded => entry.spent = Once(Spend(entry.start))
FigureSettles == <>[]Exact

(* Every request in the limiter is answered: the read that is repeated     *)
(* because the period rolled meanwhile is not repeated for ever (refresh). *)
EveryAskAnswered == \A a \in Askers : asks[a].reading ~> ~asks[a].reading
=============================================================================
