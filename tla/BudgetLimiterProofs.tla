------------------------ MODULE BudgetLimiterProofs ------------------------
(***************************************************************************)
(* The spending limiter for any number of rows, askers, reloads and days:  *)
(* its figure misses no charge it took, and one reload at a time replaces  *)
(* it, as long as the entry is not rolled back to an earlier period; with  *)
(* edits that keep the period of the budget it never is.                   *)
(***************************************************************************)
EXTENDS BudgetLimiter, FiniteSetTheorems, TLAPS

(* The entry is rolled to later periods only.  A request that carries the  *)
(* month of a budget edited to a day, and comes after the entry was rolled *)
(* to the day, would roll it back.                                         *)
Forward == entry.start <= entry'.start

(* Edits change the amount only. *)
OnePeriod == \A b, c \in Budgets : b.period = c.period

(* A row is created on the day its request arrived, or later. *)
RowsOK == \A r \in Rows : rows[r].created >= rows[r].at

(* A charge the figure took is in it, and its row is one the store would   *)
(* sum for the figure's period.                                            *)
AcceptedOK ==
    \A r \in accepted :
      /\ entry.loaded /\ entry.spent[r] >= 1
      /\ rows[r].stage = "charged" /\ rows[r].created >= entry.start

(* Where periods only move forward, a read begun for another one was begun *)
(* for an earlier one.                                                     *)
PeriodsOK ==
    /\ \A a \in Askers : asks[a].reading => asks[a].start <= entry.start
    /\ \A g \in Reloads : reloads[g].running => reloads[g].start <= entry.start

(* A reload for the figure's period: the figure waits for it, and what its *)
(* sum misses was counted since it began.                                  *)
ReloadOK(g) ==
    /\ entry.loaded /\ entry.reloading /\ reloads[g].seq <= entry.chargeSeq
    /\ entry.chargeSeq = reloads[g].seq => \A r \in Rows : entry.chargedSince[r] = 0
    /\ reloads[g].summed => \A r \in accepted : r \in reloads[g].sum \/ entry.chargedSince[r] >= 1

(* A reload the period left behind is older than all that was read since,  *)
(* so that the figure is not stale again before it lands.                  *)
LeftBehind(g) ==
    /\ entry.loaded => entry.age <= reloads[g].age
    /\ \A a \in Askers :
         asks[a].reading /\ asks[a].start = entry.start => asks[a].age <= reloads[g].age

ReloadsOK ==
    /\ \A g \in Reloads : reloads[g].running =>
         IF reloads[g].start = entry.start THEN ReloadOK(g) ELSE LeftBehind(g)
    /\ \A g, h \in Reloads : reloads[g].running /\ reloads[h].running => g = h
    /\ entry.reloading => \E g \in Reloads : reloads[g].running /\ reloads[g].start = entry.start

(* The inductive invariant. *)
IInv == TypeOK /\ RowsOK /\ AcceptedOK /\ PeriodsOK /\ ReloadsOK
-----------------------------------------------------------------------------
(***************************************************************************)
(* What the operators on the entry leave of it.                            *)
(***************************************************************************)
LEMMA Bounds ==
    /\ NumReloads \in Nat /\ LastDay \in Nat \ {0} /\ 1 \in Days /\ MaxOverlapped \in Nat
    /\ RefreshInterval \in Nat /\ RetryInterval \in Nat /\ SourceTimeout \in Nat
    /\ SourceTimeout < RefreshInterval /\ Budgets \subseteq Budget /\ NoBudget \in Budget
  BY BudgetAssumption, TimeoutAssumption DEF Days, Budget, NoBudget

LEMMA Tallies ==
    /\ NoCharge \in Tally
    /\ \A sum : Once(sum) \in Tally
    /\ \A f, g \in Tally : Plus(f, g) \in Tally
  BY DEF Tally, NoCharge, Once, Plus

LEMMA NoReads == NoAsk \in FirstSight /\ ~NoAsk.reading /\ NoReload \in Reload /\ ~NoReload.running
  <1>1. NoAsk \in FirstSight /\ ~NoAsk.reading
    BY Bounds DEF NoAsk, FirstSight
  <1>2. NoReload \in Reload /\ ~NoReload.running
    BY Bounds DEF NoReload, Reload
  <1>. QED BY <1>1, <1>2

(* The same but for the budget it was judged by and the events reported. *)
SameFigure(e, f) ==
    /\ f.start = e.start /\ f.spent = e.spent /\ f.loaded = e.loaded /\ f.age = e.age
    /\ f.failed = e.failed /\ f.reloading = e.reloading /\ f.overlapped = e.overlapped
    /\ f.chargeSeq = e.chargeSeq /\ f.chargedSince = e.chargedSince

LEMMA Judges ==
    ASSUME NEW e \in Entry, NEW b \in Budget
    PROVE  Judged(e, b) \in Entry /\ SameFigure(e, Judged(e, b))
  <1>. DEFINE x == (e.exceeded /\ ~(e.judged # b)) \/ Reached(e.spent, b)
              w == (e.warned /\ ~(e.judged # b)) \/ (~Reached(e.spent, b) /\ Near(e.spent, b))
  <1>1. x \in BOOLEAN /\ w \in BOOLEAN
    BY Zenon
  <1>2. Judged(e, b) = [e EXCEPT !.judged = b, !.exceeded = x, !.warned = w]
    BY Zenon DEF Judged
  <1>. HIDE DEF x, w
  <1>. QED BY <1>1, <1>2 DEF Entry, SameFigure

LEMMA AnsweredIs ==
    ASSUME NEW e \in Entry, NEW ask, ask.budget \in Budget
    PROVE  Answered(e, ask) \in Entry /\ SameFigure(e, Answered(e, ask))
  BY Judges DEF Answered, SameFigure

LEMMA RolledIs ==
    ASSUME NEW e \in Entry, NEW s \in Days
    PROVE  /\ Rolled(e, s) \in Entry /\ Rolled(e, s).start = s
           /\ Rolled(e, s).chargeSeq = e.chargeSeq
           /\ e.start = s => Rolled(e, s) = e
           /\ e.start # s => ~Rolled(e, s).loaded /\ ~Rolled(e, s).reloading
  <1>1. CASE e.start = s
    BY <1>1 DEF Rolled
  <1>2. CASE e.start # s
    <2>. DEFINE R(no, z, f, t) == [e EXCEPT !.start = s, !.spent = t, !.loaded = no,
                               !.age = z, !.failed = f, !.reloading = no,
                               !.overlapped = z, !.warned = no, !.exceeded = no]
                Q == R(FALSE, 0, Never, NoCharge)
    <2>1. ASSUME NEW no \in BOOLEAN, NEW z \in 0..0, NEW f \in Never..RetryInterval, NEW t \in Tally
          PROVE  R(no, z, f, t) \in Entry
      <3>1. s \in 0..LastDay /\ z \in 0..RefreshInterval /\ z \in 0..MaxOverlapped
        BY Bounds DEF Days
      <3>. QED BY <2>1, <3>1 DEF Entry
    <2>2. ASSUME NEW no \in BOOLEAN, NEW z \in 0..0, NEW f \in Never..RetryInterval, NEW t \in Tally
          PROVE  R(no, z, f, t).start = s /\ R(no, z, f, t).chargeSeq = e.chargeSeq
                 /\ R(no, z, f, t).loaded = no /\ R(no, z, f, t).reloading = no
      BY DEF Entry
    <2>3. Rolled(e, s) = Q
      BY <1>2 DEF Rolled
    <2>. HIDE DEF R
    <2>4. 0 \in 0..0 /\ FALSE \in BOOLEAN /\ Never \in Never..RetryInterval
      BY Bounds DEF Never
    <2>5. Q \in Entry
      BY <2>1, <2>4, Tallies
    <2>6. Q.start = s /\ Q.chargeSeq = e.chargeSeq /\ Q.loaded = FALSE /\ Q.reloading = FALSE
      BY <2>2, <2>4, Tallies
    <2>. QED BY <1>2, <2>3, <2>5, <2>6
  <1>. QED BY <1>1, <1>2

LEMMA SettledIs ==
    ASSUME NEW e \in Entry
    PROVE  /\ Settled(e) \in Entry /\ ~Settled(e).reloading
           /\ Settled(e).start = e.start /\ Settled(e).spent = e.spent
           /\ Settled(e).loaded = e.loaded /\ Settled(e).age = e.age
           /\ Settled(e).chargeSeq = e.chargeSeq
  <1>. DEFINE R(no, z, t) == [e EXCEPT !.reloading = no, !.overlapped = z, !.chargedSince = t]
  <1>1. ASSUME NEW no \in BOOLEAN, NEW z \in 0..MaxOverlapped, NEW t \in Tally
        PROVE  R(no, z, t) \in Entry
    BY <1>1, Bounds DEF Entry
  <1>2. ASSUME NEW no \in BOOLEAN, NEW z \in 0..MaxOverlapped, NEW t \in Tally
        PROVE  R(no, z, t).reloading = no /\ R(no, z, t).start = e.start /\ R(no, z, t).spent = e.spent
               /\ R(no, z, t).loaded = e.loaded /\ R(no, z, t).age = e.age /\ R(no, z, t).chargeSeq = e.chargeSeq
    BY DEF Entry
  <1>3. Settled(e) = R(FALSE, 0, NoCharge)
    BY DEF Settled
  <1>. HIDE DEF R
  <1>4. 0 \in 0..MaxOverlapped /\ FALSE \in BOOLEAN
    BY Bounds
  <1>5. R(FALSE, 0, NoCharge) \in Entry
    BY <1>1, <1>4, Tallies
  <1>6. /\ R(FALSE, 0, NoCharge).reloading = FALSE /\ R(FALSE, 0, NoCharge).start = e.start
        /\ R(FALSE, 0, NoCharge).spent = e.spent /\ R(FALSE, 0, NoCharge).loaded = e.loaded
        /\ R(FALSE, 0, NoCharge).age = e.age /\ R(FALSE, 0, NoCharge).chargeSeq = e.chargeSeq
    BY <1>2, <1>4, Tallies
  <1>. QED BY <1>3, <1>5, <1>6

(* The reads a request or a reload begins. *)
BegunReload(s, n) == [NoReload EXCEPT !.running = TRUE, !.start = s, !.seq = n]
BegunAsk(ask, s) ==
    [NoAsk EXCEPT !.reading = TRUE, !.judges = ask.judges, !.budget = ask.budget, !.start = s]

LEMMA BegunReloadIs ==
    ASSUME NEW s \in Days, NEW n \in Nat
    PROVE  /\ BegunReload(s, n) \in Reload
           /\ BegunReload(s, n).running /\ BegunReload(s, n).start = s /\ BegunReload(s, n).seq = n
           /\ ~BegunReload(s, n).summed /\ BegunReload(s, n).age = 0
  <1>. DEFINE R(run) == [NoReload EXCEPT !.running = run, !.start = s, !.seq = n]
  <1>1. ASSUME NEW run \in BOOLEAN
        PROVE  R(run) \in Reload /\ R(run).running = run /\ R(run).start = s /\ R(run).seq = n
               /\ R(run).summed = NoReload.summed /\ R(run).age = NoReload.age
    BY NoReads DEF Reload
  <1>2. ~NoReload.summed /\ NoReload.age = 0
    BY DEF NoReload
  <1>3. BegunReload(s, n) = R(TRUE)
    BY DEF BegunReload
  <1>. HIDE DEF R
  <1>4. TRUE \in BOOLEAN
    OBVIOUS
  <1>5. R(TRUE) \in Reload /\ R(TRUE).running = TRUE /\ R(TRUE).start = s /\ R(TRUE).seq = n
        /\ R(TRUE).summed = NoReload.summed /\ R(TRUE).age = NoReload.age
    BY <1>1, <1>4
  <1>. QED BY <1>2, <1>3, <1>5

LEMMA BegunAskIs ==
    ASSUME NEW ask, ask.judges \in BOOLEAN, ask.budget \in Budget, NEW s \in Days
    PROVE  /\ BegunAsk(ask, s) \in FirstSight
           /\ BegunAsk(ask, s).reading /\ BegunAsk(ask, s).start = s /\ BegunAsk(ask, s).age = 0
           /\ BegunAsk(ask, s).budget = ask.budget
  <1>. DEFINE R(r, j, b) == [NoAsk EXCEPT !.reading = r, !.judges = j, !.budget = b, !.start = s]
              Q == R(TRUE, ask.judges, ask.budget)
  <1>1. ASSUME NEW r \in BOOLEAN, NEW j \in BOOLEAN, NEW b \in Budget
        PROVE  R(r, j, b) \in FirstSight /\ R(r, j, b).reading = r /\ R(r, j, b).start = s
               /\ R(r, j, b).budget = b /\ R(r, j, b).age = NoAsk.age
    BY NoReads DEF FirstSight
  <1>2. NoAsk.age = 0
    BY DEF NoAsk
  <1>3. BegunAsk(ask, s) = Q
    BY DEF BegunAsk
  <1>. HIDE DEF R
  <1>4. TRUE \in BOOLEAN
    OBVIOUS
  <1>5. Q \in FirstSight /\ Q.reading = TRUE /\ Q.start = s /\ Q.budget = ask.budget /\ Q.age = NoAsk.age
    BY <1>1, <1>4
  <1>. QED BY <1>2, <1>3, <1>5

(* A reload is begun for the figure. *)
Waiting(e) == [e EXCEPT !.reloading = TRUE, !.chargedSince = NoCharge]

LEMMA WaitingIs ==
    ASSUME NEW e \in Entry
    PROVE  /\ Waiting(e) \in Entry /\ Waiting(e).reloading /\ Waiting(e).chargedSince = NoCharge
           /\ Waiting(e).start = e.start /\ Waiting(e).spent = e.spent /\ Waiting(e).loaded = e.loaded
           /\ Waiting(e).chargeSeq = e.chargeSeq
  <1>. DEFINE R(yes) == [e EXCEPT !.reloading = yes, !.chargedSince = NoCharge]
              Q == R(TRUE)
  <1>1. ASSUME NEW yes \in BOOLEAN
        PROVE  R(yes) \in Entry /\ R(yes).reloading = yes /\ R(yes).chargedSince = NoCharge
               /\ R(yes).start = e.start /\ R(yes).spent = e.spent /\ R(yes).loaded = e.loaded
               /\ R(yes).chargeSeq = e.chargeSeq
    BY Tallies DEF Entry
  <1>2. Waiting(e) = Q /\ TRUE \in BOOLEAN
    BY DEF Waiting
  <1>. HIDE DEF R
  <1>3. Q \in Entry /\ Q.reloading = TRUE /\ Q.chargedSince = NoCharge /\ Q.start = e.start
        /\ Q.spent = e.spent /\ Q.loaded = e.loaded /\ Q.chargeSeq = e.chargeSeq
    BY <1>1, <1>2
  <1>. QED BY <1>2, <1>3
-----------------------------------------------------------------------------
(***************************************************************************)
(* refresh.                                                                *)
(***************************************************************************)
(* A question, as the request or the repeated read asks it. *)
Question(ask) == ask.judges \in BOOLEAN /\ ask.budget \in Budget

LEMMA StartIsDay ==
    ASSUME NEW d \in Days, NEW b \in Budget
    PROVE  PeriodStart(b.period, d) \in Days
  BY Bounds DEF PeriodStart

(* All that the four ways through refresh leave. *)
Refreshed(a, ask, e) ==
    /\ entry' \in Entry /\ entry'.start = e.start /\ entry'.loaded = e.loaded
    /\ entry'.spent = e.spent /\ entry'.chargeSeq = e.chargeSeq
    /\ \/ /\ SameFigure(e, entry') /\ UNCHANGED reloads
          /\ \/ asks' = [asks EXCEPT ![a] = NoAsk]
             \/ ~e.loaded /\ asks' = [asks EXCEPT ![a] = BegunAsk(ask, e.start)]
       \/ /\ e.loaded /\ e.age >= RefreshInterval /\ ~e.reloading
          /\ entry'.reloading /\ entry'.chargedSince = NoCharge
          /\ asks' = [asks EXCEPT ![a] = NoAsk]
          /\ \E g \in Reloads : reloads' = [reloads EXCEPT ![g] = BegunReload(e.start, e.chargeSeq)]

LEMMA Refreshes ==
    ASSUME TypeOK, NEW a \in Askers, NEW ask, Question(ask), Refresh(a, ask)
    PROVE  /\ Rolled(entry, PeriodStart(ask.budget.period, day)) \in Entry
           /\ Refreshed(a, ask, Rolled(entry, PeriodStart(ask.budget.period, day)))
           /\ accepted' = IF entry.start = PeriodStart(ask.budget.period, day) THEN accepted ELSE {}
           /\ UNCHANGED <<day, rows>>
  <1>. DEFINE start == PeriodStart(ask.budget.period, day)
              e == Rolled(entry, start)
  <1>1. start \in Days /\ e \in Entry
    BY StartIsDay, RolledIs DEF TypeOK, Question
  <1>2. /\ AnswersNow(a, ask, e) \/ StartsReload(a, ask, e) \/ StaysUnknown(a, e) \/ BeginsSum(a, ask, e)
        /\ accepted' = (IF entry.start = start THEN accepted ELSE {}) /\ UNCHANGED <<day, rows>>
    BY DEF Refresh
  <1>. HIDE DEF e, start
  <1>3. CASE AnswersNow(a, ask, e)
    <2>1. entry' = Answered(e, ask) /\ asks' = [asks EXCEPT ![a] = NoAsk] /\ UNCHANGED reloads
      BY <1>3 DEF AnswersNow
    <2>2. entry' \in Entry /\ SameFigure(e, entry')
      BY <1>1, <2>1, AnsweredIs DEF Question
    <2>. QED BY <1>1, <1>2, <2>1, <2>2 DEF Refreshed, SameFigure, e, start
  <1>4. CASE StartsReload(a, ask, e)
    <2>1. e.loaded /\ e.age >= RefreshInterval /\ ~e.reloading /\ asks' = [asks EXCEPT ![a] = NoAsk]
          /\ entry' = Answered(Waiting(e), ask)
      BY <1>4 DEF StartsReload, Waiting
    <2>2. \E g \in Reloads : reloads' = [reloads EXCEPT ![g] = BegunReload(e.start, e.chargeSeq)]
      BY <1>4 DEF StartsReload, BegunReload
    <2>3. entry' \in Entry /\ SameFigure(Waiting(e), entry')
      BY <1>1, <2>1, WaitingIs, AnsweredIs DEF Question
    <2>4. /\ entry'.start = e.start /\ entry'.loaded = e.loaded
          /\ entry'.spent = e.spent /\ entry'.chargeSeq = e.chargeSeq
          /\ entry'.reloading /\ entry'.chargedSince = NoCharge
      BY <1>1, <2>3, WaitingIs DEF SameFigure
    <2>. QED BY <1>1, <1>2, <2>1, <2>2, <2>3, <2>4 DEF Refreshed, e, start
  <1>5. CASE StaysUnknown(a, e) \/ BeginsSum(a, ask, e)
    <2>1. entry' = e /\ UNCHANGED reloads
          /\ \/ asks' = [asks EXCEPT ![a] = NoAsk]
             \/ ~e.loaded /\ asks' = [asks EXCEPT ![a] = BegunAsk(ask, e.start)]
      BY <1>5 DEF StaysUnknown, BeginsSum, BegunAsk
    <2>. QED BY <1>1, <1>2, <2>1 DEF Refreshed, SameFigure, e, start
  <1>. QED BY <1>2, <1>3, <1>4, <1>5
-----------------------------------------------------------------------------
(***************************************************************************)
(* What the other steps leave of the entry and of the reads.               *)
(***************************************************************************)
LEMMA Dated ==
    ASSUME NEW e \in Entry
    PROVE  LET f == [e EXCEPT !.loaded = TRUE, !.age = 0]
           IN  /\ f \in Entry /\ f.start = e.start /\ f.spent = e.spent
               /\ f.loaded = TRUE /\ f.age = 0 /\ f.reloading = e.reloading
  <1>. DEFINE R(n) == [e EXCEPT !.loaded = TRUE, !.age = n]
  <1>1. ASSUME NEW n \in 0..RefreshInterval
        PROVE  R(n) \in Entry /\ R(n).start = e.start /\ R(n).spent = e.spent
               /\ R(n).loaded = TRUE /\ R(n).age = n /\ R(n).reloading = e.reloading
    BY DEF Entry
  <1>2. 0 \in 0..RefreshInterval
    BY Bounds
  <1>3. R(0) \in Entry /\ R(0).start = e.start /\ R(0).spent = e.spent
        /\ R(0).loaded = TRUE /\ R(0).age = 0 /\ R(0).reloading = e.reloading
    <2>. HIDE DEF R
    <2>. QED BY <1>1, <1>2
  <1>. QED BY <1>3, Zenon

LEMMA Fails ==
    ASSUME TypeOK, NEW g \in Reloads, ReloadFails(g)
    PROVE  /\ entry' \in Entry /\ entry'.start = entry.start /\ entry'.spent = entry.spent
           /\ entry'.loaded = TRUE /\ entry'.age = 0 /\ ~entry'.reloading
  <1>. DEFINE s == Settled(entry)
  <1>1. s \in Entry /\ ~s.reloading /\ s.start = entry.start /\ s.spent = entry.spent
    BY SettledIs DEF TypeOK
  <1>2. entry' = [s EXCEPT !.loaded = TRUE, !.age = 0]
    BY DEF ReloadFails
  <1>. HIDE DEF s
  <1>. QED BY <1>1, <1>2, Dated

LEMMA Installs ==
    ASSUME TypeOK, NEW g \in Reloads, ReloadInstalls(g)
    PROVE  /\ entry' \in Entry /\ entry'.start = entry.start
           /\ entry'.loaded = TRUE /\ entry'.age = 0 /\ ~entry'.reloading
           /\ entry'.spent = IF entry.chargeSeq = reloads[g].seq THEN Once(reloads[g].sum)
                             ELSE Plus(Once(reloads[g].sum), entry.chargedSince)
  <1>. DEFINE s == Settled(entry)
              q == [s EXCEPT !.loaded = TRUE, !.age = 0]
              sum == IF entry.chargeSeq = reloads[g].seq THEN Once(reloads[g].sum)
                     ELSE Plus(Once(reloads[g].sum), entry.chargedSince)
  <1>1. s \in Entry /\ ~s.reloading /\ s.start = entry.start
    BY SettledIs DEF TypeOK
  <1>2. sum \in Tally
    BY Tallies DEF TypeOK, Entry
  <1>3. entry' = [s EXCEPT !.loaded = TRUE, !.age = 0, !.spent = sum]
    BY Zenon DEF ReloadInstalls
  <1>. HIDE DEF s, sum
  <1>4. q \in Entry /\ q.start = s.start /\ q.loaded = TRUE /\ q.age = 0 /\ q.reloading = s.reloading
    BY <1>1, Dated
  <1>5. entry' = [q EXCEPT !.spent = sum]
    BY <1>3
  <1>. HIDE DEF q
  <1>6. entry' \in Entry /\ entry'.start = q.start /\ entry'.loaded = q.loaded /\ entry'.age = q.age
        /\ entry'.reloading = q.reloading /\ entry'.spent = sum
    BY <1>2, <1>4, <1>5 DEF Entry
  <1>. QED BY <1>1, <1>4, <1>6 DEF sum

LEMMA RunsAgain ==
    ASSUME TypeOK, NEW g \in Reloads, ReloadAgain(g)
    PROVE  /\ entry' \in Entry /\ entry'.start = entry.start /\ entry'.spent = entry.spent
           /\ entry'.loaded = entry.loaded /\ entry'.age = entry.age
           /\ entry'.reloading = entry.reloading
           /\ entry'.chargeSeq = entry.chargeSeq /\ entry'.chargedSince = NoCharge
  <1>1. entry \in Entry /\ entry.overlapped + 1 \in 0..MaxOverlapped
    BY Bounds DEF TypeOK, Entry, ReloadAgain, Overlaps
  <1>2. entry' = [entry EXCEPT !.overlapped = entry.overlapped + 1, !.chargedSince = NoCharge]
    BY DEF ReloadAgain
  <1>. QED BY <1>1, <1>2, Tallies DEF Entry

LEMMA Charges ==
    ASSUME TypeOK, NEW r \in Rows, Charge(r), entry.loaded, rows[r].at >= entry.start
    PROVE  /\ entry' \in Entry /\ entry'.start = entry.start /\ entry'.loaded = entry.loaded
           /\ entry'.age = entry.age /\ entry'.reloading = entry.reloading
           /\ entry'.chargeSeq = entry.chargeSeq + 1
           /\ entry'.spent[r] >= 1 /\ \A q \in Rows : entry'.spent[q] >= entry.spent[q]
           /\ \A q \in Rows : entry'.chargedSince[q] >= entry.chargedSince[q]
           /\ entry.reloading => entry'.chargedSince[r] >= 1
  <1>. DEFINE sp == [entry.spent EXCEPT ![r] = @ + 1]
              cs == [entry.chargedSince EXCEPT ![r] = IF entry.reloading THEN @ + 1 ELSE @]
  <1>1. entry \in Entry /\ entry.spent \in [Rows -> Nat] /\ entry.chargedSince \in [Rows -> Nat]
        /\ entry.chargeSeq \in Nat
    BY DEF TypeOK, Entry, Tally
  <1>2. entry' = [entry EXCEPT !.spent = sp, !.chargeSeq = entry.chargeSeq + 1, !.chargedSince = cs]
    BY <1>1 DEF Charge, Entry
  <1>3. sp \in Tally /\ sp[r] >= 1 /\ \A q \in Rows : sp[q] >= entry.spent[q]
    BY <1>1 DEF Tally
  <1>4. cs \in Tally /\ (entry.reloading => cs[r] >= 1) /\ \A q \in Rows : cs[q] >= entry.chargedSince[q]
    BY <1>1 DEF Tally
  <1>. HIDE DEF sp, cs
  <1>5. entry.chargeSeq + 1 \in Nat
    BY <1>1
  <1>6. entry' \in Entry /\ entry'.start = entry.start /\ entry'.loaded = entry.loaded
        /\ entry'.age = entry.age /\ entry'.reloading = entry.reloading
        /\ entry'.chargeSeq = entry.chargeSeq + 1 /\ entry'.spent = sp /\ entry'.chargedSince = cs
    BY <1>1, <1>2, <1>3, <1>4, <1>5 DEF Entry
  <1>. QED BY <1>3, <1>4, <1>6

(* A first-sight read lands on a figure summed meanwhile, brings its own,  *)
(* or fails.                                                               *)
LEMMA Lands ==
    ASSUME TypeOK, NEW a \in Askers, NEW ok \in BOOLEAN, AskLands(a, ok)
    PROVE  /\ entry' \in Entry /\ entry'.start = entry.start
           /\ entry'.reloading = entry.reloading /\ entry'.chargeSeq = entry.chargeSeq
           /\ entry'.chargedSince = entry.chargedSince
           /\ entry.loaded => SameFigure(entry, entry')
           /\ entry'.loaded /\ ~entry.loaded => entry'.age = asks[a].age
  <1>. DEFINE ask == asks[a]
              sum == Once(ask.sum)
              w == Near(sum, ask.budget)
              x == Reached(sum, ask.budget)
              F(n) == [entry EXCEPT !.failed = n]
              I(yes, n) == [entry EXCEPT !.spent = sum, !.loaded = yes, !.age = n,
                                   !.judged = ask.budget, !.warned = w, !.exceeded = x]
              n0 == IF ask.age < RetryInterval THEN ask.age ELSE RetryInterval
  <1>1. entry \in Entry /\ ask.budget \in Budget /\ ask.judges \in BOOLEAN /\ ask.age \in 0..SourceTimeout
        /\ sum \in Tally
    BY Tallies DEF TypeOK, FirstSight
  <1>2. w \in BOOLEAN /\ x \in BOOLEAN
    BY DEF Near, Reached
  <1>3. ask.age \in 0..RefreshInterval /\ n0 \in Never..RetryInterval
    BY <1>1, Bounds DEF Never
  <1>4. entry' = IF entry.loaded THEN Answered(entry, ask)
                 ELSE IF ok THEN Answered(I(TRUE, ask.age), ask) ELSE F(n0)
    BY Zenon DEF AskLands
  <1>. HIDE DEF w, x, sum, n0
  <1>5. ASSUME NEW n \in Never..RetryInterval
        PROVE  F(n) \in Entry /\ F(n).start = entry.start /\ F(n).loaded = entry.loaded
               /\ F(n).reloading = entry.reloading /\ F(n).chargeSeq = entry.chargeSeq
               /\ F(n).chargedSince = entry.chargedSince
    BY <1>1 DEF Entry
  <1>6. ASSUME NEW yes \in BOOLEAN, NEW n \in 0..RefreshInterval
        PROVE  I(yes, n) \in Entry /\ I(yes, n).start = entry.start
               /\ I(yes, n).reloading = entry.reloading /\ I(yes, n).chargeSeq = entry.chargeSeq
               /\ I(yes, n).chargedSince = entry.chargedSince /\ I(yes, n).age = n
    BY <1>1, <1>2 DEF Entry
  <1>. HIDE DEF F, I, ask
  <1>7. CASE entry.loaded
    BY <1>1, <1>4, <1>7, AnsweredIs DEF SameFigure
  <1>8. CASE ~entry.loaded /\ ok
    <2>. DEFINE q == I(TRUE, ask.age)
    <2>1. TRUE \in BOOLEAN
      OBVIOUS
    <2>2. q \in Entry /\ q.start = entry.start /\ q.reloading = entry.reloading
          /\ q.chargeSeq = entry.chargeSeq /\ q.chargedSince = entry.chargedSince /\ q.age = ask.age
      BY <1>3, <1>6, <2>1
    <2>3. entry' = Answered(q, ask)
      BY <1>4, <1>8
    <2>. HIDE DEF q
    <2>4. entry' \in Entry /\ SameFigure(q, entry')
      BY <1>1, <2>2, <2>3, AnsweredIs
    <2>. QED BY <1>8, <2>2, <2>4 DEF SameFigure, ask
  <1>9. CASE ~entry.loaded /\ ~ok
    <2>1. entry' = F(n0)
      BY <1>4, <1>9
    <2>. QED BY <1>3, <1>5, <1>9, <2>1
  <1>. QED BY <1>7, <1>8, <1>9

LEMMA Ticks ==
    ASSUME TypeOK, Tick
    PROVE  /\ entry' \in Entry /\ entry'.start = entry.start /\ entry'.spent = entry.spent
           /\ entry'.loaded = entry.loaded /\ entry'.reloading = entry.reloading
           /\ entry'.chargeSeq = entry.chargeSeq /\ entry'.chargedSince = entry.chargedSince
           /\ entry.loaded => entry'.age <= entry.age + 1
  <1>. DEFINE m == IF entry.loaded THEN CountUpTo(entry.age, RefreshInterval) ELSE entry.age
              n == IF entry.failed = Never THEN entry.failed ELSE CountUpTo(entry.failed, RetryInterval)
  <1>1. entry \in Entry /\ entry.age \in 0..RefreshInterval /\ entry.failed \in Never..RetryInterval
    BY DEF TypeOK, Entry
  <1>2. m \in 0..RefreshInterval /\ (entry.loaded => m <= entry.age + 1)
    BY <1>1, Bounds DEF CountUpTo
  <1>3. n \in Never..RetryInterval
    BY <1>1, Bounds DEF CountUpTo, Never
  <1>4. entry' = [entry EXCEPT !.age = m, !.failed = n]
    BY DEF Tick
  <1>. HIDE DEF m, n
  <1>. QED BY <1>1, <1>2, <1>3, <1>4 DEF Entry

(* Every read in flight grows older by one. *)
LEMMA TicksReads ==
    ASSUME TypeOK, Tick
    PROVE  /\ asks' \in [Askers -> FirstSight] /\ reloads' \in [Reloads -> Reload]
           /\ \A a \in Askers :
                /\ asks'[a].reading = asks[a].reading /\ asks'[a].start = asks[a].start
                /\ asks'[a].budget = asks[a].budget
                /\ asks[a].reading => asks'[a].age = asks[a].age + 1
           /\ \A g \in Reloads :
                /\ reloads'[g].running = reloads[g].running /\ reloads'[g].start = reloads[g].start
                /\ reloads'[g].seq = reloads[g].seq /\ reloads'[g].summed = reloads[g].summed
                /\ reloads'[g].sum = reloads[g].sum
                /\ reloads[g].running => reloads'[g].age = reloads[g].age + 1
  <1>1. ASSUME NEW a \in Askers
        PROVE  /\ asks'[a] \in FirstSight
               /\ asks'[a].reading = asks[a].reading /\ asks'[a].start = asks[a].start
               /\ asks'[a].budget = asks[a].budget
               /\ asks[a].reading => asks'[a].age = asks[a].age + 1
    <2>1. asks[a] \in FirstSight /\ asks[a].age \in 0..SourceTimeout
      BY DEF TypeOK, FirstSight
    <2>2. asks'[a] = IF asks[a].reading THEN [asks[a] EXCEPT !.age = @ + 1] ELSE asks[a]
      BY DEF Tick
    <2>3. asks[a].reading => asks[a].age + 1 \in 0..SourceTimeout
      BY <2>1, Bounds DEF Tick
    <2>. QED BY <2>1, <2>2, <2>3 DEF FirstSight
  <1>2. ASSUME NEW g \in Reloads
        PROVE  /\ reloads'[g] \in Reload
               /\ reloads'[g].running = reloads[g].running /\ reloads'[g].start = reloads[g].start
               /\ reloads'[g].seq = reloads[g].seq /\ reloads'[g].summed = reloads[g].summed
               /\ reloads'[g].sum = reloads[g].sum
               /\ reloads[g].running => reloads'[g].age = reloads[g].age + 1
    <2>1. reloads[g] \in Reload /\ reloads[g].age \in 0..SourceTimeout
      BY DEF TypeOK, Reload
    <2>2. reloads'[g] = IF reloads[g].running THEN [reloads[g] EXCEPT !.age = @ + 1] ELSE reloads[g]
      BY DEF Tick
    <2>3. reloads[g].running => reloads[g].age + 1 \in 0..SourceTimeout
      BY <2>1, Bounds DEF Tick
    <2>. QED BY <2>1, <2>2, <2>3 DEF Reload
  <1>3. asks' \in [Askers -> FirstSight]
    <2>1. asks' = [a \in Askers |-> asks'[a]]
      BY DEF Tick
    <2>. QED BY <1>1, <2>1
  <1>4. reloads' \in [Reloads -> Reload]
    <2>1. reloads' = [g \in Reloads |-> reloads'[g]]
      BY DEF Tick
    <2>. QED BY <1>2, <2>1
  <1>. QED BY <1>1, <1>2, <1>3, <1>4
-----------------------------------------------------------------------------
(***************************************************************************)
(* Types.                                                                  *)
(***************************************************************************)
LEMMA InitTyped ==
    ASSUME Init
    PROVE  TypeOK
  <1>. USE DEF Init
  <1>1. day \in Days /\ accepted \subseteq Rows
    BY Bounds
  <1>2. rows \in [Rows -> Row]
    BY Bounds DEF Row
  <1>3. entry \in Entry
    <2>1. 0 \in 0..LastDay /\ 0 \in 0..RefreshInterval /\ 0 \in 0..MaxOverlapped
          /\ Never \in Never..RetryInterval
      BY Bounds DEF Never
    <2>. QED BY <2>1, Bounds, Tallies DEF Entry
  <1>4. asks \in [Askers -> FirstSight] /\ reloads \in [Reloads -> Reload]
    BY NoReads
  <1>. QED BY <1>1, <1>2, <1>3, <1>4 DEF TypeOK

LEMMA RowStepTyped ==
    ASSUME TypeOK, NEW r \in Rows, (\E at \in Days : Insert(r, at)) \/ Price(r) \/ Charge(r)
    PROVE  TypeOK'
  <1>. USE DEF TypeOK
  <1>1. ASSUME NEW at \in Days, Insert(r, at)
        PROVE  TypeOK'
    BY <1>1 DEF Insert, Row
  <1>2. CASE Price(r)
    BY <1>2 DEF Price, Row
  <1>3. CASE Charge(r)
    <2>1. rows' \in [Rows -> Row]
      BY <1>3 DEF Charge, Row
    <2>2. entry' \in Entry /\ accepted' \subseteq Rows /\ UNCHANGED <<day, asks, reloads>>
      <3>1. CASE entry.loaded /\ rows[r].at >= entry.start
        BY <1>3, <3>1, Charges DEF Charge
      <3>2. CASE ~(entry.loaded /\ rows[r].at >= entry.start)
        BY <1>3, <3>2 DEF Charge
      <3>. QED BY <3>1, <3>2
    <2>. QED BY <2>1, <2>2
  <1>. QED BY <1>1, <1>2, <1>3

LEMMA RefreshTyped ==
    ASSUME TypeOK, NEW a \in Askers, NEW ask, Question(ask), Refresh(a, ask)
    PROVE  TypeOK'
  <1>. DEFINE start == PeriodStart(ask.budget.period, day)
              e == Rolled(entry, start)
  <1>1. e \in Entry /\ Refreshed(a, ask, e) /\ accepted' \subseteq Rows /\ UNCHANGED <<day, rows>>
    BY Refreshes DEF TypeOK
  <1>2. e.start \in Days /\ e.chargeSeq \in Nat
    <2>1. e.chargeSeq \in Nat
      BY <1>1 DEF Entry
    <2>. QED BY <2>1, StartIsDay, RolledIs DEF TypeOK, Question
  <1>. HIDE DEF e
  <1>3. asks' \in [Askers -> FirstSight]
    BY <1>1, <1>2, NoReads, BegunAskIs DEF Refreshed, Question, TypeOK
  <1>4. reloads' \in [Reloads -> Reload]
    BY <1>1, <1>2, BegunReloadIs DEF Refreshed, TypeOK
  <1>. QED BY <1>1, <1>3, <1>4 DEF TypeOK, Refreshed

LEMMA AskQuestions ==
    ASSUME TypeOK, NEW a \in Askers
    PROVE  /\ asks[a].reading => Question(asks[a])
           /\ \A b \in Budgets, j \in BOOLEAN : Question([budget |-> b, judges |-> j])
  BY Bounds DEF TypeOK, FirstSight, Question

LEMMA AskStepTyped ==
    ASSUME TypeOK, NEW a \in Askers,
           \/ \E budget \in Budgets, judges \in BOOLEAN : Asks(a, budget, judges)
           \/ AskSummed(a) \/ AskRolled(a)
           \/ \E ok \in BOOLEAN : AskLands(a, ok)
    PROVE  TypeOK'
  <1>1. ASSUME NEW budget \in Budgets, NEW judges \in BOOLEAN, Asks(a, budget, judges)
        PROVE  TypeOK'
    BY <1>1, AskQuestions, RefreshTyped DEF Asks
  <1>2. CASE AskRolled(a)
    BY <1>2, AskQuestions, RefreshTyped DEF AskRolled
  <1>3. CASE AskSummed(a)
    <2>1. Spend(asks[a].start) \in SUBSET Rows
      BY DEF Spend
    <2>2. asks' \in [Askers -> FirstSight]
      <3>. DEFINE R(b, s) == [asks[a] EXCEPT !.summed = b, !.sum = s]
      <3>1. \A b \in BOOLEAN, s \in SUBSET Rows : R(b, s) \in FirstSight
        BY DEF TypeOK, FirstSight
      <3>2. asks' = [asks EXCEPT ![a] = R(TRUE, Spend(asks[a].start))]
        BY <1>3 DEF AskSummed, TypeOK
      <3>. HIDE DEF R
      <3>3. TRUE \in BOOLEAN
        OBVIOUS
      <3>. QED BY <2>1, <3>1, <3>2, <3>3 DEF TypeOK
    <2>. QED BY <1>3, <2>2 DEF AskSummed, TypeOK
  <1>4. ASSUME NEW ok \in BOOLEAN, AskLands(a, ok)
        PROVE  TypeOK'
    <2>1. entry' \in Entry
      BY <1>4, Lands
    <2>2. asks' = [asks EXCEPT ![a] = NoAsk] /\ UNCHANGED <<day, rows, reloads, accepted>>
      BY <1>4 DEF AskLands
    <2>. QED BY <2>1, <2>2, NoReads DEF TypeOK
  <1>. QED BY <1>1, <1>2, <1>3, <1>4

LEMMA ReloadStepTyped ==
    ASSUME TypeOK, NEW g \in Reloads,
           ReloadSummed(g) \/ ReloadRolled(g) \/ ReloadFails(g) \/ ReloadAgain(g) \/ ReloadInstalls(g)
    PROVE  TypeOK'
  <1>1. CASE ReloadSummed(g)
    <2>1. Spend(reloads[g].start) \in SUBSET Rows
      BY DEF Spend
    <2>2. reloads' \in [Reloads -> Reload]
      <3>. DEFINE R(b, s) == [reloads[g] EXCEPT !.summed = b, !.sum = s]
      <3>1. \A b \in BOOLEAN, s \in SUBSET Rows : R(b, s) \in Reload
        BY DEF TypeOK, Reload
      <3>2. reloads' = [reloads EXCEPT ![g] = R(TRUE, Spend(reloads[g].start))]
        BY <1>1 DEF ReloadSummed, TypeOK
      <3>. HIDE DEF R
      <3>3. TRUE \in BOOLEAN
        OBVIOUS
      <3>. QED BY <2>1, <3>1, <3>2, <3>3 DEF TypeOK
    <2>. QED BY <1>1, <2>2 DEF ReloadSummed, TypeOK
  <1>2. CASE ReloadRolled(g)
    BY <1>2, SettledIs, NoReads DEF ReloadRolled, TypeOK
  <1>3. CASE ReloadFails(g)
    <2>1. entry' \in Entry
      BY <1>3, Fails
    <2>. QED BY <1>3, <2>1, NoReads DEF ReloadFails, TypeOK
  <1>4. CASE ReloadAgain(g)
    <2>1. entry' \in Entry
      BY <1>4, RunsAgain
    <2>2. entry.start = reloads[g].start /\ reloads[g].start \in Days /\ entry.chargeSeq \in Nat
      BY <1>4 DEF ReloadAgain, TypeOK, Reload, Entry
    <2>3. reloads' = [reloads EXCEPT ![g] = BegunReload(entry.start, entry.chargeSeq)]
          /\ UNCHANGED <<day, rows, asks, accepted>>
      BY <1>4 DEF ReloadAgain, BegunReload
    <2>. QED BY <2>1, <2>2, <2>3, BegunReloadIs DEF TypeOK
  <1>5. CASE ReloadInstalls(g)
    <2>1. entry' \in Entry
      BY <1>5, Installs
    <2>. QED BY <1>5, <2>1, NoReads DEF ReloadInstalls, TypeOK
  <1>. QED BY <1>1, <1>2, <1>3, <1>4, <1>5

LEMMA StepTyped ==
    ASSUME TypeOK, [Next]_vars
    PROVE  TypeOK'
  <1>1. CASE Tick
    BY <1>1, Ticks, TicksReads DEF Tick, TypeOK
  <1>2. CASE Midnight
    <2>1. day' \in Days
      BY <1>2, Bounds DEF Midnight, TypeOK, Days
    <2>. QED BY <1>2, <2>1 DEF Midnight, TypeOK
  <1>3. CASE UNCHANGED vars
    BY <1>3 DEF vars, TypeOK
  <1>. QED BY <1>1, <1>2, <1>3, RowStepTyped, AskStepTyped, ReloadStepTyped DEF Next
-----------------------------------------------------------------------------
(***************************************************************************)
(* The invariant, step by step.                                            *)
(***************************************************************************)
LEMMA Numbers ==
    ASSUME TypeOK
    PROVE  /\ day \in Days /\ day \in Nat
           /\ entry \in Entry /\ entry.start \in Nat /\ entry.age \in Nat /\ entry.chargeSeq \in Nat
           /\ entry.loaded \in BOOLEAN /\ entry.reloading \in BOOLEAN
           /\ entry.spent \in [Rows -> Nat] /\ entry.chargedSince \in [Rows -> Nat]
           /\ accepted \subseteq Rows
           /\ \A r \in Rows : rows[r].at \in Nat /\ rows[r].created \in Nat
           /\ \A a \in Askers : asks[a].start \in Nat /\ asks[a].age \in Nat
           /\ \A g \in Reloads : /\ reloads[g].start \in Nat /\ reloads[g].seq \in Nat
                                 /\ reloads[g].age \in Nat /\ reloads[g].age <= SourceTimeout
  <1>1. day \in Days /\ day \in Nat /\ accepted \subseteq Rows
    BY DEF TypeOK, Days
  <1>2. /\ entry \in Entry /\ entry.start \in Nat /\ entry.age \in Nat /\ entry.chargeSeq \in Nat
        /\ entry.loaded \in BOOLEAN /\ entry.reloading \in BOOLEAN
        /\ entry.spent \in [Rows -> Nat] /\ entry.chargedSince \in [Rows -> Nat]
    BY DEF TypeOK, Entry, Tally
  <1>3. \A r \in Rows : rows[r].at \in Nat /\ rows[r].created \in Nat
    BY DEF TypeOK, Row, Days
  <1>4. \A a \in Askers : asks[a].start \in Nat /\ asks[a].age \in Nat
    BY DEF TypeOK, FirstSight, Days
  <1>5. \A g \in Reloads : /\ reloads[g].start \in Nat /\ reloads[g].seq \in Nat
                           /\ reloads[g].age \in Nat /\ reloads[g].age <= SourceTimeout
    BY Bounds DEF TypeOK, Reload, Days
  <1>. QED BY <1>1, <1>2, <1>3, <1>4, <1>5

Rest == RowsOK /\ AcceptedOK /\ PeriodsOK /\ ReloadsOK

LEMMA InsertKeeps ==
    ASSUME IInv, NEW r \in Rows, NEW at \in Days, Insert(r, at)
    PROVE  Rest'
  <1>. USE DEF IInv, Insert
  <1>1. r \notin accepted
    BY DEF AcceptedOK
  <1>2. rows \in [Rows -> Row] /\ UNCHANGED <<day, entry, asks, reloads, accepted>>
        /\ rows' = [rows EXCEPT ![r] = [stage |-> "inserted", at |-> at, created |-> day]]
        /\ day >= at
    BY Numbers DEF TypeOK
  <1>3. RowsOK'
    BY <1>2 DEF RowsOK
  <1>4. AcceptedOK'
    BY <1>1, <1>2, Numbers DEF AcceptedOK
  <1>5. PeriodsOK' /\ ReloadsOK'
    BY <1>2 DEF PeriodsOK, ReloadsOK, ReloadOK, LeftBehind
  <1>. QED BY <1>3, <1>4, <1>5 DEF Rest

LEMMA PriceKeeps ==
    ASSUME IInv, NEW r \in Rows, Price(r)
    PROVE  Rest'
  <1>. USE DEF IInv, Price
  <1>1. r \notin accepted
    BY DEF AcceptedOK
  <1>2. rows \in [Rows -> Row] /\ UNCHANGED <<day, entry, asks, reloads, accepted>>
        /\ \A q \in Rows : rows'[q].at = rows[q].at /\ rows'[q].created = rows[q].created
                           /\ (q # r => rows'[q].stage = rows[q].stage)
    BY DEF TypeOK, Row
  <1>3. RowsOK' /\ AcceptedOK'
    BY <1>1, <1>2, Numbers DEF RowsOK, AcceptedOK
  <1>4. PeriodsOK' /\ ReloadsOK'
    BY <1>2 DEF PeriodsOK, ReloadsOK, ReloadOK, LeftBehind
  <1>. QED BY <1>3, <1>4 DEF Rest

LEMMA ChargeKeeps ==
    ASSUME IInv, NEW r \in Rows, Charge(r)
    PROVE  Rest'
  <1>. USE DEF IInv
  <1>1. rows \in [Rows -> Row] /\ UNCHANGED <<day, asks, reloads>>
        /\ \A q \in Rows : rows'[q].at = rows[q].at /\ rows'[q].created = rows[q].created
                           /\ rows'[q].stage = IF q = r THEN "charged" ELSE rows[q].stage
    BY DEF TypeOK, Row, Charge
  <1>2. RowsOK'
    BY <1>1 DEF RowsOK
  <1>3. CASE entry.loaded /\ rows[r].at >= entry.start
    <2>1. accepted' = accepted \cup {r}
      BY <1>3 DEF Charge
    <2>2. /\ entry' \in Entry /\ entry'.start = entry.start /\ entry'.loaded = entry.loaded
          /\ entry'.age = entry.age /\ entry'.reloading = entry.reloading
          /\ entry'.chargeSeq = entry.chargeSeq + 1
          /\ entry'.spent[r] >= 1 /\ \A q \in Rows : entry'.spent[q] >= entry.spent[q]
          /\ \A q \in Rows : entry'.chargedSince[q] >= entry.chargedSince[q]
          /\ entry.reloading => entry'.chargedSince[r] >= 1
      BY <1>3, Charges
    <2>3. entry'.spent \in [Rows -> Nat] /\ entry'.chargedSince \in [Rows -> Nat]
      BY <2>2 DEF Entry, Tally
    <2>4. AcceptedOK'
      <3>. SUFFICES ASSUME NEW q \in accepted'
                    PROVE  /\ entry'.loaded /\ entry'.spent[q] >= 1
                           /\ rows'[q].stage = "charged" /\ rows'[q].created >= entry'.start
        BY DEF AcceptedOK
      <3>1. CASE q = r
        BY <1>1, <1>3, <2>2, <3>1, Numbers DEF RowsOK
      <3>2. CASE q \in accepted
        BY <1>1, <2>2, <2>3, <3>2, Numbers DEF AcceptedOK
      <3>. QED BY <2>1, <3>1, <3>2
    <2>5. PeriodsOK'
      BY <1>1, <2>2 DEF PeriodsOK
    <2>6. ASSUME NEW g \in Reloads, reloads[g].running, reloads[g].start = entry.start
          PROVE  ReloadOK(g)'
      <3>1. ReloadOK(g)
        BY <2>6 DEF ReloadsOK
      <3>2. reloads[g].seq < entry'.chargeSeq
        BY <2>2, <3>1, Numbers DEF ReloadOK
      <3>3. ASSUME NEW q \in accepted', reloads[g].summed
            PROVE  q \in reloads[g].sum \/ entry'.chargedSince[q] >= 1
        <4>1. CASE q = r
          BY <2>2, <3>1, <4>1 DEF ReloadOK
        <4>2. CASE q \in accepted
          BY <2>2, <2>3, <3>1, <3>3, <4>2, Numbers DEF ReloadOK
        <4>. QED BY <2>1, <4>1, <4>2
      <3>. QED BY <1>1, <2>2, <3>1, <3>2, <3>3, Numbers DEF ReloadOK
    <2>7. ReloadsOK'
      BY <1>1, <2>2, <2>6 DEF ReloadsOK, LeftBehind
    <2>. QED BY <1>2, <2>4, <2>5, <2>7 DEF Rest
  <1>4. CASE ~(entry.loaded /\ rows[r].at >= entry.start)
    <2>1. UNCHANGED <<entry, accepted>>
      BY <1>4 DEF Charge
    <2>2. AcceptedOK'
      BY <1>1, <2>1, Numbers DEF AcceptedOK
    <2>3. PeriodsOK' /\ ReloadsOK'
      BY <1>1, <2>1 DEF PeriodsOK, ReloadsOK, ReloadOK, LeftBehind
    <2>. QED BY <1>2, <2>2, <2>3 DEF Rest
  <1>. QED BY <1>3, <1>4

LEMMA RefreshKeeps ==
    ASSUME Forward, IInv, NEW a \in Askers, NEW ask, Question(ask), Refresh(a, ask)
    PROVE  Rest'
  <1>. USE DEF IInv
  <1>. DEFINE start == PeriodStart(ask.budget.period, day)
              e == Rolled(entry, start)
  <1>1. /\ e \in Entry /\ Refreshed(a, ask, e) /\ UNCHANGED <<day, rows>>
        /\ accepted' = IF entry.start = start THEN accepted ELSE {}
    BY Refreshes
  <1>2. /\ start \in Days /\ e.start = start
        /\ entry.start = start => e = entry
        /\ entry.start # start => ~e.loaded /\ ~e.reloading
    BY StartIsDay, RolledIs DEF TypeOK, Question
  <1>3. start \in Nat /\ entry.start <= start
    BY <1>1, <1>2 DEF Refreshed, Forward, Days
  <1>. HIDE DEF e, start
  <1>4. RowsOK'
    BY <1>1 DEF RowsOK
  <1>5. entry'.start = start
    BY <1>1, <1>2 DEF Refreshed
  <1>6. AcceptedOK'
    BY <1>1, <1>2 DEF AcceptedOK, Refreshed
  <1>7. \A b \in Askers : asks'[b].reading =>
          \/ b # a /\ asks'[b] = asks[b]
          \/ b = a /\ asks'[b].start = start /\ asks'[b].age = 0
    <2>1. asks \in [Askers -> FirstSight]
      BY DEF TypeOK
    <2>2. CASE asks' = [asks EXCEPT ![a] = NoAsk]
      BY <2>1, <2>2, NoReads
    <2>3. CASE asks' = [asks EXCEPT ![a] = BegunAsk(ask, e.start)]
      BY <1>2, <2>1, <2>3, BegunAskIs DEF Question
    <2>. QED BY <1>1, <2>2, <2>3 DEF Refreshed
  <1>8. CASE SameFigure(e, entry') /\ UNCHANGED reloads
    <2>1. PeriodsOK'
      BY <1>1, <1>3, <1>5, <1>7, <1>8, Numbers DEF PeriodsOK
    <2>2. ReloadsOK'
      <3>1. CASE entry.start = start
        <4>1. UNCHANGED accepted /\ SameFigure(entry, entry')
          BY <1>1, <1>2, <1>8, <3>1
        <4>2. ASSUME NEW g \in Reloads, reloads[g].running, reloads[g].start # entry.start
              PROVE  LeftBehind(g)'
          BY <1>5, <1>7, <1>8, <3>1, <4>1, <4>2, Numbers DEF ReloadsOK, LeftBehind, SameFigure
        <4>3. ASSUME NEW g \in Reloads, reloads[g].running, reloads[g].start = entry.start
              PROVE  ReloadOK(g)'
          BY <1>8, <4>1, <4>3 DEF ReloadsOK, ReloadOK, SameFigure
        <4>. QED BY <1>8, <4>1, <4>2, <4>3 DEF ReloadsOK, SameFigure
      <3>2. CASE entry.start # start
        <4>1. ~entry'.loaded /\ ~entry'.reloading
          BY <1>2, <1>8, <3>2 DEF SameFigure
        <4>2. ASSUME NEW g \in Reloads, reloads[g].running
              PROVE  reloads[g].start # start /\ LeftBehind(g)'
          <5>1. reloads[g].start < start
            BY <1>3, <3>2, <4>2, Numbers DEF PeriodsOK
          <5>2. ASSUME NEW b \in Askers, asks'[b].reading, asks'[b].start = start
                PROVE  asks'[b].age = 0
            BY <1>3, <1>7, <3>2, <5>2, Numbers DEF PeriodsOK
          <5>. QED BY <1>5, <1>8, <4>1, <5>1, <5>2, Numbers DEF LeftBehind
        <4>. QED BY <1>5, <1>8, <4>1, <4>2 DEF ReloadsOK
      <3>. QED BY <3>1, <3>2
    <2>. QED BY <1>4, <1>6, <2>1, <2>2 DEF Rest
  <1>9. ASSUME e.loaded, e.age >= RefreshInterval, ~e.reloading,
               entry'.reloading, entry'.chargedSince = NoCharge,
               NEW g \in Reloads, reloads' = [reloads EXCEPT ![g] = BegunReload(e.start, e.chargeSeq)]
        PROVE  Rest'
    <2>1. entry.start = start /\ e = entry /\ UNCHANGED accepted
      BY <1>1, <1>2, <1>9
    <2>2. \A h \in Reloads : ~reloads[h].running
      <3>. SUFFICES ASSUME NEW h \in Reloads, reloads[h].running PROVE FALSE
        OBVIOUS
      <3>1. CASE reloads[h].start = entry.start
        BY <1>9, <2>1, <3>1 DEF ReloadsOK, ReloadOK
      <3>2. CASE reloads[h].start # entry.start
        BY <1>9, <2>1, <3>2, Numbers, Bounds DEF ReloadsOK, LeftBehind
      <3>. QED BY <3>1, <3>2
    <2>3. /\ reloads'[g].running /\ reloads'[g].start = start /\ reloads'[g].seq = entry.chargeSeq
          /\ ~reloads'[g].summed
          /\ \A h \in Reloads : reloads'[h].running => h = g
      BY <1>2, <1>9, <2>1, <2>2, BegunReloadIs, Numbers DEF TypeOK
    <2>4. PeriodsOK'
      BY <1>1, <1>3, <1>5, <1>7, <2>3, Numbers DEF PeriodsOK
    <2>5. ReloadOK(g)'
      BY <1>1, <1>2, <1>9, <2>1, <2>3, Numbers DEF ReloadOK, Refreshed, NoCharge
    <2>6. ReloadsOK'
      BY <1>5, <2>3, <2>5 DEF ReloadsOK
    <2>. QED BY <1>4, <1>6, <2>4, <2>6 DEF Rest
  <1>. QED BY <1>1, <1>8, <1>9 DEF Refreshed

LEMMA LandsKeeps ==
    ASSUME IInv, NEW a \in Askers, NEW ok \in BOOLEAN, AskLands(a, ok)
    PROVE  Rest'
  <1>. USE DEF IInv
  <1>1. asks' = [asks EXCEPT ![a] = NoAsk] /\ UNCHANGED <<day, rows, reloads, accepted>>
        /\ asks[a].reading /\ entry.start = asks[a].start
    BY DEF AskLands
  <1>2. \A b \in Askers : asks'[b].reading => asks'[b] = asks[b]
    BY <1>1, NoReads DEF TypeOK
  <1>3. /\ entry'.start = entry.start
        /\ entry'.reloading = entry.reloading /\ entry'.chargeSeq = entry.chargeSeq
        /\ entry'.chargedSince = entry.chargedSince
        /\ entry.loaded => SameFigure(entry, entry')
        /\ entry'.loaded /\ ~entry.loaded => entry'.age = asks[a].age
    BY Lands
  <1>4. RowsOK' /\ PeriodsOK'
    BY <1>1, <1>2, <1>3 DEF RowsOK, PeriodsOK
  <1>5. AcceptedOK'
    BY <1>1, <1>3 DEF AcceptedOK, SameFigure
  <1>6. ASSUME NEW g \in Reloads, reloads[g].running, reloads[g].start # entry.start
        PROVE  LeftBehind(g)'
    <2>1. LeftBehind(g)
      BY <1>6 DEF ReloadsOK
    <2>2. entry'.loaded => entry'.age <= reloads[g].age
      BY <1>1, <1>3, <2>1 DEF LeftBehind, SameFigure
    <2>. QED BY <1>1, <1>2, <1>3, <2>1, <2>2 DEF LeftBehind
  <1>7. ASSUME NEW g \in Reloads, reloads[g].running, reloads[g].start = entry.start
        PROVE  ReloadOK(g)'
    BY <1>1, <1>3, <1>7 DEF ReloadsOK, ReloadOK, SameFigure
  <1>8. ReloadsOK'
    BY <1>1, <1>3, <1>6, <1>7 DEF ReloadsOK
  <1>. QED BY <1>4, <1>5, <1>8 DEF Rest

LEMMA AskSummedKeeps ==
    ASSUME IInv, NEW a \in Askers, AskSummed(a)
    PROVE  Rest'
  <1>. USE DEF IInv
  <1>1. UNCHANGED <<day, rows, entry, reloads, accepted>>
        /\ asks' = [asks EXCEPT ![a].summed = TRUE, ![a].sum = Spend(asks[a].start)]
    BY DEF AskSummed
  <1>2. \A b \in Askers : asks'[b].reading = asks[b].reading /\ asks'[b].start = asks[b].start
                          /\ asks'[b].age = asks[b].age /\ asks'[b].budget = asks[b].budget
    BY <1>1 DEF TypeOK, FirstSight
  <1>. QED BY <1>1, <1>2 DEF Rest, RowsOK, AcceptedOK, PeriodsOK, ReloadsOK, ReloadOK, LeftBehind

LEMMA ReloadSummedKeeps ==
    ASSUME IInv, NEW g \in Reloads, ReloadSummed(g)
    PROVE  Rest'
  <1>. USE DEF IInv
  <1>1. UNCHANGED <<day, rows, entry, asks, accepted>> /\ reloads[g].running
        /\ reloads' = [reloads EXCEPT ![g].summed = TRUE, ![g].sum = Spend(reloads[g].start)]
    BY DEF ReloadSummed
  <1>2. \A h \in Reloads :
          /\ reloads'[h].running = reloads[h].running /\ reloads'[h].start = reloads[h].start
          /\ reloads'[h].age = reloads[h].age /\ reloads'[h].seq = reloads[h].seq
          /\ h # g => reloads'[h] = reloads[h]
    BY <1>1 DEF TypeOK, Reload
  <1>3. reloads'[g].sum = Spend(reloads[g].start)
    BY <1>1 DEF TypeOK, Reload
  <1>4. RowsOK' /\ AcceptedOK' /\ PeriodsOK'
    BY <1>1, <1>2 DEF RowsOK, AcceptedOK, PeriodsOK
  <1>5. ASSUME reloads[g].start = entry.start
        PROVE  ReloadOK(g)'
    <2>1. \A r \in accepted : r \in reloads'[g].sum
      BY <1>3, <1>5, Numbers DEF AcceptedOK, Spend
    <2>2. UNCHANGED <<entry, accepted>> /\ ReloadOK(g)
      BY <1>1, <1>5 DEF ReloadsOK
    <2>. QED BY <1>2, <2>1, <2>2 DEF ReloadOK
  <1>6. ASSUME NEW h \in Reloads, reloads[h].running, h # g, reloads[h].start = entry.start
        PROVE  ReloadOK(h)'
    BY <1>1, <1>2, <1>6 DEF ReloadsOK, ReloadOK
  <1>7. ASSUME NEW h \in Reloads, reloads[h].running, reloads[h].start # entry.start
        PROVE  LeftBehind(h)'
    BY <1>1, <1>2, <1>7 DEF ReloadsOK, LeftBehind
  <1>8. ReloadsOK'
    <2>1. entry' = entry
      BY <1>1
    <2>. QED BY <1>2, <1>5, <1>6, <1>7, <2>1 DEF ReloadsOK
  <1>. QED BY <1>4, <1>8 DEF Rest

(* When the one reload that runs is over, none runs and none is waited for. *)
LEMMA Over ==
    ASSUME IInv, NEW g \in Reloads, reloads[g].running,
           reloads' = [reloads EXCEPT ![g] = NoReload],
           ~entry'.reloading, entry'.start = entry.start,
           UNCHANGED <<day, rows, asks, accepted>>, AcceptedOK'
    PROVE  Rest'
  <1>. USE DEF IInv
  <1>1. \A h \in Reloads : ~reloads'[h].running
    BY NoReads DEF TypeOK, ReloadsOK
  <1>2. RowsOK' /\ PeriodsOK'
    BY <1>1 DEF RowsOK, PeriodsOK
  <1>3. ReloadsOK'
    BY <1>1 DEF ReloadsOK
  <1>. QED BY <1>2, <1>3 DEF Rest

LEMMA ReloadRolledKeeps ==
    ASSUME IInv, NEW g \in Reloads, ReloadRolled(g)
    PROVE  Rest'
  <1>. USE DEF IInv
  <1>1. /\ reloads[g].running /\ reloads' = [reloads EXCEPT ![g] = NoReload]
        /\ entry' = Settled(entry) /\ UNCHANGED <<day, rows, asks, accepted>>
    BY DEF ReloadRolled
  <1>2. /\ ~entry'.reloading /\ entry'.start = entry.start /\ entry'.spent = entry.spent
        /\ entry'.loaded = entry.loaded
    BY <1>1, SettledIs DEF TypeOK
  <1>3. AcceptedOK'
    BY <1>1, <1>2 DEF AcceptedOK
  <1>. QED BY <1>1, <1>2, <1>3, Over

LEMMA ReloadFailsKeeps ==
    ASSUME IInv, NEW g \in Reloads, ReloadFails(g)
    PROVE  Rest'
  <1>. USE DEF IInv
  <1>1. /\ reloads[g].running /\ reloads' = [reloads EXCEPT ![g] = NoReload]
        /\ UNCHANGED <<day, rows, asks, accepted>>
    BY DEF ReloadFails
  <1>2. /\ ~entry'.reloading /\ entry'.start = entry.start /\ entry'.spent = entry.spent
        /\ entry'.loaded = TRUE
    BY Fails
  <1>3. AcceptedOK'
    BY <1>1, <1>2 DEF AcceptedOK
  <1>. QED BY <1>1, <1>2, <1>3, Over

(* The heart of it: what the sum does not hold was counted since. *)
LEMMA ReloadInstallsKeeps ==
    ASSUME IInv, NEW g \in Reloads, ReloadInstalls(g)
    PROVE  Rest'
  <1>. USE DEF IInv
  <1>. DEFINE sum == reloads[g].sum
  <1>1. /\ reloads[g].running /\ reloads[g].summed /\ reloads[g].start = entry.start
        /\ reloads' = [reloads EXCEPT ![g] = NoReload]
        /\ UNCHANGED <<day, rows, asks, accepted>>
    BY DEF ReloadInstalls
  <1>2. /\ ~entry'.reloading /\ entry'.start = entry.start /\ entry'.loaded = TRUE
        /\ entry'.spent = IF entry.chargeSeq = reloads[g].seq THEN Once(sum)
                          ELSE Plus(Once(sum), entry.chargedSince)
    BY Installs
  <1>3. ReloadOK(g)
    BY <1>1 DEF ReloadsOK
  <1>4. ASSUME NEW r \in accepted
        PROVE  entry'.spent[r] >= 1
    <2>1. r \in Rows /\ entry.chargedSince[r] \in Nat /\ (r \in sum \/ entry.chargedSince[r] >= 1)
      BY <1>1, <1>3, Numbers DEF ReloadOK
    <2>2. Once(sum)[r] = IF r \in sum THEN 1 ELSE 0
      BY <2>1 DEF Once
    <2>3. CASE entry.chargeSeq = reloads[g].seq
      BY <1>2, <1>3, <2>1, <2>2, <2>3 DEF ReloadOK
    <2>4. CASE entry.chargeSeq # reloads[g].seq
      <3>1. Plus(Once(sum), entry.chargedSince)[r] = Once(sum)[r] + entry.chargedSince[r]
        BY <2>1 DEF Plus
      <3>. QED BY <1>2, <2>1, <2>2, <2>4, <3>1
    <2>. QED BY <2>3, <2>4
  <1>5. AcceptedOK'
    BY <1>1, <1>2, <1>4 DEF AcceptedOK
  <1>. QED BY <1>1, <1>2, <1>5, Over

LEMMA ReloadAgainKeeps ==
    ASSUME IInv, NEW g \in Reloads, ReloadAgain(g)
    PROVE  Rest'
  <1>. USE DEF IInv
  <1>1. /\ reloads[g].running /\ reloads[g].start = entry.start
        /\ reloads' = [reloads EXCEPT ![g] = BegunReload(entry.start, entry.chargeSeq)]
        /\ UNCHANGED <<day, rows, asks, accepted>>
    BY DEF ReloadAgain, BegunReload
  <1>2. /\ entry'.start = entry.start /\ entry'.spent = entry.spent
        /\ entry'.loaded = entry.loaded /\ entry'.reloading = entry.reloading
        /\ entry'.chargeSeq = entry.chargeSeq /\ entry'.chargedSince = NoCharge
    BY RunsAgain
  <1>3. entry.start \in Days /\ ReloadOK(g)
    BY <1>1 DEF TypeOK, Reload, ReloadsOK
  <1>4. /\ reloads'[g].running /\ reloads'[g].start = entry.start /\ reloads'[g].seq = entry.chargeSeq
        /\ ~reloads'[g].summed
        /\ \A h \in Reloads : reloads'[h].running => h = g
    BY <1>1, <1>3, BegunReloadIs, Numbers DEF TypeOK, ReloadsOK
  <1>5. RowsOK' /\ AcceptedOK' /\ PeriodsOK'
    BY <1>1, <1>2, <1>4, Numbers DEF RowsOK, AcceptedOK, PeriodsOK
  <1>6. ReloadOK(g)'
    BY <1>1, <1>2, <1>3, <1>4, Numbers DEF ReloadOK, NoCharge
  <1>7. ReloadsOK'
    BY <1>2, <1>4, <1>6 DEF ReloadsOK
  <1>. QED BY <1>5, <1>7 DEF Rest

LEMMA TickKeeps ==
    ASSUME IInv, Tick
    PROVE  Rest'
  <1>. USE DEF IInv
  <1>1. UNCHANGED <<day, rows, accepted>>
    BY DEF Tick
  <1>2. /\ entry' \in Entry /\ entry'.start = entry.start /\ entry'.spent = entry.spent
        /\ entry'.loaded = entry.loaded /\ entry'.reloading = entry.reloading
        /\ entry'.chargeSeq = entry.chargeSeq /\ entry'.chargedSince = entry.chargedSince
        /\ entry.loaded => entry'.age <= entry.age + 1
    BY Ticks
  <1>3. /\ \A a \in Askers :
             /\ asks'[a].reading = asks[a].reading /\ asks'[a].start = asks[a].start
             /\ asks'[a].budget = asks[a].budget
             /\ asks[a].reading => asks'[a].age = asks[a].age + 1
        /\ \A g \in Reloads :
             /\ reloads'[g].running = reloads[g].running /\ reloads'[g].start = reloads[g].start
             /\ reloads'[g].seq = reloads[g].seq /\ reloads'[g].summed = reloads[g].summed
             /\ reloads'[g].sum = reloads[g].sum
             /\ reloads[g].running => reloads'[g].age = reloads[g].age + 1
    BY TicksReads
  <1>4. entry'.age \in Nat
    BY <1>2 DEF Entry
  <1>5. RowsOK' /\ AcceptedOK' /\ PeriodsOK'
    BY <1>1, <1>2, <1>3 DEF RowsOK, AcceptedOK, PeriodsOK
  <1>6. ASSUME NEW g \in Reloads, reloads[g].running, reloads[g].start # entry.start
        PROVE  LeftBehind(g)'
    <2>1. LeftBehind(g)
      BY <1>6 DEF ReloadsOK
    <2>. QED BY <1>2, <1>3, <1>4, <1>6, <2>1, Numbers DEF LeftBehind
  <1>7. ASSUME NEW g \in Reloads, reloads[g].running, reloads[g].start = entry.start
        PROVE  ReloadOK(g)'
    BY <1>1, <1>2, <1>3, <1>7 DEF ReloadsOK, ReloadOK
  <1>8. ReloadsOK'
    BY <1>2, <1>3, <1>6, <1>7 DEF ReloadsOK
  <1>. QED BY <1>5, <1>8 DEF Rest

LEMMA MidnightKeeps ==
    ASSUME IInv, Midnight
    PROVE  Rest'
  <1>. USE DEF IInv
  <1>1. day' = day + 1 /\ UNCHANGED <<rows, entry, asks, reloads, accepted>>
    BY DEF Midnight
  <1>2. PeriodsOK'
    BY <1>1, Numbers DEF PeriodsOK, PeriodStart
  <1>3. RowsOK' /\ AcceptedOK' /\ ReloadsOK'
    BY <1>1 DEF RowsOK, AcceptedOK, ReloadsOK, ReloadOK, LeftBehind
  <1>. QED BY <1>2, <1>3 DEF Rest

LEMMA InitHolds ==
    ASSUME Init
    PROVE  IInv
  <1>1. TypeOK
    BY InitTyped
  <1>2. RowsOK /\ AcceptedOK
    BY DEF Init, RowsOK, AcceptedOK
  <1>3. PeriodsOK
    <2>1. entry.start = 0 /\ day = 1
      BY DEF Init
    <2>2. /\ \A a \in Askers : ~asks[a].reading
          /\ \A g \in Reloads : ~reloads[g].running
      BY NoReads DEF Init
    <2>. QED BY <2>1, <2>2 DEF PeriodsOK, PeriodStart
  <1>4. ReloadsOK
    <2>1. ~entry.reloading
      BY DEF Init
    <2>2. \A g \in Reloads : ~reloads[g].running
      BY NoReads DEF Init
    <2>. QED BY <2>1, <2>2 DEF ReloadsOK
  <1>. QED BY <1>1, <1>2, <1>3, <1>4 DEF IInv

LEMMA StepKeeps ==
    ASSUME IInv, [Next]_vars, [Forward]_vars
    PROVE  IInv'
  <1>. SUFFICES ASSUME Next, Forward PROVE IInv'
    BY DEF vars, IInv, TypeOK, RowsOK, AcceptedOK, PeriodsOK, ReloadsOK, ReloadOK, LeftBehind
  <1>1. TypeOK /\ TypeOK'
    BY StepTyped DEF IInv
  <1>2. ASSUME NEW r \in Rows, (\E at \in Days : Insert(r, at)) \/ Price(r) \/ Charge(r)
        PROVE  Rest'
    BY <1>2, InsertKeeps, PriceKeeps, ChargeKeeps
  <1>3. ASSUME NEW a \in Askers, NEW budget \in Budgets, NEW judges \in BOOLEAN,
               Asks(a, budget, judges)
        PROVE  Rest'
    BY <1>1, <1>3, AskQuestions, RefreshKeeps DEF Asks
  <1>4. ASSUME NEW a \in Askers, AskRolled(a)
        PROVE  Rest'
    BY <1>1, <1>4, AskQuestions, RefreshKeeps DEF AskRolled
  <1>5. ASSUME NEW a \in Askers, AskSummed(a) \/ \E ok \in BOOLEAN : AskLands(a, ok)
        PROVE  Rest'
    BY <1>5, AskSummedKeeps, LandsKeeps
  <1>6. ASSUME NEW g \in Reloads, ReloadSummed(g) \/ ReloadRolled(g) \/ ReloadFails(g)
                                  \/ ReloadAgain(g) \/ ReloadInstalls(g)
        PROVE  Rest'
    BY <1>6, ReloadSummedKeeps, ReloadRolledKeeps, ReloadFailsKeeps, ReloadAgainKeeps, ReloadInstallsKeeps
  <1>7. ASSUME Tick \/ Midnight PROVE Rest'
    BY <1>7, TickKeeps, MidnightKeeps
  <1>8. Rest'
    BY <1>2, <1>3, <1>4, <1>5, <1>6, <1>7 DEF Next
  <1>. QED BY <1>1, <1>8 DEF IInv, Rest

(* Every budget's period began, today, no earlier than the figure's.       *)
DueOK ==
    /\ \A b \in Budgets : entry.start <= PeriodStart(b.period, day)
    /\ \A a \in Askers : asks[a].reading => asks[a].budget \in Budgets

LEMMA RefreshDue ==
    ASSUME OnePeriod, TypeOK, DueOK, NEW a \in Askers, NEW ask, Question(ask),
           ask.budget \in Budgets, Refresh(a, ask)
    PROVE  DueOK' /\ Forward
  <1>. DEFINE start == PeriodStart(ask.budget.period, day)
              e == Rolled(entry, start)
  <1>1. e \in Entry /\ Refreshed(a, ask, e) /\ UNCHANGED <<day, rows>>
    BY Refreshes
  <1>2. start \in Days /\ e.start = start
    BY StartIsDay, RolledIs DEF TypeOK, Question
  <1>3. entry.start <= start /\ \A b \in Budgets : start = PeriodStart(b.period, day)
    BY DEF OnePeriod, DueOK
  <1>. HIDE DEF e, start
  <1>4. entry'.start = start
    BY <1>1, <1>2 DEF Refreshed
  <1>5. \A b \in Askers : asks'[b].reading => asks'[b].budget \in Budgets
    <2>1. asks \in [Askers -> FirstSight]
      BY DEF TypeOK
    <2>2. CASE asks' = [asks EXCEPT ![a] = NoAsk]
      BY <2>1, <2>2, NoReads DEF DueOK
    <2>3. CASE asks' = [asks EXCEPT ![a] = BegunAsk(ask, e.start)]
      BY <1>2, <2>1, <2>3, BegunAskIs DEF Question, DueOK
    <2>. QED BY <1>1, <2>2, <2>3 DEF Refreshed
  <1>. QED BY <1>1, <1>2, <1>3, <1>4, <1>5 DEF DueOK, Forward, Days

(* Any other step keeps the period and lets no read begin. *)
LEMMA StepDue ==
    ASSUME OnePeriod, TypeOK, DueOK, [Next]_vars
    PROVE  DueOK' /\ [Forward]_vars
  <1>0. entry.start \in Nat /\ day \in Nat /\ entry \in Entry /\ asks \in [Askers -> FirstSight]
    BY DEF TypeOK, Entry, Days
  <1>1. ASSUME entry'.start = entry.start, day' \in {day, day + 1},
               \A a \in Askers : asks'[a].reading =>
                  asks[a].reading /\ asks'[a].budget = asks[a].budget
        PROVE  DueOK' /\ Forward
    BY <1>0, <1>1 DEF DueOK, Forward, PeriodStart
  <1>2. ASSUME NEW r \in Rows, (\E at \in Days : Insert(r, at)) \/ Price(r) \/ Charge(r)
        PROVE  DueOK' /\ Forward
    <2>1. UNCHANGED <<day, asks>>
      BY <1>2 DEF Insert, Price, Charge
    <2>2. entry'.start = entry.start
      BY <1>2, Charges DEF Insert, Price, Charge
    <2>. QED BY <1>1, <2>1, <2>2
  <1>3. ASSUME NEW a \in Askers, NEW budget \in Budgets, NEW judges \in BOOLEAN,
               Asks(a, budget, judges)
        PROVE  DueOK' /\ Forward
    BY <1>3, AskQuestions, RefreshDue DEF Asks
  <1>4. ASSUME NEW a \in Askers, AskRolled(a)
        PROVE  DueOK' /\ Forward
    BY <1>4, AskQuestions, RefreshDue DEF AskRolled, DueOK
  <1>5. ASSUME NEW a \in Askers, AskSummed(a)
        PROVE  DueOK' /\ Forward
    <2>1. \A b \in Askers :
              asks'[b].reading = asks[b].reading /\ asks'[b].budget = asks[b].budget
      BY <1>0, <1>5 DEF AskSummed, FirstSight
    <2>. QED BY <1>1, <1>5, <2>1 DEF AskSummed
  <1>6. ASSUME NEW a \in Askers, NEW ok \in BOOLEAN, AskLands(a, ok)
        PROVE  DueOK' /\ Forward
    <2>1. entry'.start = entry.start
      BY <1>6, Lands
    <2>2. asks' = [asks EXCEPT ![a] = NoAsk] /\ UNCHANGED day
      BY <1>6 DEF AskLands
    <2>. QED BY <1>0, <1>1, <2>1, <2>2, NoReads
  <1>7. ASSUME NEW g \in Reloads, ReloadSummed(g) \/ ReloadRolled(g) \/ ReloadFails(g)
                                  \/ ReloadAgain(g) \/ ReloadInstalls(g)
        PROVE  DueOK' /\ Forward
    <2>1. UNCHANGED <<day, asks>>
      BY <1>7 DEF ReloadSummed, ReloadRolled, ReloadFails, ReloadAgain, ReloadInstalls
    <2>2. entry'.start = entry.start
      BY <1>0, <1>7 DEF ReloadSummed, ReloadRolled, ReloadFails, ReloadAgain, ReloadInstalls,
                        Settled, Entry
    <2>. QED BY <1>1, <2>1, <2>2
  <1>8. CASE Tick
    <2>1. entry'.start = entry.start /\ UNCHANGED day
      BY <1>0, <1>8 DEF Tick, Entry
    <2>2. \A a \in Askers :
              asks'[a].reading = asks[a].reading /\ asks'[a].budget = asks[a].budget
      BY <1>0, <1>8 DEF Tick, FirstSight
    <2>. QED BY <1>1, <2>1, <2>2
  <1>9. CASE Midnight
    BY <1>1, <1>9 DEF Midnight
  <1>10. CASE UNCHANGED vars
    BY <1>10 DEF vars, DueOK
  <1>. QED BY <1>2, <1>3, <1>4, <1>5, <1>6, <1>7, <1>8, <1>9, <1>10 DEF Next
-----------------------------------------------------------------------------
(***************************************************************************)
(* The theorems.                                                           *)
(***************************************************************************)

(* Every variable keeps its type, whatever budgets the subject is given:   *)
(* in particular the ages stay below the intervals they are compared with  *)
(* and overlapped below maxOverlappedReloads.                              *)
THEOREM TypeCorrect == Spec => []TypeOK
  <1>1. Init => TypeOK
    BY InitTyped
  <1>2. TypeOK /\ [Next]_vars => TypeOK'
    BY StepTyped
  <1>. QED BY <1>1, <1>2, PTL DEF Spec

(* IInv holds for as long as the entry is rolled forward only: at most one *)
(* reload runs, a running reload misses no charge that was not counted     *)
(* since it began, and one the period left behind lands before the new     *)
(* figure can be stale.                                                    *)
THEOREM Inductive == Spec /\ [][Forward]_vars => []IInv
  <1>1. Init => IInv
    BY InitHolds
  <1>2. IInv /\ [Next]_vars /\ [Forward]_vars => IInv'
    BY StepKeeps
  <1>. QED BY <1>1, <1>2, PTL DEF Spec

(* As long as edits of the budget keep its period, the entry is rolled     *)
(* forward only, at midnight, whichever of the requests under way comes    *)
(* first (refresh, periodStart).                                           *)
THEOREM OnePeriodMovesForward ==
    ASSUME OnePeriod
    PROVE  Spec => [][Forward]_vars
  <1>1. Init => DueOK
    BY NoReads DEF Init, DueOK, PeriodStart
  <1>2. TypeOK /\ DueOK /\ [Next]_vars => DueOK' /\ [Forward]_vars
    BY StepDue
  <1>. QED BY <1>1, <1>2, TypeCorrect, PTL DEF Spec

(* The figure never misses a charge it took (charge, reload): for any      *)
(* number of concurrent requests, any edits, re-runs, failures and         *)
(* midnights, as long as no request rolls the entry back.                  *)
THEOREM ForwardLosesNoCharge == Spec /\ [][Forward]_vars => []NeverMisses
  <1>1. IInv => NeverMisses
    BY DEF IInv, AcceptedOK, NeverMisses
  <1>. QED BY <1>1, Inductive, PTL

(* In particular no charge is lost where edits of the budget change its    *)
(* amount and not its period.                                              *)
THEOREM NoChargeLost ==
    ASSUME OnePeriod
    PROVE  Spec => []NeverMisses
  BY OnePeriodMovesForward, ForwardLosesNoCharge, PTL

(* A stale figure is replaced by one reload at a time, and a figure marked *)
(* as reloading waits for one that runs (refresh, reload), as long as no   *)
(* request rolls the entry back.                                           *)
THEOREM ForwardReloadsAreSingle == Spec /\ [][Forward]_vars => []OneReload
  <1>1. IInv => OneReload
    <2>. SUFFICES ASSUME IInv PROVE OneReload
      OBVIOUS
    <2>1. Cardinality(Current) <= 1
      <3>1. CASE Current = {}
        BY <3>1, FS_EmptySet
      <3>2. ASSUME NEW g \in Current
            PROVE  Cardinality(Current) <= 1
        <4>1. Current = {g}
          BY <3>2 DEF IInv, ReloadsOK, Current
        <4>. QED BY <4>1, FS_Singleton
      <3>. QED BY <3>1, <3>2
    <2>2. entry.reloading => Current # {}
      BY DEF IInv, ReloadsOK, Current
    <2>. QED BY <2>1, <2>2 DEF OneReload
  <1>. QED BY <1>1, Inductive, PTL

(* In particular where edits of the budget keep its period. *)
THEOREM ReloadsAreSingle ==
    ASSUME OnePeriod
    PROVE  Spec => []OneReload
  BY OnePeriodMovesForward, ForwardReloadsAreSingle, PTL
=============================================================================
