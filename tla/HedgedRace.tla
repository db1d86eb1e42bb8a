----------------------------- MODULE HedgedRace -----------------------------
(***************************************************************************)
(* A hedged streaming request (internal/proxy/hedging.go).                 *)
(*                                                                         *)
(* The orchestrator launches a probe per candidate, the next one on every  *)
(* hedge tick or lost probe, and serves the first to hand it a first       *)
(* token.  Probes run in goroutines of their own; besides their results    *)
(* they share with the orchestrator only the attempt's context, its        *)
(* superseded flag and its billed flag, all read and written without a     *)
(* lock.  A results channel of the candidates' number never blocks.        *)
(*                                                                         *)
(* One request.  The last wait for a busy candidate's slot is              *)
(* InflightLimiter's; the breaker's and the window's reactions to the      *)
(* verdicts recorded here are CircuitBreaker's and InflightLimiter's.      *)
(***************************************************************************)
EXTENDS Integers, Sequences, FiniteSets

CONSTANT NumCandidates

ASSUME CandidatesAssumption == NumCandidates \in Nat \ {0}

Candidates == 1..NumCandidates

VARIABLES
    race,     \* the orchestrator
    probe,    \* per candidate, its probe and what it shares with the race
    results,  \* the results channel: the candidates whose probe has answered
    trail,    \* per candidate, the records the race logged for its launch
    owed,     \* per candidate, how often its prompt has been charged
    drain,    \* results the background drain still waits for
    left      \* the client has hung up

hedge == <<race, probe, results, trail, owed, drain, left>>

ProbePCs == {"none", "admit", "build", "sent", "took", "probing", "failed",
             "classify", "commit", "deliver", "done"}

(* slot is how the in-flight slot was settled, hold the verdict hold.  The *)
(* body is "kept" once the probe has claimed it for replay.                *)
Probe ==
    [ pc : ProbePCs, ctx : {"live", "cancelled", "expired"}, superseded : BOOLEAN,
      billed : BOOLEAN, slot : {"none", "held", "clean", "unclean", "neutral"},
      hold : BOOLEAN, body : {"none", "open", "kept", "closed"}, late : BOOLEAN,
      err : {"none", "frame", "empty", "cut"}, won : BOOLEAN, busy : BOOLEAN,
      faulted : BOOLEAN, beaten : BOOLEAN ]

NoProbe ==
    [ pc |-> "none", ctx |-> "live", superseded |-> FALSE, billed |-> FALSE,
      slot |-> "none", hold |-> FALSE, body |-> "none", late |-> FALSE,
      err |-> "none", won |-> FALSE, busy |-> FALSE, faulted |-> FALSE,
      beaten |-> FALSE ]

(* next is nextIdx; winner is 0 until a result wins; ttft is whether       *)
(* ttft_timeout is positive, so that a 2xx is probed.                      *)
RaceTypeOK ==
    /\ race \in [pc : {"race", "settle", "charge", "cancel", "serve", "retry",
                       "answered", "over"},
                 next : 1..(NumCandidates + 1), winner : 0..NumCandidates,
                 settled : SUBSET Candidates, ttft : BOOLEAN]
    /\ probe \in [Candidates -> Probe]
    /\ results \in Seq(Candidates) /\ Len(results) <= NumCandidates
    /\ trail \in [Candidates -> Nat] /\ owed \in [Candidates -> Nat]
    /\ drain \in 0..NumCandidates /\ left \in BOOLEAN

launch(ps, i) == [ps EXCEPT ![i] = [NoProbe EXCEPT !.pc = "admit"]]

RaceInit ==
    /\ race \in [pc : {"race"}, next : {2}, winner : {0}, settled : {{}}, ttft : BOOLEAN]
    /\ probe = launch([i \in Candidates |-> NoProbe], 1)
    /\ results = <<>> /\ drain = 0 /\ left = FALSE
    /\ trail = [i \in Candidates |-> 0] /\ owed = [i \in Candidates |-> 0]

-----------------------------------------------------------------------------
(* The attempt's context and slot.                                         *)

Launched     == {i \in Candidates : probe[i].pc # "none"}
InFlight     == Launched \ race.settled
Cancelled(i) == probe[i].ctx # "live" \/ left

(* A cancellation is the client's unless the orchestrator has flagged the  *)
(* attempt.  A probe that ends is asked this even when its context expired.*)
hedgeAbandonKind(i) ==
    IF probe[i].superseded THEN "hedge_superseded" ELSE "client_disconnect"

(* A deadline that failed the send names itself. *)
resolveCancelOrigin(i) ==
    IF probe[i].ctx = "expired" THEN "failover_timeout" ELSE hedgeAbandonKind(i)

settle(p, outcome) == IF p.slot = "held" THEN [p EXCEPT !.slot = outcome] ELSE p

(* Close of a body that carries the slot: it settles nothing while the     *)
(* verdict is held.                                                        *)
closeBody(p, outcome) ==
    LET q == [p EXCEPT !.body = "closed"]
    IN  IF p.hold THEN q ELSE settle(q, outcome)

(* Mutant: the close alone is taken to release the slot. *)
AbandonOnlyCloses(p) == closeBody(p, "clean")

abandonHedgeWin(p) == settle(closeBody(p, "clean"), "neutral")

(* A result is ready; how it failed is no longer told apart.               *)
Answer(p) == [p EXCEPT !.pc = "deliver", !.err = "none", !.late = FALSE]

-----------------------------------------------------------------------------
(* probeStreamingCandidate, in the probe's goroutine.                      *)

Step(i, p) == probe' = [probe EXCEPT ![i] = p] /\ UNCHANGED <<race, results, trail, owed, drain, left>>

admitCandidate(i) ==
    /\ probe[i].pc = "admit"
    /\ \/ Step(i, Answer([probe[i] EXCEPT !.busy = TRUE]))
       \/ Step(i, [probe[i] EXCEPT !.slot = "held", !.pc = "build"])

buildCandidateRequest(i) ==
    /\ probe[i].pc = "build"
    /\ \/ Step(i, Answer(settle(probe[i], "neutral")))
       \/ Step(i, [probe[i] EXCEPT !.pc = "sent"])

(* No usable response: an abandoned request is nobody's fault, anything    *)
(* else is the provider's.                                                 *)
doUpstreamFails(i) ==
    /\ probe[i].pc = "sent"
    /\ LET p == probe[i]
           abandoned == resolveCancelOrigin(i) # "failover_timeout"
       IN  \/ Step(i, Answer([settle(p, "unclean") EXCEPT !.faulted = TRUE]))
           \/ /\ Cancelled(i)
              /\ Step(i, Answer([settle(p, IF abandoned THEN "neutral" ELSE "unclean")
                                   EXCEPT !.faulted = ~abandoned,
                                          !.beaten = race.winner # 0 /\ p.ctx = "cancelled"]))

(* A refusal is drained and closed, which settles its slot; a 2xx leaves   *)
(* the body open.  Whether a refusal is charged is the breaker's judgement.*)
doUpstreamAnswers(i) ==
    /\ probe[i].pc = "sent"
    /\ \/ \E charge \in BOOLEAN :
            Step(i, Answer([closeBody(probe[i], "unclean") EXCEPT !.faulted = charge]))
       \/ Step(i, [probe[i] EXCEPT !.body = "open", !.pc = "took"])

(* The provider took the request on: its prompt is billed and the slot     *)
(* waits for an explicit verdict.                                          *)
TakesOn(i) ==
    /\ probe[i].pc = "took"
    /\ Step(i, [probe[i] EXCEPT !.billed = TRUE, !.hold = TRUE,
                                !.pc = IF race.ttft THEN "probing" ELSE "commit"])

(* The goroutine of probeFirstToken that closes the body at the deadline   *)
(* or the cancellation, unless the probe has claimed it.                   *)
probeDeadline(i) ==
    /\ probe[i].pc = "probing" /\ probe[i].body = "open"
    /\ \E late \in {b \in BOOLEAN : b \/ Cancelled(i)} :
         Step(i, [closeBody(probe[i], "clean") EXCEPT !.late = late])

(* Mutant: a flag set after the token instead of a claim. *)
KeepUnclaimed(p) == TRUE

keepBody(p) == p.body = "open"

(* The scan ends: with a token, with the provider's own failure, or cut.   *)
probeFirstToken(i) ==
    /\ probe[i].pc = "probing"
    /\ LET p == probe[i]
           cut == [p EXCEPT !.pc = "failed", !.err = "cut",
                            !.beaten = /\ race.winner # 0 /\ p.ctx = "cancelled"
                                       /\ ~p.late /\ p.body = "closed"]
       IN  \/ Step(i, IF keepBody(p)
                      THEN [p EXCEPT !.body = IF @ = "open" THEN "kept" ELSE @, !.pc = "commit"]
                      ELSE cut)
           \/ \E e \in {"frame", "empty"} : Step(i, [p EXCEPT !.pc = "failed", !.err = e])
           \/ Step(i, cut)

(* The failed probe closes the body and takes the billing back for an      *)
(* error frame, streamPromptBilled.                                        *)
ProbeFailed(i) ==
    /\ probe[i].pc = "failed"
    /\ Step(i, [closeBody(probe[i], "clean")
                  EXCEPT !.billed = probe[i].err # "frame", !.pc = "classify"])

probeAnsweredByProvider(p) == p.err \in {"frame", "empty"}

(* Neutral for an attempt the race abandoned, and for a caller who left    *)
(* before the stall floor.                                                 *)
classifyProbeError(i) ==
    /\ probe[i].pc = "classify"
    /\ LET p        == probe[i]
           answered == probeAnsweredByProvider(p)
           lost     == ~answered /\ Cancelled(i)
                         /\ hedgeAbandonKind(i) = "hedge_superseded"
       IN  \E early \in BOOLEAN :
             LET blameless == lost \/ (~answered /\ Cancelled(i) /\ early)
             IN  Step(i, Answer([settle(p, IF blameless THEN "neutral" ELSE "unclean")
                                   EXCEPT !.faulted = ~blameless]))

(* The context is looked at once more before a win is handed over.         *)
commitHedgeWin(i) ==
    /\ probe[i].pc = "commit"
    /\ Step(i, Answer(IF Cancelled(i) THEN abandonHedgeWin(probe[i])
                      ELSE [probe[i] EXCEPT !.won = TRUE]))

deliverResult(i) ==
    /\ probe[i].pc = "deliver"
    /\ probe' = [probe EXCEPT ![i].pc = "done"]
    /\ results' = Append(results, i)
    /\ UNCHANGED <<race, trail, owed, drain, left>>

ProbeStep(i) ==
    \/ admitCandidate(i) \/ buildCandidateRequest(i)
    \/ doUpstreamFails(i) \/ doUpstreamAnswers(i) \/ TakesOn(i)
    \/ probeDeadline(i) \/ probeFirstToken(i) \/ ProbeFailed(i)
    \/ classifyProbeError(i) \/ commitHedgeWin(i) \/ deliverResult(i)

-----------------------------------------------------------------------------
(* runHedgedStreaming, the orchestrator's select loop.                     *)

(* Mutant: nothing remembers what was charged. *)
ChargeAgain(I) == [i \in Candidates |->
    owed[i] + IF i \in I /\ probe[i].billed THEN 1 ELSE 0]

(* charge: a launch billed and not charged yet owes its prompt once.       *)
charge(I) == [i \in Candidates |->
    owed[i] + IF i \in I /\ probe[i].billed /\ owed[i] = 0 THEN 1 ELSE 0]

record(I) == [i \in Candidates |-> trail[i] + IF i \in I THEN 1 ELSE 0]

HasNext == race.next <= NumCandidates

ResultWins ==
    /\ race.pc = "race" /\ results # <<>> /\ probe[Head(results)].won
    /\ race' = [race EXCEPT !.pc = "settle", !.winner = Head(results),
                            !.settled = @ \cup {Head(results)}]
    /\ results' = Tail(results)
    /\ UNCHANGED <<probe, trail, owed, drain, left>>

(* A loser is recorded and charged, and frees the way for the next         *)
(* candidate; the last one ends the race.                                  *)
ResultLoses ==
    /\ race.pc = "race" /\ results # <<>> /\ ~probe[Head(results)].won
    /\ LET i == Head(results)
           settled == race.settled \cup {i}
           spent == ~HasNext /\ Launched \subseteq settled
           busy  == {j \in settled : probe[j].busy}
       IN  /\ race' = [race EXCEPT
                !.settled = settled,
                !.next = IF HasNext THEN @ + 1 ELSE @,
                !.pc = IF ~spent THEN "race" ELSE IF busy # {} THEN "retry" ELSE "answered"]
           /\ probe' = IF HasNext THEN launch(probe, race.next) ELSE probe
           /\ trail' = record({i}) /\ owed' = charge({i})
    /\ results' = Tail(results)
    /\ UNCHANGED <<drain, left>>

(* Mutant: the timer outlives the decision. *)
TimerUnstopped ==
    /\ race.pc # "over" /\ HasNext
    /\ race' = [race EXCEPT !.next = @ + 1]
    /\ probe' = launch(probe, race.next)
    /\ UNCHANGED <<results, trail, owed, drain, left>>

hedgeTimer ==
    /\ race.pc = "race" /\ HasNext
    /\ race' = [race EXCEPT !.next = @ + 1]
    /\ probe' = launch(probe, race.next)
    /\ UNCHANGED <<results, trail, owed, drain, left>>

(* The overall deadline passes, or the request's context is done.          *)
RaceAbandoned ==
    /\ race.pc = "race"
    /\ race' = [race EXCEPT !.pc = "settle"]
    /\ UNCHANGED <<probe, results, trail, owed, drain, left>>

-----------------------------------------------------------------------------
(* The exits.                                                              *)

(* Mutant: a queued result is not marked settled. *)
SettleForgets ==
    /\ race.pc = "settle" /\ results # <<>>
    /\ LET i == Head(results)
       IN  /\ probe' = IF probe[i].won THEN [probe EXCEPT ![i] = abandonHedgeWin(@)] ELSE probe
           /\ trail' = record({i})
    /\ results' = Tail(results)
    /\ UNCHANGED <<race, owed, drain, left>>

(* settleHedgeLaunches: results already queued are recorded from their own *)
(* verdict, and a queued win is released.                                  *)
settleQueued ==
    /\ race.pc = "settle" /\ results # <<>>
    /\ LET i == Head(results)
       IN  /\ race' = [race EXCEPT !.settled = @ \cup {i}]
           /\ probe' = IF probe[i].won THEN [probe EXCEPT ![i] = abandonHedgeWin(@)] ELSE probe
           /\ trail' = record({i})
    /\ results' = Tail(results)
    /\ UNCHANGED <<owed, drain, left>>

(* ... and the launches that have not answered are recorded as abandoned.  *)
settleInFlight ==
    /\ race.pc = "settle" /\ results = <<>>
    /\ race' = [race EXCEPT !.pc = "charge"]
    /\ trail' = record(InFlight)
    /\ UNCHANGED <<probe, results, owed, drain, left>>

(* chargeAllBut reads the billed flags as they stand.  Without a winner    *)
(* the background drain starts here and the request is failed.             *)
chargeAllBut ==
    /\ race.pc = "charge"
    /\ owed' = charge(Launched \ {race.winner})
    /\ race' = [race EXCEPT !.pc = IF race.winner # 0 THEN "cancel" ELSE "answered"]
    /\ drain' = IF race.winner # 0 THEN 0 ELSE Cardinality(InFlight)
    /\ UNCHANGED <<probe, results, trail, left>>

(* cancelExcept takes the losers in turn: it flags one, then cancels it.   *)
NotYet == {i \in Launched \ {race.winner} : ~probe[i].superseded \/ probe[i].ctx = "live"}

(* Mutant: cancelled first, flagged after. *)
CancelThenFlag(p) ==
    IF p.ctx = "live" THEN [p EXCEPT !.ctx = "cancelled"] ELSE [p EXCEPT !.superseded = TRUE]

cancelOne(p) ==
    IF ~p.superseded THEN [p EXCEPT !.superseded = TRUE] ELSE [p EXCEPT !.ctx = "cancelled"]

cancelExcept ==
    /\ race.pc = "cancel"
    /\ \E i \in NotYet :
         /\ \A k \in NotYet : i <= k
         /\ probe' = [probe EXCEPT ![i] = cancelOne(@)]
    /\ UNCHANGED <<race, results, trail, owed, drain, left>>

startServing ==
    /\ race.pc = "cancel" /\ NotYet = {}
    /\ race' = [race EXCEPT !.pc = "serve"]
    /\ drain' = Cardinality(InFlight)
    /\ UNCHANGED <<probe, results, trail, owed, left>>

(* The winner's record opens; its stream ends however it ends, and the     *)
(* finalizer's verdict settles the slot.                                   *)
serveHedgeWinner ==
    /\ race.pc = "serve"
    /\ trail' = record({race.winner})
    /\ \E o \in {"clean", "unclean", "neutral"} :
         probe' = [probe EXCEPT ![race.winner] = settle(closeBody(@, "clean"), o)]
    /\ race' = [race EXCEPT !.pc = "answered"]
    /\ UNCHANGED <<results, owed, drain, left>>

(* InflightLimiter's walk over the busy candidates ends somehow.  The      *)
(* sequential attempt it makes opens a record of its own, beside the       *)
(* race's that trail counts.                                               *)
retryAfterSlotFrees ==
    /\ race.pc = "retry"
    /\ race' = [race EXCEPT !.pc = "answered"]
    /\ UNCHANGED <<probe, results, trail, owed, drain, left>>

(* The deferred calls: every context still live is cancelled, unflagged.   *)
returnFromRace ==
    /\ race.pc = "answered"
    /\ race' = [race EXCEPT !.pc = "over"]
    /\ probe' = [i \in Candidates |->
         IF i \in Launched /\ probe[i].ctx = "live"
         THEN [probe[i] EXCEPT !.ctx = "cancelled"] ELSE probe[i]]
    /\ UNCHANGED <<results, trail, owed, drain, left>>

drainHedgeResults ==
    /\ drain > 0 /\ results # <<>>
    /\ LET i == Head(results)
       IN  probe' = IF probe[i].won THEN [probe EXCEPT ![i] = abandonHedgeWin(@)] ELSE probe
    /\ results' = Tail(results) /\ drain' = drain - 1
    /\ UNCHANGED <<race, trail, owed, left>>

Orchestrate ==
    \/ ResultWins \/ ResultLoses \/ settleQueued \/ settleInFlight \/ chargeAllBut
    \/ cancelExcept \/ startServing \/ serveHedgeWinner \/ retryAfterSlotFrees
    \/ returnFromRace

-----------------------------------------------------------------------------
(* The world outside.                                                      *)

ClientLeaves ==
    /\ race.pc # "over" /\ ~left /\ left' = TRUE
    /\ UNCHANGED <<race, probe, results, trail, owed, drain>>

(* The attempt's own budget, failoverTimeout, runs out.                    *)
AttemptExpires(i) ==
    /\ probe[i].pc \in ProbePCs \ {"none", "done"} /\ ~Cancelled(i)
    /\ Step(i, [probe[i] EXCEPT !.ctx = "expired"])

(* Everything has been answered, drained and released.                     *)
Finished ==
    /\ race.pc = "over" /\ drain = 0
    /\ \A i \in Launched : probe[i].pc = "done"

RaceNext ==
    \/ \E i \in Candidates : ProbeStep(i) \/ AttemptExpires(i)
    \/ Orchestrate \/ hedgeTimer \/ RaceAbandoned \/ drainHedgeResults \/ ClientLeaves
    \/ Finished /\ UNCHANGED hedge

RaceSpec == RaceInit /\ [][RaceNext]_hedge

(* A probe's every wait is under its context's timeout, the race's under   *)
(* the overall deadline, and goroutines run.                               *)
FairRaceSpec ==
    /\ RaceSpec
    /\ \A i \in Candidates : WF_hedge(ProbeStep(i))
    /\ WF_hedge(Orchestrate) /\ WF_hedge(RaceAbandoned) /\ WF_hedge(drainHedgeResults)

-----------------------------------------------------------------------------
(* Properties.                                                             *)

(* Once the race is decided every launch, and no other candidate, has      *)
(* exactly one record in the attempt trail, whether its result was read,   *)
(* found queued, or had not come yet (hedging.go:567-585).  The winner's   *)
(* opens as it is served.                                                  *)
TrailNamesEveryLaunch ==
    race.pc \in {"charge", "cancel", "retry", "answered", "over"} =>
      \A i \in Candidates :
        i = race.winner \/ trail[i] = IF i \in Launched THEN 1 ELSE 0

(* A launch that took the request and did not serve is charged its prompt  *)
(* exactly once if its result had come when the race was decided, and      *)
(* never more than once; the one served is not charged (hedging.go:293).   *)
PromptChargedOnce ==
    /\ \A i \in Candidates : owed[i] <= 1 /\ (i = race.winner => owed[i] = 0)
    /\ race.pc \in {"cancel", "serve", "retry", "answered", "over"} =>
         \A i \in race.settled \ {race.winner} : owed[i] = IF probe[i].billed THEN 1 ELSE 0

(* A launch cut because another won is never charged to its provider's     *)
(* breaker, however long it had been silent (hedging.go:513, doUpstream).  *)
LosingIsNoFault ==
    \A i \in Candidates : probe[i].beaten => ~probe[i].faulted

(* The response handed to the client is open, unsettled and was never      *)
(* closed under it by the probe's own deadline (proxy.go:435); and no      *)
(* other launch ever grows its provider's window.                          *)
WinnerUncut ==
    /\ race.winner # 0 /\ race.pc \notin {"answered", "over"} =>
         probe[race.winner].body \in {"open", "kept"} /\ probe[race.winner].slot = "held"
    /\ \A i \in Candidates \ {race.winner} : probe[i].slot # "clean"

(* Seen from the client, the request log and the bill, the orchestrator    *)
(* and its probes keep one ledger: launches in order and none after the    *)
(* decision, one answer, and by then one record per launch and no prompt   *)
(* charged twice (hedging.go:293, hedging.go:567-585).                     *)
Stage ==
    IF race.pc = "race" THEN "open"
    ELSE IF race.pc \in {"answered", "over"} THEN "answered" ELSE "decided"

Ledger == INSTANCE RaceLedger WITH
    stage    <- Stage,
    launched <- race.next - 1,
    winner   <- race.winner,
    records  <- trail,
    charges  <- owed

RaceLedgerSpec == Ledger!LedgerSpec

(* The request is answered, and every launch ends with its connection      *)
(* closed and its slot given back, in whatever order results, ticks,       *)
(* deadline and hang-up come (hedging.go:611, inflightRelease).            *)
EveryLaunchReleased ==
    <>(/\ Finished /\ results = <<>>
       /\ \A i \in Launched : probe[i].slot # "held" /\ probe[i].body \in {"none", "closed"})

=============================================================================
