-------------------------- MODULE HedgedRaceProofs --------------------------
(***************************************************************************)
(* A hedged race of any number of candidates: its trail, its charges, its  *)
(* blame and the response it hands over.                                   *)
(***************************************************************************)
EXTENDS HedgedRace, FiniteSetTheorems, TLAPS

Over == {"cancel", "serve", "retry", "answered", "over"}

RaceState ==
    [pc : {"race", "settle", "charge", "cancel", "serve", "retry", "answered", "over"},
     next : 1..(NumCandidates + 1), winner : 0..NumCandidates,
     settled : SUBSET Candidates, ttft : BOOLEAN]

(* A win in hand: nobody has closed it or settled its slot. *)
Uncut(p) == p.slot = "held" /\ p.body \in {"open", "kept"} /\ p.hold

(* What a probe alone is known to be. *)
ProbeOK(p) ==
    /\ p \in Probe
    /\ p.pc = "admit" => ~p.hold
    /\ p.pc \in {"build", "sent", "took"} => p.slot = "held" /\ ~p.hold
    /\ p.pc = "took" => p.body = "open"
    /\ p.pc \in {"probing", "failed", "classify"} => p.slot = "held" /\ p.hold
    /\ p.pc = "commit" => Uncut(p)
    /\ p.pc = "deliver" /\ p.won => Uncut(p)
    /\ p.won => p.pc \in {"deliver", "done"} /\ p.hold
    /\ p.faulted => p.pc \in {"deliver", "done"} /\ ~p.beaten
    /\ p.beaten => \/ p.pc \in {"deliver", "done"}
                   \/ /\ p.pc \in {"failed", "classify"} /\ p.err = "cut"
                      /\ p.ctx = "cancelled" /\ p.superseded

ProbesOK ==
    /\ probe \in [Candidates -> Probe]
    /\ \A i \in Candidates : ProbeOK(probe[i])
    /\ \A i \in Candidates : probe[i].pc # "none" <=> i < race.next

OrchestratorOK ==
    /\ race \in RaceState
    /\ \A i \in race.settled : probe[i].pc = "done"
    /\ race.winner # 0 => race.winner \in race.settled /\ race.pc # "race"
    /\ race.pc \in {"cancel", "serve"} => race.winner # 0
    /\ race.pc = "retry" => race.winner = 0

(* What waits in the channel waits once, and was not settled before. *)
ResultsOK ==
    /\ results \in Seq(Candidates)
    /\ \A k \in 1..Len(results) :
         /\ probe[results[k]].pc = "done" /\ results[k] \notin race.settled
         /\ probe[results[k]].won => Uncut(probe[results[k]])
    /\ \A k, l \in 1..Len(results) : results[k] = results[l] => k = l

WinnerOK ==
    /\ race.winner # 0 /\ race.pc \notin {"answered", "over"} => Uncut(probe[race.winner])
    /\ \A i \in Candidates : probe[i].slot = "clean" => i = race.winner

(* Only the race's own end cancels an attempt, and once there is a winner  *)
(* every loser is flagged before it is cancelled.                          *)
CancelOK ==
    /\ \A i \in Candidates : probe[i].ctx = "cancelled" =>
         /\ race.pc \in {"cancel", "serve", "answered", "over"}
         /\ race.winner = 0 \/ i = race.winner \/ probe[i].superseded
    /\ race.pc \in {"serve", "answered", "over"} /\ race.winner # 0 =>
         \A i \in Candidates : i < race.next /\ i # race.winner =>
             probe[i].superseded /\ probe[i].ctx # "live"

TrailOK ==
    /\ trail \in [Candidates -> Nat]
    /\ race.pc \in {"race", "settle"} =>
         \A i \in Candidates : trail[i] = IF i \in race.settled \ {race.winner} THEN 1 ELSE 0
    /\ race.pc \in {"charge"} \cup Over =>
         \A i \in Candidates : i = race.winner \/ trail[i] = IF i < race.next THEN 1 ELSE 0

(* Before the charge, what was charged was charged for a read result. *)
OwedOK ==
    /\ owed \in [Candidates -> 0..1]
    /\ race.winner # 0 => owed[race.winner] = 0
    /\ race.pc \in {"race", "settle", "charge"} =>
         \A i \in Candidates : owed[i] = 1 => i \in race.settled /\ probe[i].billed
    /\ race.pc \in {"race"} \cup Over =>
         \A i \in race.settled \ {race.winner} : owed[i] = IF probe[i].billed THEN 1 ELSE 0

DrainOK == drain \in 0..NumCandidates /\ left \in BOOLEAN

(* The inductive invariant. *)
IInv ==
    /\ ProbesOK /\ OrchestratorOK /\ ResultsOK /\ WinnerOK /\ CancelOK
    /\ TrailOK /\ OwedOK /\ DrainOK
-----------------------------------------------------------------------------
(***************************************************************************)
(* What settling, closing and answering leave of a probe.                  *)
(***************************************************************************)

(* The same but for its slot and its body. *)
Same(p, q) ==
    /\ q.pc = p.pc /\ q.ctx = p.ctx /\ q.superseded = p.superseded /\ q.billed = p.billed
    /\ q.hold = p.hold /\ q.late = p.late /\ q.err = p.err /\ q.won = p.won /\ q.busy = p.busy
    /\ q.faulted = p.faulted /\ q.beaten = p.beaten

Outcome == {"clean", "unclean", "neutral"}

LEMMA Settles ==
    ASSUME NEW p \in Probe, NEW o \in Outcome
    PROVE  /\ settle(p, o) \in Probe /\ Same(p, settle(p, o)) /\ settle(p, o).body = p.body
           /\ settle(p, o).slot = IF p.slot = "held" THEN o ELSE p.slot
  BY DEF settle, Probe, Same, Outcome

LEMMA Closes ==
    ASSUME NEW p \in Probe, NEW o \in Outcome
    PROVE  /\ closeBody(p, o) \in Probe /\ Same(p, closeBody(p, o)) /\ closeBody(p, o).body = "closed"
           /\ closeBody(p, o).slot = IF p.slot = "held" /\ ~p.hold THEN o ELSE p.slot
  <1>. DEFINE q == [p EXCEPT !.body = "closed"]
  <1>1. q \in Probe /\ Same(p, q) /\ q.body = "closed" /\ q.slot = p.slot
    BY DEF Probe, Same
  <1>2. closeBody(p, o) = IF p.hold THEN q ELSE settle(q, o)
    BY DEF closeBody
  <1>. HIDE DEF q
  <1>3. settle(q, o) \in Probe /\ Same(q, settle(q, o)) /\ settle(q, o).body = q.body
        /\ settle(q, o).slot = IF q.slot = "held" THEN o ELSE q.slot
    BY <1>1, Settles
  <1>4. CASE p.hold
    BY <1>1, <1>2, <1>4
  <1>5. CASE ~p.hold
    BY <1>1, <1>2, <1>3, <1>5 DEF Same
  <1>. QED BY <1>4, <1>5

(* A verdict held is not given away by the close. *)
LEMMA Abandons ==
    ASSUME NEW p \in Probe, p.hold
    PROVE  /\ abandonHedgeWin(p) \in Probe /\ Same(p, abandonHedgeWin(p))
           /\ abandonHedgeWin(p).slot = IF p.slot = "held" THEN "neutral" ELSE p.slot
  <1>1. "clean" \in Outcome /\ "neutral" \in Outcome
    BY DEF Outcome
  <1>2. closeBody(p, "clean") \in Probe /\ Same(p, closeBody(p, "clean"))
        /\ closeBody(p, "clean").slot = p.slot
    BY <1>1, Closes
  <1>. QED BY <1>1, <1>2, Settles DEF abandonHedgeWin, Same

LEMMA Answers ==
    ASSUME NEW p \in Probe
    PROVE  /\ Answer(p) \in Probe /\ Answer(p).pc = "deliver"
           /\ Answer(p).ctx = p.ctx /\ Answer(p).superseded = p.superseded
           /\ Answer(p).slot = p.slot /\ Answer(p).hold = p.hold /\ Answer(p).body = p.body
           /\ Answer(p).won = p.won /\ Answer(p).faulted = p.faulted /\ Answer(p).beaten = p.beaten
  <1>1. ASSUME NEW b \in BOOLEAN
        PROVE  /\ [p EXCEPT !.pc = "deliver", !.err = "none", !.late = b] \in Probe
    BY DEF Probe, ProbePCs
  <1>2. Answer(p) \in Probe
    BY <1>1 DEF Answer
  <1>. QED BY <1>2 DEF Answer, Probe

(* A probe that won nothing yet answers. *)
LEMMA AnswersLost ==
    ASSUME NEW p \in Probe, ~p.won, p.faulted => ~p.beaten
    PROVE  ProbeOK(Answer(p)) /\ Answer(p).pc = "deliver" /\ Answer(p).slot = p.slot
           /\ Answer(p).ctx = p.ctx /\ Answer(p).superseded = p.superseded
  BY Answers DEF ProbeOK

-----------------------------------------------------------------------------
(***************************************************************************)
(* Steps of a probe's goroutine.                                           *)
(***************************************************************************)
Moves(p, q) ==
    /\ ProbeOK(q)
    /\ p.pc \notin {"none", "done"} /\ q.pc \notin {"none", "done"}
    /\ q.slot # "clean" /\ q.superseded = p.superseded
    /\ q.ctx = p.ctx \/ (p.ctx = "live" /\ q.ctx = "expired")

LEMMA ProbeFacts ==
    ASSUME IInv, NEW i \in Candidates
    PROVE  /\ ProbeOK(probe[i]) /\ probe[i] \in Probe
           /\ probe[i].pc # "done" => probe[i].slot # "clean" /\ i # race.winner /\ i \notin race.settled
  BY DEF IInv, ProbesOK, ProbeOK, WinnerOK, OrchestratorOK, Candidates

LEMMA ProbeMoves ==
    ASSUME IInv, NEW i \in Candidates, NEW q, Moves(probe[i], q), Step(i, q)
    PROVE  IInv'
  <1>. USE DEF IInv
  <1>1. probe' = [probe EXCEPT ![i] = q] /\ UNCHANGED <<race, results, trail, owed, drain, left>>
        /\ probe \in [Candidates -> Probe] /\ q \in Probe
    BY DEF Step, ProbesOK, Moves, ProbeOK
  <1>2. probe'[i] = q /\ \A j \in Candidates : j # i => probe'[j] = probe[j]
    BY <1>1
  <1>3. i # race.winner /\ i \notin race.settled /\ probe[i].pc \notin {"none", "done"}
    BY ProbeFacts DEF Moves
  <1>4. ProbesOK'
    BY <1>1, <1>2, <1>3 DEF ProbesOK, Moves
  <1>5. OrchestratorOK'
    BY <1>1, <1>2, <1>3 DEF OrchestratorOK, RaceState
  <1>6. ResultsOK'
    <2>1. \A k \in 1..Len(results) : results[k] \in Candidates /\ results[k] # i
      BY <1>3 DEF ResultsOK
    <2>. QED BY <1>1, <1>2, <2>1 DEF ResultsOK
  <1>7. WinnerOK'
    <2>1. race.winner # 0 => race.winner \in Candidates
      BY DEF OrchestratorOK, RaceState
    <2>. QED BY <1>1, <1>2, <1>3, <2>1 DEF WinnerOK, Moves
  <1>8. CancelOK'
    BY <1>1, <1>2, <1>3 DEF CancelOK, Moves
  <1>9. TrailOK'
    BY <1>1 DEF TrailOK
  <1>10. OwedOK'
    BY <1>1, <1>2, <1>3 DEF OwedOK, OrchestratorOK, RaceState
  <1>11. DrainOK'
    BY <1>1 DEF DrainOK
  <1>. QED BY <1>4, <1>5, <1>6, <1>7, <1>8, <1>9, <1>10, <1>11

LEMMA AdmitKeeps ==
    ASSUME IInv, NEW i \in Candidates, admitCandidate(i)
    PROVE  IInv'
  <1>. DEFINE p == probe[i]
  <1>1. ProbeOK(p) /\ p \in Probe /\ p.pc = "admit" /\ p.slot # "clean" /\ ~p.won /\ ~p.faulted
    BY ProbeFacts DEF admitCandidate, ProbeOK
  <1>. HIDE DEF p
  <1>2. ASSUME NEW b \in BOOLEAN
        PROVE  Moves(p, Answer([p EXCEPT !.busy = b]))
    <2>. DEFINE r == [p EXCEPT !.busy = b]
    <2>1. r \in Probe /\ ~r.won /\ ~r.faulted /\ r.slot = p.slot /\ r.ctx = p.ctx
          /\ r.superseded = p.superseded
      BY <1>1 DEF Probe
    <2>. HIDE DEF r
    <2>2. Moves(p, Answer(r))
      BY <1>1, <2>1, AnswersLost DEF Moves
    <2>. QED BY <2>2 DEF r
  <1>3. Moves(p, [p EXCEPT !.slot = "held", !.pc = "build"])
    BY <1>1 DEF Moves, ProbeOK, Probe, ProbePCs, Uncut
  <1>4. TRUE \in BOOLEAN
    OBVIOUS
  <1>. QED BY <1>2, <1>3, <1>4, ProbeMoves DEF p, admitCandidate

LEMMA BuildKeeps ==
    ASSUME IInv, NEW i \in Candidates, buildCandidateRequest(i)
    PROVE  IInv'
  <1>. DEFINE p == probe[i]
  <1>1. ProbeOK(p) /\ p \in Probe /\ p.pc = "build" /\ p.slot = "held" /\ ~p.won /\ ~p.faulted
    BY ProbeFacts DEF buildCandidateRequest, ProbeOK
  <1>. HIDE DEF p
  <1>2. Moves(p, Answer(settle(p, "neutral")))
    BY <1>1, Settles, AnswersLost DEF Moves, Same, Outcome
  <1>3. Moves(p, [p EXCEPT !.pc = "sent"])
    BY <1>1 DEF Moves, ProbeOK, Probe, ProbePCs, Uncut
  <1>. QED BY <1>2, <1>3, ProbeMoves DEF p, buildCandidateRequest

(* A launch that another one beat while it waited for its answer. *)
LEMMA FailsKeeps ==
    ASSUME IInv, NEW i \in Candidates, doUpstreamFails(i)
    PROVE  IInv'
  <1>. DEFINE p == probe[i]
              abandoned == resolveCancelOrigin(i) # "failover_timeout"
              beaten == race.winner # 0 /\ p.ctx = "cancelled"
              out == IF abandoned THEN "neutral" ELSE "unclean"
  <1>1. ProbeOK(p) /\ p \in Probe /\ p.pc = "sent" /\ p.slot = "held" /\ ~p.won /\ ~p.faulted /\ ~p.beaten
    BY ProbeFacts DEF doUpstreamFails, ProbeOK
  <1>2. beaten => abandoned
    BY DEF resolveCancelOrigin, hedgeAbandonKind
  <1>3. abandoned \in BOOLEAN /\ beaten \in BOOLEAN /\ out \in {"neutral", "unclean"}
    OBVIOUS
  <1>4. \/ Step(i, Answer([settle(p, "unclean") EXCEPT !.faulted = TRUE]))
        \/ Step(i, Answer([settle(p, out) EXCEPT !.faulted = ~abandoned, !.beaten = beaten]))
    BY DEF doUpstreamFails
  <1>. HIDE DEF p, abandoned, beaten, out
  <1>5. ASSUME NEW o \in {"neutral", "unclean"}, NEW f \in BOOLEAN
        PROVE  Moves(p, Answer([settle(p, o) EXCEPT !.faulted = f]))
    <2>. DEFINE s == settle(p, o)
                r == [s EXCEPT !.faulted = f]
    <2>1. s \in Probe /\ Same(p, s) /\ s.slot = o
      BY <1>1, Settles DEF Outcome
    <2>. HIDE DEF s
    <2>2. r \in Probe /\ ~r.won /\ ~r.beaten /\ r.slot = o /\ r.ctx = p.ctx /\ r.superseded = p.superseded
      BY <1>1, <2>1 DEF Probe, Same
    <2>. HIDE DEF r
    <2>3. Moves(p, Answer(r))
      BY <1>1, <2>2, AnswersLost DEF Moves
    <2>. QED BY <2>3 DEF r, s
  <1>6. ASSUME NEW o \in {"neutral", "unclean"}, NEW f \in BOOLEAN, NEW b \in BOOLEAN, b => ~f
        PROVE  Moves(p, Answer([settle(p, o) EXCEPT !.faulted = f, !.beaten = b]))
    <2>. DEFINE s == settle(p, o)
                r == [s EXCEPT !.faulted = f, !.beaten = b]
    <2>1. s \in Probe /\ Same(p, s) /\ s.slot = o
      BY <1>1, Settles DEF Outcome
    <2>. HIDE DEF s
    <2>2. r \in Probe /\ ~r.won /\ (r.faulted => ~r.beaten) /\ r.slot = o /\ r.ctx = p.ctx
          /\ r.superseded = p.superseded
      BY <1>1, <1>6, <2>1 DEF Probe, Same
    <2>. HIDE DEF r
    <2>3. Moves(p, Answer(r))
      BY <1>1, <2>2, AnswersLost DEF Moves
    <2>. QED BY <2>3 DEF r, s
  <1>7. Moves(p, Answer([settle(p, "unclean") EXCEPT !.faulted = TRUE]))
    BY <1>5
  <1>8. Moves(p, Answer([settle(p, out) EXCEPT !.faulted = ~abandoned, !.beaten = beaten]))
    <2>1. (~abandoned) \in BOOLEAN
      BY <1>3
    <2>. QED BY <1>2, <1>3, <1>6, <2>1
  <1>. QED BY <1>4, <1>7, <1>8, ProbeMoves DEF p

LEMMA AnswersKeeps ==
    ASSUME IInv, NEW i \in Candidates, doUpstreamAnswers(i)
    PROVE  IInv'
  <1>. DEFINE p == probe[i]
  <1>1. ProbeOK(p) /\ p \in Probe /\ p.pc = "sent" /\ p.slot = "held" /\ ~p.hold
        /\ ~p.won /\ ~p.faulted /\ ~p.beaten
    BY ProbeFacts DEF doUpstreamAnswers, ProbeOK
  <1>. HIDE DEF p
  <1>2. ASSUME NEW f \in BOOLEAN
        PROVE  Moves(p, Answer([closeBody(p, "unclean") EXCEPT !.faulted = f]))
    <2>. DEFINE s == closeBody(p, "unclean")
                r == [s EXCEPT !.faulted = f]
    <2>1. s \in Probe /\ Same(p, s) /\ s.slot = "unclean"
      BY <1>1, Closes DEF Outcome
    <2>. HIDE DEF s
    <2>2. r \in Probe /\ ~r.won /\ ~r.beaten /\ r.slot = "unclean" /\ r.ctx = p.ctx
          /\ r.superseded = p.superseded
      BY <1>1, <2>1 DEF Probe, Same
    <2>. HIDE DEF r
    <2>3. Moves(p, Answer(r))
      BY <1>1, <2>2, AnswersLost DEF Moves
    <2>. QED BY <2>3 DEF r, s
  <1>3. Moves(p, [p EXCEPT !.body = "open", !.pc = "took"])
    BY <1>1 DEF Moves, ProbeOK, Probe, ProbePCs, Uncut
  <1>. QED BY <1>2, <1>3, ProbeMoves DEF p, doUpstreamAnswers

LEMMA TakesOnKeeps ==
    ASSUME IInv, NEW i \in Candidates, TakesOn(i)
    PROVE  IInv'
  <1>. DEFINE p == probe[i]
  <1>1. ProbeOK(p) /\ p \in Probe /\ p.pc = "took" /\ p.slot = "held" /\ p.body = "open"
        /\ ~p.won /\ ~p.faulted /\ ~p.beaten
    BY ProbeFacts DEF TakesOn, ProbeOK
  <1>2. (IF race.ttft THEN "probing" ELSE "commit") \in {"probing", "commit"}
    OBVIOUS
  <1>3. Step(i, [p EXCEPT !.billed = TRUE, !.hold = TRUE,
                          !.pc = IF race.ttft THEN "probing" ELSE "commit"])
    BY DEF TakesOn
  <1>. HIDE DEF p
  <1>4. ASSUME NEW b \in BOOLEAN, b, NEW pc \in {"probing", "commit"}
        PROVE  Moves(p, [p EXCEPT !.billed = b, !.hold = b, !.pc = pc])
    BY <1>1, <1>4 DEF Moves, ProbeOK, Probe, ProbePCs, Uncut
  <1>5. Moves(p, [p EXCEPT !.billed = TRUE, !.hold = TRUE,
                           !.pc = IF race.ttft THEN "probing" ELSE "commit"])
    BY <1>2, <1>4
  <1>. QED BY <1>3, <1>5, ProbeMoves DEF p

LEMMA DeadlineKeeps ==
    ASSUME IInv, NEW i \in Candidates, probeDeadline(i)
    PROVE  IInv'
  <1>. DEFINE p == probe[i]
  <1>1. ProbeOK(p) /\ p \in Probe /\ p.pc = "probing" /\ p.slot = "held" /\ p.hold
        /\ ~p.won /\ ~p.faulted /\ ~p.beaten
    BY ProbeFacts DEF probeDeadline, ProbeOK
  <1>2. \E b \in BOOLEAN : Step(i, [closeBody(p, "clean") EXCEPT !.late = b])
    BY DEF probeDeadline
  <1>. HIDE DEF p
  <1>3. ASSUME NEW b \in BOOLEAN
        PROVE  Moves(p, [closeBody(p, "clean") EXCEPT !.late = b])
    <2>. DEFINE s == closeBody(p, "clean")
    <2>1. s \in Probe /\ Same(p, s) /\ s.slot = "held"
      BY <1>1, Closes DEF Outcome
    <2>. HIDE DEF s
    <2>2. Moves(p, [s EXCEPT !.late = b])
      BY <1>1, <2>1 DEF Moves, ProbeOK, Probe, Same, Uncut
    <2>. QED BY <2>2 DEF s
  <1>. QED BY <1>2, <1>3, ProbeMoves DEF p

LEMMA FirstTokenKeeps ==
    ASSUME IInv, NEW i \in Candidates, probeFirstToken(i)
    PROVE  IInv'
  <1>. DEFINE p == probe[i]
              beaten == race.winner # 0 /\ p.ctx = "cancelled" /\ ~p.late /\ p.body = "closed"
              cut == [p EXCEPT !.pc = "failed", !.err = "cut", !.beaten = beaten]
  <1>1. ProbeOK(p) /\ p \in Probe /\ p.pc = "probing" /\ p.slot = "held" /\ p.hold
        /\ ~p.won /\ ~p.faulted /\ ~p.beaten
    BY ProbeFacts DEF probeFirstToken, ProbeOK
  <1>2. beaten \in BOOLEAN /\ (beaten => p.ctx = "cancelled" /\ p.superseded)
    BY ProbeFacts, <1>1 DEF IInv, CancelOK
  <1>3. \/ Step(i, cut)
        \/ p.body = "open" /\ Step(i, [p EXCEPT !.body = IF @ = "open" THEN "kept" ELSE @, !.pc = "commit"])
        \/ \E e \in {"frame", "empty"} : Step(i, [p EXCEPT !.pc = "failed", !.err = e])
    BY DEF probeFirstToken, keepBody
  <1>. HIDE DEF p, beaten
  <1>4. Moves(p, cut)
    BY <1>1, <1>2 DEF Moves, ProbeOK, Probe, ProbePCs, Uncut
  <1>5. p.body = "open" => Moves(p, [p EXCEPT !.body = IF @ = "open" THEN "kept" ELSE @, !.pc = "commit"])
    BY <1>1 DEF Moves, ProbeOK, Probe, ProbePCs, Uncut
  <1>6. \A e \in {"frame", "empty"} : Moves(p, [p EXCEPT !.pc = "failed", !.err = e])
    BY <1>1 DEF Moves, ProbeOK, Probe, ProbePCs, Uncut
  <1>. HIDE DEF cut
  <1>. QED BY <1>3, <1>4, <1>5, <1>6, ProbeMoves DEF p

LEMMA FailedKeeps ==
    ASSUME IInv, NEW i \in Candidates, ProbeFailed(i)
    PROVE  IInv'
  <1>. DEFINE p == probe[i]
              s == closeBody(p, "clean")
              b == p.err # "frame"
  <1>1. ProbeOK(p) /\ p \in Probe /\ p.pc = "failed" /\ p.slot = "held" /\ p.hold
        /\ ~p.won /\ ~p.faulted
    BY ProbeFacts DEF ProbeFailed, ProbeOK
  <1>2. Step(i, [s EXCEPT !.billed = b, !.pc = "classify"]) /\ b \in BOOLEAN
    BY DEF ProbeFailed
  <1>. HIDE DEF p
  <1>3. s \in Probe /\ Same(p, s) /\ s.slot = "held"
    BY <1>1, Closes DEF Outcome
  <1>. HIDE DEF s, b
  <1>4. Moves(p, [s EXCEPT !.billed = b, !.pc = "classify"])
    BY <1>1, <1>2, <1>3 DEF Moves, ProbeOK, Probe, ProbePCs, Same, Uncut
  <1>. QED BY <1>2, <1>4, ProbeMoves DEF p

(* A launch that another one beat while it was silent: the flag was up     *)
(* before its context was cancelled.                                       *)
LEMMA ClassifyKeeps ==
    ASSUME IInv, NEW i \in Candidates, classifyProbeError(i)
    PROVE  IInv'
  <1>. DEFINE p == probe[i]
              lost == ~probeAnsweredByProvider(p) /\ Cancelled(i)
                        /\ hedgeAbandonKind(i) = "hedge_superseded"
  <1>1. ProbeOK(p) /\ p \in Probe /\ p.pc = "classify" /\ p.slot = "held" /\ p.hold
        /\ ~p.won /\ ~p.faulted
    BY ProbeFacts DEF classifyProbeError, ProbeOK
  <1>2. p.beaten => lost
    BY <1>1 DEF ProbeOK, probeAnsweredByProvider, Cancelled, hedgeAbandonKind
  <1>3. \E bl \in BOOLEAN :
          /\ lost => bl
          /\ Step(i, Answer([settle(p, IF bl THEN "neutral" ELSE "unclean") EXCEPT !.faulted = ~bl]))
    BY DEF classifyProbeError
  <1>. HIDE DEF p, lost
  <1>4. ASSUME NEW o \in {"neutral", "unclean"}, NEW f \in BOOLEAN, p.beaten => ~f
        PROVE  Moves(p, Answer([settle(p, o) EXCEPT !.faulted = f]))
    <2>. DEFINE s == settle(p, o)
                r == [s EXCEPT !.faulted = f]
    <2>1. s \in Probe /\ Same(p, s) /\ s.slot = o
      BY <1>1, Settles DEF Outcome
    <2>. HIDE DEF s
    <2>2. r \in Probe /\ ~r.won /\ (r.faulted => ~r.beaten) /\ r.slot = o /\ r.ctx = p.ctx
          /\ r.superseded = p.superseded
      BY <1>1, <1>4, <2>1 DEF Probe, Same
    <2>. HIDE DEF r
    <2>3. Moves(p, Answer(r))
      BY <1>1, <2>2, AnswersLost DEF Moves
    <2>. QED BY <2>3 DEF r, s
  <1>5. PICK bl \in BOOLEAN :
          /\ lost => bl
          /\ Step(i, Answer([settle(p, IF bl THEN "neutral" ELSE "unclean") EXCEPT !.faulted = ~bl]))
    BY <1>3
  <1>6. (IF bl THEN "neutral" ELSE "unclean") \in {"neutral", "unclean"} /\ (~bl) \in BOOLEAN
    OBVIOUS
  <1>7. Moves(p, Answer([settle(p, IF bl THEN "neutral" ELSE "unclean") EXCEPT !.faulted = ~bl]))
    BY <1>2, <1>4, <1>5, <1>6
  <1>. QED BY <1>5, <1>7, ProbeMoves DEF p

LEMMA CommitKeeps ==
    ASSUME IInv, NEW i \in Candidates, commitHedgeWin(i)
    PROVE  IInv'
  <1>. DEFINE p == probe[i]
  <1>1. ProbeOK(p) /\ p \in Probe /\ p.pc = "commit" /\ Uncut(p) /\ ~p.won /\ ~p.faulted /\ ~p.beaten
    BY ProbeFacts DEF commitHedgeWin, ProbeOK
  <1>2. Step(i, Answer(abandonHedgeWin(p))) \/ Step(i, Answer([p EXCEPT !.won = TRUE]))
    BY DEF commitHedgeWin
  <1>. HIDE DEF p
  <1>3. Moves(p, Answer(abandonHedgeWin(p)))
    BY <1>1, Abandons, AnswersLost DEF Moves, Same, Uncut
  <1>4. ASSUME NEW b \in BOOLEAN PROVE Moves(p, Answer([p EXCEPT !.won = b]))
    <2>. DEFINE r == [p EXCEPT !.won = b]
    <2>1. r \in Probe /\ ~r.faulted /\ ~r.beaten /\ Uncut(r) /\ r.ctx = p.ctx
          /\ r.superseded = p.superseded
      BY <1>1 DEF Probe, Uncut
    <2>. HIDE DEF r
    <2>2. Moves(p, Answer(r))
      BY <1>1, <2>1, Answers DEF Moves, ProbeOK, Uncut
    <2>. QED BY <2>2 DEF r
  <1>5. TRUE \in BOOLEAN
    OBVIOUS
  <1>. QED BY <1>2, <1>3, <1>4, <1>5, ProbeMoves DEF p

LEMMA ExpiresKeeps ==
    ASSUME IInv, NEW i \in Candidates, AttemptExpires(i)
    PROVE  IInv'
  <1>. DEFINE p == probe[i]
  <1>1. ProbeOK(p) /\ p \in Probe /\ p.pc \notin {"none", "done"} /\ p.slot # "clean" /\ p.ctx = "live"
    BY ProbeFacts DEF AttemptExpires, Cancelled
  <1>2. Step(i, [p EXCEPT !.ctx = "expired"])
    BY DEF AttemptExpires
  <1>. HIDE DEF p
  <1>3. Moves(p, [p EXCEPT !.ctx = "expired"])
    BY <1>1 DEF Moves, ProbeOK, Probe, ProbePCs, Uncut
  <1>. QED BY <1>2, <1>3, ProbeMoves DEF p

(* The answer goes into the channel. *)
LEMMA DeliverKeeps ==
    ASSUME IInv, NEW i \in Candidates, deliverResult(i)
    PROVE  IInv'
  <1>. USE DEF IInv
  <1>. DEFINE p == probe[i]
              q == [p EXCEPT !.pc = "done"]
  <1>1. ProbeOK(p) /\ p \in Probe /\ p.pc = "deliver" /\ p.slot # "clean"
        /\ i # race.winner /\ i \notin race.settled
    BY ProbeFacts DEF deliverResult
  <1>2. q \in Probe /\ ProbeOK(q) /\ q.pc = "done" /\ (q.won => Uncut(q)) /\ q.slot = p.slot
        /\ q.ctx = p.ctx /\ q.superseded = p.superseded /\ q.billed = p.billed
    BY <1>1 DEF Probe, ProbePCs, ProbeOK, Uncut
  <1>3. probe' = [probe EXCEPT ![i] = q] /\ results' = Append(results, i)
        /\ UNCHANGED <<race, trail, owed, drain, left>> /\ probe \in [Candidates -> Probe]
    BY DEF deliverResult, ProbesOK
  <1>. HIDE DEF q
  <1>4. probe'[i] = q /\ \A j \in Candidates : j # i => probe'[j] = probe[j]
    BY <1>3
  <1>5. ProbesOK'
    BY <1>1, <1>2, <1>3, <1>4 DEF ProbesOK
  <1>6. OrchestratorOK'
    BY <1>1, <1>3, <1>4 DEF OrchestratorOK, RaceState
  <1>7. ResultsOK'
    <2>1. results \in Seq(Candidates) /\ results' \in Seq(Candidates)
          /\ Len(results') = Len(results) + 1
          /\ results'[Len(results) + 1] = i
          /\ \A k \in 1..Len(results) : results'[k] = results[k] /\ results[k] \in Candidates
      BY <1>3 DEF ResultsOK
    <2>2. \A k \in 1..Len(results) : results[k] # i
      BY <1>1 DEF ResultsOK
    <2>3. \A k \in 1..Len(results') :
            \/ k = Len(results) + 1 /\ results'[k] = i
            \/ k \in 1..Len(results) /\ results'[k] = results[k] /\ results[k] \in Candidates
      BY <2>1
    <2>4. ASSUME NEW k \in 1..Len(results')
          PROVE  /\ probe'[results'[k]].pc = "done" /\ results'[k] \notin race'.settled
                 /\ probe'[results'[k]].won => Uncut(probe'[results'[k]])
      <3>1. CASE results'[k] = i
        BY <1>1, <1>2, <1>3, <1>4, <3>1
      <3>2. CASE k \in 1..Len(results) /\ results'[k] = results[k] /\ results[k] \in Candidates
        BY <1>3, <1>4, <2>2, <3>2 DEF ResultsOK
      <3>. QED BY <2>3, <3>1, <3>2
    <2>5. \A k, l \in 1..Len(results') : results'[k] = results'[l] => k = l
      BY <2>2, <2>3 DEF ResultsOK
    <2>. QED BY <2>1, <2>4, <2>5 DEF ResultsOK, Uncut
  <1>8. WinnerOK'
    <2>1. race.winner # 0 => race.winner \in Candidates
      BY DEF OrchestratorOK, RaceState
    <2>. QED BY <1>1, <1>2, <1>3, <1>4, <2>1 DEF WinnerOK
  <1>9. CancelOK'
    BY <1>1, <1>2, <1>3, <1>4 DEF CancelOK
  <1>10. TrailOK' /\ DrainOK'
    BY <1>3 DEF TrailOK, DrainOK
  <1>11. OwedOK'
    BY <1>1, <1>2, <1>3, <1>4 DEF OwedOK, OrchestratorOK, RaceState
  <1>. QED BY <1>5, <1>6, <1>7, <1>8, <1>9, <1>10, <1>11

-----------------------------------------------------------------------------
(***************************************************************************)
(* The orchestrator.                                                       *)
(***************************************************************************)
LEMMA HeadFacts ==
    ASSUME IInv, results # <<>>
    PROVE  /\ Head(results) \in Candidates /\ probe[Head(results)].pc = "done"
           /\ Head(results) \notin race.settled /\ Head(results) # race.winner
           /\ probe[Head(results)].won => Uncut(probe[Head(results)])
           /\ Tail(results) \in Seq(Candidates)
           /\ \A k \in 1..Len(Tail(results)) :
                /\ k + 1 \in 1..Len(results) /\ Tail(results)[k] = results[k + 1]
                /\ Tail(results)[k] # Head(results)
  <1>1. results \in Seq(Candidates) /\ Len(results) \in Nat /\ Len(results) > 0
    BY DEF IInv, ResultsOK
  <1>2. Head(results) = results[1] /\ 1 \in 1..Len(results)
    BY <1>1
  <1>3. Head(results) \in Candidates /\ probe[Head(results)].pc = "done"
        /\ Head(results) \notin race.settled
        /\ (probe[Head(results)].won => Uncut(probe[Head(results)]))
    BY <1>1, <1>2 DEF IInv, ResultsOK
  <1>4. Head(results) # race.winner
    BY <1>3 DEF IInv, OrchestratorOK, Candidates
  <1>5. Tail(results) \in Seq(Candidates) /\ Len(Tail(results)) = Len(results) - 1
        /\ \A k \in 1..Len(Tail(results)) : Tail(results)[k] = results[k + 1]
    BY <1>1
  <1>6. \A k \in 1..Len(Tail(results)) : k + 1 \in 1..Len(results) /\ k + 1 # 1
    BY <1>1, <1>5
  <1>7. \A k \in 1..Len(Tail(results)) : Tail(results)[k] # Head(results)
    BY <1>2, <1>5, <1>6 DEF IInv, ResultsOK
  <1>. QED BY <1>3, <1>4, <1>5, <1>6, <1>7

(* The head of the channel is taken; the others it holds stay as they are. *)
LEMMA HeadTaken ==
    ASSUME IInv, results # <<>>, results' = Tail(results),
           race'.settled \subseteq race.settled \cup {Head(results)},
           \A j \in Candidates : probe[j].pc = "done" /\ j # Head(results) => probe'[j] = probe[j]
    PROVE  ResultsOK'
  <1>1. ASSUME NEW k \in 1..Len(Tail(results))
        PROVE  /\ probe'[Tail(results)[k]] = probe[Tail(results)[k]]
               /\ probe[Tail(results)[k]].pc = "done"
               /\ Tail(results)[k] \notin race'.settled
               /\ probe[Tail(results)[k]].won => Uncut(probe[Tail(results)[k]])
    <2>1. k + 1 \in 1..Len(results) /\ Tail(results)[k] = results[k + 1]
          /\ Tail(results)[k] # Head(results)
      BY HeadFacts
    <2>2. results[k + 1] \in Candidates
      BY <2>1 DEF IInv, ResultsOK
    <2>. QED BY <2>1, <2>2 DEF IInv, ResultsOK
  <1>2. \A k, l \in 1..Len(Tail(results)) : Tail(results)[k] = Tail(results)[l] => k = l
    <2>. SUFFICES ASSUME NEW k \in 1..Len(Tail(results)), NEW l \in 1..Len(Tail(results)),
                         Tail(results)[k] = Tail(results)[l]
                  PROVE  k = l
      OBVIOUS
    <2>1. k + 1 = l + 1
      BY HeadFacts DEF IInv, ResultsOK
    <2>. QED BY <2>1
  <1>3. Tail(results) \in Seq(Candidates)
    BY HeadFacts
  <1>. QED BY <1>1, <1>2, <1>3 DEF ResultsOK, Uncut

(* What a launch starts as. *)
Fresh == [NoProbe EXCEPT !.pc = "admit"]

LEMMA FreshProbe ==
    /\ NoProbe \in Probe /\ ProbeOK(NoProbe) /\ NoProbe.pc = "none" /\ NoProbe.slot = "none"
    /\ NoProbe.ctx = "live"
    /\ Fresh \in Probe /\ ProbeOK(Fresh) /\ Fresh.pc = "admit" /\ Fresh.slot = "none"
    /\ Fresh.ctx = "live"
  <1>1. ASSUME NEW b \in BOOLEAN
        PROVE  [ pc |-> "none", ctx |-> "live", superseded |-> b, billed |-> b,
                 slot |-> "none", hold |-> b, body |-> "none", late |-> b,
                 err |-> "none", won |-> b, busy |-> b, faulted |-> b, beaten |-> b ] \in Probe
    BY DEF Probe, ProbePCs
  <1>2. NoProbe \in Probe
    BY <1>1 DEF NoProbe
  <1>3. ProbeOK(NoProbe) /\ NoProbe.pc = "none" /\ NoProbe.slot = "none" /\ NoProbe.ctx = "live"
        /\ ~NoProbe.hold /\ ~NoProbe.won /\ ~NoProbe.faulted /\ ~NoProbe.beaten
    BY <1>2 DEF NoProbe, ProbeOK
  <1>4. ASSUME NEW p \in Probe, p.slot = "none", p.ctx = "live",
               ~p.hold, ~p.won, ~p.faulted, ~p.beaten
        PROVE  /\ [p EXCEPT !.pc = "admit"] \in Probe /\ ProbeOK([p EXCEPT !.pc = "admit"])
               /\ [p EXCEPT !.pc = "admit"].pc = "admit" /\ [p EXCEPT !.pc = "admit"].slot = "none"
               /\ [p EXCEPT !.pc = "admit"].ctx = "live"
    BY <1>4 DEF Probe, ProbePCs, ProbeOK
  <1>. DEFINE F(p) == [p EXCEPT !.pc = "admit"]
  <1>5. \A p \in Probe : p.slot = "none" /\ p.ctx = "live" /\ ~p.hold /\ ~p.won /\ ~p.faulted /\ ~p.beaten =>
          /\ F(p) \in Probe /\ ProbeOK(F(p)) /\ F(p).pc = "admit" /\ F(p).slot = "none"
          /\ F(p).ctx = "live"
    BY <1>4
  <1>6. Fresh = F(NoProbe)
    BY DEF Fresh
  <1>. HIDE DEF F
  <1>. QED BY <1>2, <1>3, <1>5, <1>6

(* The next candidate has not been launched, settled, charged or recorded. *)
LEMMA NextFacts ==
    ASSUME IInv, HasNext
    PROVE  /\ race.next \in Candidates /\ probe[race.next].pc = "none"
           /\ race.next \notin race.settled /\ race.next # race.winner
           /\ race.next + 1 \in 1..(NumCandidates + 1)
           /\ \A j \in Candidates : j < race.next + 1 <=> j < race.next \/ j = race.next
  <1>1. race.next \in 1..(NumCandidates + 1) /\ race.next <= NumCandidates /\ NumCandidates \in Nat
    BY CandidatesAssumption DEF IInv, OrchestratorOK, RaceState, HasNext
  <1>2. race.next \in Candidates /\ race.next + 1 \in 1..(NumCandidates + 1)
        /\ \A j \in Candidates : j < race.next + 1 <=> j < race.next \/ j = race.next
    BY <1>1 DEF Candidates
  <1>3. probe[race.next].pc = "none"
    BY <1>1, <1>2 DEF IInv, ProbesOK
  <1>4. race.next \notin race.settled
    BY <1>3 DEF IInv, OrchestratorOK
  <1>5. race.next # race.winner
    BY <1>1, <1>4 DEF IInv, OrchestratorOK
  <1>. QED BY <1>2, <1>3, <1>4, <1>5

LEMMA RaceFacts ==
    ASSUME IInv
    PROVE  /\ race \in RaceState /\ race.next \in 1..(NumCandidates + 1)
           /\ race.winner \in 0..NumCandidates /\ race.settled \subseteq Candidates
           /\ race.winner # 0 => race.winner \in Candidates
           /\ \A i \in Candidates : i \in Nat /\ i # 0
           /\ \A i \in race.settled : i \in Candidates /\ i < race.next
  <1>1. race \in RaceState /\ NumCandidates \in Nat
    BY CandidatesAssumption DEF IInv, OrchestratorOK
  <1>2. /\ race.next \in 1..(NumCandidates + 1)
        /\ race.winner \in 0..NumCandidates /\ race.settled \subseteq Candidates
    BY <1>1 DEF RaceState
  <1>3. \A i \in race.settled : i < race.next
    BY <1>2 DEF IInv, OrchestratorOK, ProbesOK
  <1>. QED BY <1>1, <1>2, <1>3 DEF Candidates

(* The race moves to another stage. *)
LEMMA StageMoves ==
    ASSUME IInv, NEW x \in {"settle", "charge", "cancel", "serve", "answered", "over"},
           race' = [race EXCEPT !.pc = x]
    PROVE  /\ race' \in RaceState /\ race'.pc = x /\ race'.next = race.next
           /\ race'.winner = race.winner /\ race'.settled = race.settled
  BY RaceFacts DEF RaceState

(* A probe that is done is closed or settled: what it answered stays. *)
LEMMA DoneSame ==
    ASSUME NEW p, ProbeOK(p), p.pc = "done", NEW q \in Probe, Same(p, q)
    PROVE  ProbeOK(q)
  BY DEF ProbeOK, Same

(* No probe moves. *)
LEMMA ProbesRest ==
    ASSUME IInv, UNCHANGED <<probe, results>>, race'.next = race.next, race'.settled = race.settled
    PROVE  ProbesOK' /\ ResultsOK'
  BY DEF IInv, ProbesOK, ResultsOK

LEMMA ResultWinsKeeps ==
    ASSUME IInv, ResultWins
    PROVE  IInv'
  <1>. USE DEF IInv
  <1>. DEFINE i == Head(results)
  <1>1. i \in Candidates /\ probe[i].pc = "done" /\ probe[i].won /\ i \notin race.settled
        /\ Uncut(probe[i]) /\ race.pc = "race"
    BY HeadFacts DEF ResultWins
  <1>2. race \in RaceState /\ race.winner = 0 /\ race.settled \subseteq Candidates
    BY <1>1, RaceFacts DEF OrchestratorOK
  <1>3. race' = [race EXCEPT !.pc = "settle", !.winner = i, !.settled = race.settled \cup {i}]
        /\ results' = Tail(results) /\ UNCHANGED <<probe, trail, owed, drain, left>>
    BY DEF ResultWins
  <1>. HIDE DEF i
  <1>4. race' \in RaceState /\ race'.pc = "settle" /\ race'.winner = i /\ race'.next = race.next
        /\ race'.settled = race.settled \cup {i}
    <2>1. i \in 0..NumCandidates /\ race.settled \cup {i} \in SUBSET Candidates
      BY <1>1, <1>2 DEF Candidates
    <2>2. ASSUME NEW w \in 0..NumCandidates, NEW S \in SUBSET Candidates
          PROVE  [race EXCEPT !.pc = "settle", !.winner = w, !.settled = S] \in RaceState
      BY <1>2 DEF RaceState
    <2>. QED BY <1>2, <1>3, <2>1, <2>2 DEF RaceState
  <1>5. ProbesOK'
    BY <1>3, <1>4 DEF ProbesOK
  <1>6. OrchestratorOK'
    BY <1>1, <1>3, <1>4 DEF OrchestratorOK
  <1>7. ResultsOK'
    BY <1>3, <1>4, HeadTaken DEF ResultWins, i
  <1>8. WinnerOK'
    BY <1>1, <1>2, <1>3, <1>4 DEF WinnerOK, Candidates, Uncut
  <1>9. CancelOK'
    BY <1>1, <1>3, <1>4 DEF CancelOK
  <1>10. TrailOK'
    BY <1>1, <1>2, <1>3, <1>4 DEF TrailOK, Over, Candidates
  <1>11. OwedOK'
    <2>1. owed[i] = 0
      BY <1>1 DEF OwedOK
    <2>. QED BY <1>1, <1>2, <1>3, <1>4, <2>1 DEF OwedOK, Over
  <1>12. DrainOK'
    BY <1>3 DEF DrainOK
  <1>. QED BY <1>5, <1>6, <1>7, <1>8, <1>9, <1>10, <1>11, <1>12

(* A launch touches nothing but the candidate's own probe. *)
LEMMA Launches ==
    ASSUME IInv, HasNext, probe' = launch(probe, race.next)
    PROVE  /\ probe' \in [Candidates -> Probe] /\ probe'[race.next] = Fresh
           /\ \A j \in Candidates : j # race.next => probe'[j] = probe[j]
           /\ \A j \in Candidates : probe[j].pc # "none" => probe'[j] = probe[j]
  BY NextFacts, FreshProbe DEF launch, Fresh, IInv, ProbesOK

LEMMA HedgeTimerKeeps ==
    ASSUME IInv, hedgeTimer
    PROVE  IInv'
  <1>. USE DEF IInv
  <1>1. HasNext /\ race.pc = "race" /\ race.winner = 0 /\ race \in RaceState
        /\ probe' = launch(probe, race.next) /\ race' = [race EXCEPT !.next = race.next + 1]
        /\ UNCHANGED <<results, trail, owed, drain, left>>
    BY RaceFacts DEF hedgeTimer, OrchestratorOK
  <1>2. race' \in RaceState /\ race'.pc = race.pc /\ race'.winner = 0
        /\ race'.next = race.next + 1 /\ race'.settled = race.settled
    BY <1>1, NextFacts DEF RaceState
  <1>3. ProbesOK'
    BY <1>1, <1>2, NextFacts, Launches, FreshProbe DEF ProbesOK
  <1>4. \A j \in Candidates : probe[j].pc # "none" => probe'[j] = probe[j]
    BY <1>1, Launches
  <1>5. OrchestratorOK'
    BY <1>1, <1>2, <1>4, RaceFacts DEF OrchestratorOK
  <1>6. ResultsOK'
    BY <1>1, <1>2, <1>4 DEF ResultsOK
  <1>7. WinnerOK' /\ CancelOK'
    BY <1>1, <1>2, Launches, FreshProbe DEF WinnerOK, CancelOK
  <1>8. TrailOK'
    BY <1>1, <1>2 DEF TrailOK, Over
  <1>9. OwedOK'
    BY <1>1, <1>2, <1>4, RaceFacts DEF OwedOK, OrchestratorOK, Over
  <1>10. DrainOK'
    BY <1>1 DEF DrainOK
  <1>. QED BY <1>3, <1>5, <1>6, <1>7, <1>8, <1>9, <1>10

LEMMA ResultLosesKeeps ==
    ASSUME IInv, ResultLoses
    PROVE  IInv'
  <1>. USE DEF IInv
  <1>. DEFINE i == Head(results)
              settled == race.settled \cup {i}
              spent == ~HasNext /\ Launched \subseteq settled
              x == IF ~spent THEN "race"
                   ELSE IF {j \in settled : probe[j].busy} # {} THEN "retry" ELSE "answered"
              n == IF HasNext THEN race.next + 1 ELSE race.next
  <1>1. i \in Candidates /\ probe[i].pc = "done" /\ i \notin race.settled
        /\ race.pc = "race" /\ results # <<>>
    BY HeadFacts DEF ResultLoses
  <1>2. race \in RaceState /\ race.winner = 0 /\ race.settled \subseteq Candidates
    BY <1>1, RaceFacts DEF OrchestratorOK
  <1>3. race' = [race EXCEPT !.settled = settled, !.next = n, !.pc = x]
        /\ probe' = (IF HasNext THEN launch(probe, race.next) ELSE probe)
        /\ trail' = record({i}) /\ owed' = charge({i})
        /\ results' = Tail(results) /\ UNCHANGED <<drain, left>>
    BY DEF ResultLoses
  <1>4. n \in 1..(NumCandidates + 1) /\ x \in {"race", "retry", "answered"}
        /\ settled \subseteq Candidates
    BY <1>1, <1>2, NextFacts, RaceFacts
  <1>5. x # "race" => /\ n = race.next /\ probe' = probe
                      /\ \A j \in Candidates : j < race.next => j \in settled
    BY <1>3 DEF Launched, ProbesOK
  <1>6. (HasNext => n = race.next + 1) /\ (~HasNext => n = race.next)
    OBVIOUS
  <1>7. settled = race.settled \cup {i}
    OBVIOUS
  <1>. HIDE DEF i, settled, x, n, spent
  <1>8. race' \in RaceState /\ race'.pc = x /\ race'.winner = 0 /\ race'.next = n
        /\ race'.settled = settled
    BY <1>2, <1>3, <1>4 DEF RaceState
  <1>9. /\ probe' \in [Candidates -> Probe]
        /\ \A j \in Candidates : probe[j].pc # "none" => probe'[j] = probe[j]
        /\ \A j \in Candidates : probe'[j] = probe[j] \/ (HasNext /\ j = race.next /\ probe'[j] = Fresh)
    BY <1>3, Launches DEF ProbesOK
  <1>10. ProbesOK'
    <2>1. CASE HasNext
      BY <1>3, <1>6, <1>8, <2>1, NextFacts, Launches, FreshProbe DEF ProbesOK
    <2>2. CASE ~HasNext
      BY <1>3, <1>6, <1>8, <2>2 DEF ProbesOK
    <2>. QED BY <2>1, <2>2
  <1>11. OrchestratorOK'
    BY <1>1, <1>4, <1>7, <1>8, <1>9, RaceFacts DEF OrchestratorOK
  <1>12. ResultsOK'
    BY <1>1, <1>3, <1>7, <1>8, <1>9, HeadTaken DEF i
  <1>13. WinnerOK' /\ CancelOK'
    BY <1>1, <1>2, <1>4, <1>8, <1>9, FreshProbe DEF WinnerOK, CancelOK
  <1>14. TrailOK'
    <2>1. \A j \in Candidates : trail'[j] = trail[j] + IF j = i THEN 1 ELSE 0
      BY <1>3 DEF record
    <2>2. trail \in [Candidates -> Nat]
          /\ \A j \in Candidates : trail[j] = IF j \in race.settled THEN 1 ELSE 0
      BY <1>1, <1>2, RaceFacts DEF TrailOK
    <2>3. \A j \in Candidates : trail'[j] = IF j \in settled THEN 1 ELSE 0
      BY <1>1, <1>7, <2>1, <2>2
    <2>4. trail' \in [Candidates -> Nat]
      BY <1>3, <2>2 DEF record
    <2>5. \A j \in settled : j < race.next
      BY <1>1, <1>7, RaceFacts DEF ProbesOK
    <2>. QED BY <1>4, <1>5, <1>8, <2>3, <2>4, <2>5, RaceFacts DEF TrailOK, Over
  <1>15. OwedOK'
    <2>1. \A j \in Candidates : owed'[j] = owed[j] + IF j = i /\ probe[j].billed /\ owed[j] = 0 THEN 1 ELSE 0
      BY <1>3 DEF charge
    <2>2. owed \in [Candidates -> 0..1] /\ owed[i] = 0
      BY <1>1 DEF OwedOK
    <2>3. \A j \in Candidates : j # i => owed'[j] = owed[j]
      BY <2>1, <2>2
    <2>4. owed'[i] = IF probe[i].billed THEN 1 ELSE 0
      BY <1>1, <2>1, <2>2
    <2>5. owed' \in [Candidates -> 0..1]
      <3>1. \A j \in Candidates : owed'[j] \in 0..1
        BY <2>2, <2>3, <2>4
      <3>. QED BY <1>3, <3>1 DEF charge
    <2>6. probe'[i] = probe[i] /\ \A j \in race.settled : j \in Candidates /\ probe'[j] = probe[j]
      BY <1>1, <1>9, RaceFacts DEF OrchestratorOK
    <2>. QED BY <1>1, <1>2, <1>4, <1>7, <1>8, <2>3, <2>4, <2>5, <2>6 DEF OwedOK, Over
  <1>16. DrainOK'
    BY <1>3 DEF DrainOK
  <1>. QED BY <1>10, <1>11, <1>12, <1>13, <1>14, <1>15, <1>16

LEMMA AbandonedKeeps ==
    ASSUME IInv, RaceAbandoned
    PROVE  IInv'
  <1>. USE DEF IInv
  <1>1. race' = [race EXCEPT !.pc = "settle"] /\ race.pc = "race"
        /\ UNCHANGED <<probe, results, trail, owed, drain, left>>
    BY DEF RaceAbandoned
  <1>2. race' \in RaceState /\ race'.pc = "settle" /\ race'.next = race.next
        /\ race'.winner = race.winner /\ race'.settled = race.settled
    BY <1>1, StageMoves
  <1>3. ProbesOK' /\ ResultsOK'
    BY <1>1, <1>2, ProbesRest
  <1>4. OrchestratorOK' /\ WinnerOK' /\ CancelOK'
    BY <1>1, <1>2 DEF OrchestratorOK, WinnerOK, CancelOK
  <1>5. TrailOK' /\ OwedOK' /\ DrainOK'
    BY <1>1, <1>2 DEF TrailOK, OwedOK, DrainOK, Over
  <1>. QED BY <1>3, <1>4, <1>5

(* A done probe other than the winner's is abandoned, or was lost anyway. *)
LEMMA HeadReleased ==
    ASSUME IInv, results # <<>>,
           probe' = IF probe[Head(results)].won
                    THEN [probe EXCEPT ![Head(results)] = abandonHedgeWin(@)] ELSE probe
    PROVE  /\ probe' \in [Candidates -> Probe]
           /\ \A j \in Candidates : j # Head(results) => probe'[j] = probe[j]
           /\ Same(probe[Head(results)], probe'[Head(results)])
           /\ ProbeOK(probe'[Head(results)]) /\ probe'[Head(results)].slot # "clean"
  <1>. DEFINE i == Head(results)
              a == abandonHedgeWin(probe[i])
  <1>1. i \in Candidates /\ probe[i].pc = "done" /\ i # race.winner
    BY HeadFacts
  <1>2. ProbeOK(probe[i]) /\ probe[i] \in Probe /\ probe[i].slot # "clean"
        /\ (probe[i].won => probe[i].hold)
    BY <1>1, ProbeFacts DEF ProbeOK, IInv, WinnerOK
  <1>3. probe \in [Candidates -> Probe]
    BY DEF IInv, ProbesOK
  <1>4. CASE probe[i].won
    <2>1. a \in Probe /\ Same(probe[i], a) /\ a.slot # "clean"
      BY <1>2, <1>4, Abandons
    <2>2. probe' = [probe EXCEPT ![i] = a]
      BY <1>4
    <2>3. ProbeOK(a)
      BY <1>1, <1>2, <2>1, DoneSame
    <2>. HIDE DEF a
    <2>. QED BY <1>1, <1>3, <2>1, <2>2, <2>3
  <1>5. CASE ~probe[i].won
    BY <1>2, <1>3, <1>5 DEF Same
  <1>. QED BY <1>4, <1>5

LEMMA SettleQueuedKeeps ==
    ASSUME IInv, settleQueued
    PROVE  IInv'
  <1>. USE DEF IInv
  <1>. DEFINE i == Head(results)
  <1>1. i \in Candidates /\ probe[i].pc = "done" /\ i \notin race.settled /\ i # race.winner
        /\ race.pc = "settle" /\ results # <<>>
    BY HeadFacts DEF settleQueued
  <1>2. race' = [race EXCEPT !.settled = race.settled \cup {i}] /\ trail' = record({i})
        /\ results' = Tail(results) /\ UNCHANGED <<owed, drain, left>>
    BY DEF settleQueued
  <1>3. probe' \in [Candidates -> Probe] /\ (\A j \in Candidates : j # i => probe'[j] = probe[j])
        /\ Same(probe[i], probe'[i]) /\ ProbeOK(probe'[i]) /\ probe'[i].slot # "clean"
    BY <1>1, HeadReleased DEF settleQueued
  <1>4. ResultsOK'
    <2>1. race \in RaceState /\ race'.settled = race.settled \cup {i}
      BY <1>2, RaceFacts DEF RaceState
    <2>. QED BY <1>1, <1>2, <1>3, <2>1, HeadTaken
  <1>. HIDE DEF i
  <1>5. race' \in RaceState /\ race'.pc = "settle" /\ race'.winner = race.winner
        /\ race'.next = race.next /\ race'.settled = race.settled \cup {i}
    <2>1. race.settled \cup {i} \in SUBSET Candidates
      BY <1>1, RaceFacts
    <2>2. ASSUME NEW S \in SUBSET Candidates
          PROVE  [race EXCEPT !.settled = S] \in RaceState
      BY RaceFacts DEF RaceState
    <2>. QED BY <1>1, <1>2, <2>1, <2>2, RaceFacts DEF RaceState
  <1>6. \A j \in Candidates : /\ probe'[j].pc = probe[j].pc /\ probe'[j].billed = probe[j].billed
                              /\ probe'[j].ctx = probe[j].ctx
    BY <1>1, <1>3 DEF Same
  <1>7. ProbesOK'
    BY <1>3, <1>5, <1>6 DEF ProbesOK
  <1>8. OrchestratorOK'
    BY <1>1, <1>5, <1>6, RaceFacts DEF OrchestratorOK
  <1>9. WinnerOK'
    BY <1>1, <1>3, <1>5, RaceFacts DEF WinnerOK
  <1>10. CancelOK'
    BY <1>1, <1>5, <1>6 DEF CancelOK
  <1>11. TrailOK'
    <2>1. \A j \in Candidates : trail'[j] = trail[j] + IF j = i THEN 1 ELSE 0
      BY <1>2 DEF record
    <2>2. trail \in [Candidates -> Nat]
          /\ \A j \in Candidates : trail[j] = IF j \in race.settled \ {race.winner} THEN 1 ELSE 0
      BY <1>1 DEF TrailOK
    <2>3. trail' \in [Candidates -> Nat]
      BY <1>2, <2>2 DEF record
    <2>. QED BY <1>1, <1>5, <2>1, <2>2, <2>3 DEF TrailOK, Over
  <1>12. OwedOK'
    BY <1>1, <1>2, <1>5, <1>6 DEF OwedOK, Over
  <1>13. DrainOK'
    BY <1>2 DEF DrainOK
  <1>. QED BY <1>4, <1>7, <1>8, <1>9, <1>10, <1>11, <1>12, <1>13

LEMMA InFlightBound ==
    ASSUME IInv
    PROVE  Cardinality(InFlight) \in 0..NumCandidates
  <1>1. IsFiniteSet(Candidates) /\ Cardinality(Candidates) = NumCandidates
    BY CandidatesAssumption, FS_Interval DEF Candidates
  <1>2. InFlight \in SUBSET Candidates
    BY DEF InFlight, Launched
  <1>3. IsFiniteSet(InFlight) /\ Cardinality(InFlight) <= Cardinality(Candidates)
    BY <1>1, <1>2, FS_Subset
  <1>4. Cardinality(InFlight) \in Nat
    BY <1>3, FS_CardinalityType
  <1>. QED BY <1>1, <1>3, <1>4, CandidatesAssumption

LEMMA SettleInFlightKeeps ==
    ASSUME IInv, settleInFlight
    PROVE  IInv'
  <1>. USE DEF IInv
  <1>1. race' = [race EXCEPT !.pc = "charge"] /\ race.pc = "settle" /\ trail' = record(InFlight)
        /\ UNCHANGED <<probe, results, owed, drain, left>>
    BY DEF settleInFlight
  <1>2. race' \in RaceState /\ race'.pc = "charge" /\ race'.next = race.next
        /\ race'.winner = race.winner /\ race'.settled = race.settled
    BY <1>1, StageMoves
  <1>3. ProbesOK' /\ ResultsOK'
    BY <1>1, <1>2, ProbesRest
  <1>4. OrchestratorOK' /\ WinnerOK' /\ CancelOK'
    BY <1>1, <1>2 DEF OrchestratorOK, WinnerOK, CancelOK
  <1>5. TrailOK'
    <2>1. \A j \in Candidates : trail'[j] = trail[j] + IF j \in InFlight THEN 1 ELSE 0
      BY <1>1 DEF record
    <2>2. trail \in [Candidates -> Nat]
          /\ \A j \in Candidates : trail[j] = IF j \in race.settled \ {race.winner} THEN 1 ELSE 0
      BY <1>1 DEF TrailOK
    <2>3. trail' \in [Candidates -> Nat]
      BY <1>1, <2>2 DEF record
    <2>4. \A j \in Candidates : j \in InFlight <=> j < race.next /\ j \notin race.settled
      BY DEF InFlight, Launched, ProbesOK
    <2>. QED BY <1>2, <2>1, <2>2, <2>3, <2>4, RaceFacts DEF TrailOK
  <1>6. OwedOK' /\ DrainOK'
    BY <1>1, <1>2 DEF OwedOK, DrainOK, Over
  <1>. QED BY <1>3, <1>4, <1>5, <1>6

LEMMA ChargeKeeps ==
    ASSUME IInv, chargeAllBut
    PROVE  IInv'
  <1>. USE DEF IInv
  <1>. DEFINE x == IF race.winner # 0 THEN "cancel" ELSE "answered"
  <1>1. race' = [race EXCEPT !.pc = x] /\ race.pc = "charge"
        /\ owed' = charge(Launched \ {race.winner})
        /\ drain' = (IF race.winner # 0 THEN 0 ELSE Cardinality(InFlight))
        /\ UNCHANGED <<probe, results, trail, left>>
    BY DEF chargeAllBut
  <1>2. x \in {"cancel", "answered"} /\ (x = "cancel" <=> race.winner # 0)
    OBVIOUS
  <1>. HIDE DEF x
  <1>3. race' \in RaceState /\ race'.pc = x /\ race'.next = race.next
        /\ race'.winner = race.winner /\ race'.settled = race.settled
    BY <1>1, <1>2, StageMoves
  <1>4. ProbesOK' /\ ResultsOK'
    BY <1>1, <1>3, ProbesRest
  <1>5. OrchestratorOK' /\ WinnerOK' /\ CancelOK'
    BY <1>1, <1>2, <1>3 DEF OrchestratorOK, WinnerOK, CancelOK
  <1>6. TrailOK'
    BY <1>1, <1>2, <1>3 DEF TrailOK, Over
  <1>7. OwedOK'
    <2>1. \A j \in Candidates : owed'[j] = owed[j] +
            IF j \in Launched \ {race.winner} /\ probe[j].billed /\ owed[j] = 0 THEN 1 ELSE 0
      BY <1>1 DEF charge
    <2>2. owed \in [Candidates -> 0..1]
          /\ \A j \in Candidates : owed[j] = 1 => j \in race.settled /\ probe[j].billed
      BY <1>1 DEF OwedOK
    <2>3. \A j \in Candidates : owed[j] \in 0..1
      BY <2>2
    <2>4. \A j \in Candidates : owed'[j] \in 0..1
      BY <2>1, <2>3
    <2>5. owed' \in [Candidates -> 0..1]
      BY <1>1, <2>4 DEF charge
    <2>6. race.winner # 0 => owed'[race.winner] = 0
      BY <2>1, RaceFacts DEF OwedOK
    <2>7. \A j \in race.settled \ {race.winner} : j \in Launched \ {race.winner} /\ j \in Candidates
      BY RaceFacts DEF Launched, OrchestratorOK
    <2>8. \A j \in race.settled \ {race.winner} : owed'[j] = IF probe[j].billed THEN 1 ELSE 0
      BY <2>1, <2>2, <2>3, <2>7
    <2>. QED BY <1>1, <1>2, <1>3, <2>5, <2>6, <2>8 DEF OwedOK
  <1>8. DrainOK'
    BY <1>1, InFlightBound, CandidatesAssumption DEF DrainOK
  <1>. QED BY <1>4, <1>5, <1>6, <1>7, <1>8

(* Contexts and flags move, everything a result is judged by stays. *)
SameResult(p, q) ==
    /\ ProbeOK(q) /\ q.pc = p.pc /\ q.slot = p.slot /\ q.body = p.body /\ q.hold = p.hold
    /\ q.won = p.won /\ q.billed = p.billed

LEMMA ContextsMove ==
    ASSUME IInv, probe' \in [Candidates -> Probe],
           \A j \in Candidates : SameResult(probe[j], probe'[j]),
           race' \in RaceState, race'.next = race.next, race'.settled = race.settled,
           race'.winner = race.winner,
           race'.pc = race.pc \/ (race.pc = "answered" /\ race'.pc = "over"),
           UNCHANGED <<results, trail, owed, drain, left>>
    PROVE  ProbesOK' /\ OrchestratorOK' /\ ResultsOK' /\ WinnerOK' /\ TrailOK' /\ OwedOK' /\ DrainOK'
  <1>. USE DEF IInv
  <1>1. ProbesOK'
    BY DEF ProbesOK, SameResult
  <1>2. OrchestratorOK'
    BY RaceFacts DEF OrchestratorOK, SameResult
  <1>3. ResultsOK'
    <2>1. \A k \in 1..Len(results) : results[k] \in Candidates
      BY DEF ResultsOK
    <2>. QED BY <2>1 DEF ResultsOK, SameResult, Uncut
  <1>4. WinnerOK'
    BY RaceFacts DEF WinnerOK, SameResult, Uncut
  <1>5. TrailOK' /\ DrainOK'
    BY DEF TrailOK, DrainOK, Over
  <1>6. OwedOK'
    BY RaceFacts DEF OwedOK, SameResult, Over
  <1>. QED BY <1>1, <1>2, <1>3, <1>4, <1>5, <1>6

LEMMA FlagsFirst ==
    ASSUME NEW p, ProbeOK(p), p \in Probe
    PROVE  /\ cancelOne(p) \in Probe /\ SameResult(p, cancelOne(p))
           /\ cancelOne(p).superseded
           /\ cancelOne(p).ctx = "live" => p.ctx = "live"
  <1>1. ASSUME NEW b \in BOOLEAN, b
        PROVE  /\ [p EXCEPT !.superseded = b] \in Probe /\ SameResult(p, [p EXCEPT !.superseded = b])
               /\ [p EXCEPT !.superseded = b].superseded /\ [p EXCEPT !.superseded = b].ctx = p.ctx
    BY <1>1 DEF Probe, SameResult, ProbeOK, Uncut
  <1>2. /\ [p EXCEPT !.ctx = "cancelled"] \in Probe /\ SameResult(p, [p EXCEPT !.ctx = "cancelled"])
        /\ [p EXCEPT !.ctx = "cancelled"].superseded = p.superseded
        /\ [p EXCEPT !.ctx = "cancelled"].ctx = "cancelled"
    BY DEF Probe, SameResult, ProbeOK, Uncut
  <1>3. CASE ~p.superseded
    <2>1. cancelOne(p) = [p EXCEPT !.superseded = TRUE]
      BY <1>3 DEF cancelOne
    <2>. QED BY <1>1, <2>1
  <1>4. CASE p.superseded
    <2>1. cancelOne(p) = [p EXCEPT !.ctx = "cancelled"]
      BY <1>4 DEF cancelOne
    <2>. QED BY <1>2, <1>4, <2>1
  <1>. QED BY <1>3, <1>4

LEMMA CancelExceptKeeps ==
    ASSUME IInv, cancelExcept
    PROVE  IInv'
  <1>. USE DEF IInv
  <1>1. PICK i \in NotYet : probe' = [probe EXCEPT ![i] = cancelOne(probe[i])]
    BY DEF cancelExcept
  <1>2. race.pc = "cancel" /\ UNCHANGED <<race, results, trail, owed, drain, left>>
    BY DEF cancelExcept
  <1>3. i \in Candidates /\ i # race.winner /\ ProbeOK(probe[i]) /\ probe[i] \in Probe
        /\ probe \in [Candidates -> Probe]
    BY ProbeFacts DEF NotYet, Launched, ProbesOK
  <1>4. cancelOne(probe[i]) \in Probe /\ SameResult(probe[i], cancelOne(probe[i]))
        /\ cancelOne(probe[i]).superseded
    BY <1>3, FlagsFirst
  <1>5. probe'[i] = cancelOne(probe[i]) /\ \A j \in Candidates : j # i => probe'[j] = probe[j]
    BY <1>1, <1>3
  <1>6. \A j \in Candidates : SameResult(probe[j], probe'[j])
    BY <1>4, <1>5, ProbeFacts DEF SameResult
  <1>7. probe' \in [Candidates -> Probe]
    BY <1>1, <1>3, <1>4
  <1>8. CancelOK'
    BY <1>2, <1>4, <1>5 DEF CancelOK
  <1>. QED BY <1>2, <1>6, <1>7, <1>8, RaceFacts, ContextsMove

LEMMA ReturnKeeps ==
    ASSUME IInv, returnFromRace
    PROVE  IInv'
  <1>. USE DEF IInv
  <1>1. race.pc = "answered" /\ race' = [race EXCEPT !.pc = "over"]
        /\ UNCHANGED <<results, trail, owed, drain, left>>
    BY DEF returnFromRace
  <1>2. race' \in RaceState /\ race'.pc = "over" /\ race'.next = race.next
        /\ race'.winner = race.winner /\ race'.settled = race.settled
    BY <1>1, StageMoves
  <1>3. probe' = [j \in Candidates |->
          IF j \in Launched /\ probe[j].ctx = "live"
          THEN [probe[j] EXCEPT !.ctx = "cancelled"] ELSE probe[j]]
    BY DEF returnFromRace
  <1>4. ASSUME NEW j \in Candidates
        PROVE  /\ probe'[j] \in Probe /\ SameResult(probe[j], probe'[j])
               /\ probe'[j].superseded = probe[j].superseded
               /\ \/ probe'[j] = probe[j]
                  \/ probe'[j].ctx = "cancelled" /\ probe[j].ctx = "live" /\ j < race.next
    <2>. DEFINE q == [probe[j] EXCEPT !.ctx = "cancelled"]
    <2>1. ProbeOK(probe[j]) /\ probe[j] \in Probe
      BY ProbeFacts
    <2>2. q \in Probe /\ q.superseded = probe[j].superseded /\ q.ctx = "cancelled"
          /\ SameResult(probe[j], q)
      BY <2>1 DEF Probe, SameResult, ProbeOK, Uncut
    <2>. HIDE DEF q
    <2>3. probe'[j] = probe[j] \/ (probe'[j] = q /\ probe[j].ctx = "live" /\ j \in Launched)
      BY <1>3 DEF q
    <2>. QED BY <2>1, <2>2, <2>3 DEF SameResult, Launched, ProbesOK
  <1>5. probe' \in [Candidates -> Probe]
    BY <1>3, <1>4
  <1>6. CancelOK'
    BY <1>1, <1>2, <1>4 DEF CancelOK
  <1>. QED BY <1>1, <1>2, <1>4, <1>5, <1>6, ContextsMove

LEMMA StartServingKeeps ==
    ASSUME IInv, startServing
    PROVE  IInv'
  <1>. USE DEF IInv
  <1>1. race' = [race EXCEPT !.pc = "serve"] /\ race.pc = "cancel" /\ NotYet = {}
        /\ drain' = Cardinality(InFlight) /\ UNCHANGED <<probe, results, trail, owed, left>>
    BY DEF startServing
  <1>2. race' \in RaceState /\ race'.pc = "serve" /\ race'.next = race.next
        /\ race'.winner = race.winner /\ race'.settled = race.settled
    BY <1>1, StageMoves
  <1>3. ProbesOK' /\ ResultsOK'
    BY <1>1, <1>2, ProbesRest
  <1>4. OrchestratorOK' /\ WinnerOK'
    BY <1>1, <1>2 DEF OrchestratorOK, WinnerOK
  <1>5. CancelOK'
    <2>1. \A j \in Candidates : j < race.next /\ j # race.winner =>
            probe[j].superseded /\ probe[j].ctx # "live"
      BY <1>1 DEF NotYet, Launched, ProbesOK
    <2>. QED BY <1>1, <1>2, <2>1 DEF CancelOK
  <1>6. TrailOK' /\ OwedOK'
    BY <1>1, <1>2 DEF TrailOK, OwedOK, Over
  <1>7. DrainOK'
    BY <1>1, InFlightBound DEF DrainOK
  <1>. QED BY <1>3, <1>4, <1>5, <1>6, <1>7

LEMMA ServeKeeps ==
    ASSUME IInv, serveHedgeWinner
    PROVE  IInv'
  <1>. USE DEF IInv
  <1>. DEFINE w == race.winner
  <1>1. race' = [race EXCEPT !.pc = "answered"] /\ race.pc = "serve" /\ trail' = record({w})
        /\ UNCHANGED <<results, owed, drain, left>>
    BY DEF serveHedgeWinner
  <1>2. race' \in RaceState /\ race'.pc = "answered" /\ race'.next = race.next
        /\ race'.winner = w /\ race'.settled = race.settled
    BY <1>1, StageMoves
  <1>3. w # 0 /\ w \in Candidates /\ w \in race.settled /\ probe[w].pc = "done"
    BY <1>1, RaceFacts DEF OrchestratorOK
  <1>4. PICK o \in Outcome :
          probe' = [probe EXCEPT ![w] = settle(closeBody(probe[w], "clean"), o)]
    BY DEF serveHedgeWinner, Outcome
  <1>. DEFINE q == settle(closeBody(probe[w], "clean"), o)
  <1>5. probe[w] \in Probe /\ ProbeOK(probe[w]) /\ probe \in [Candidates -> Probe]
    BY <1>3, ProbeFacts DEF ProbesOK
  <1>6. q \in Probe /\ Same(probe[w], q)
    <2>1. closeBody(probe[w], "clean") \in Probe /\ Same(probe[w], closeBody(probe[w], "clean"))
      BY <1>5, Closes DEF Outcome
    <2>. QED BY <2>1, Settles DEF Same
  <1>7. ProbeOK(q)
    BY <1>3, <1>5, <1>6, DoneSame
  <1>8. probe' = [probe EXCEPT ![w] = q]
    BY <1>4
  <1>. HIDE DEF q, w
  <1>9. probe'[w] = q /\ (\A j \in Candidates : j # w => probe'[j] = probe[j])
        /\ probe' \in [Candidates -> Probe]
    BY <1>3, <1>5, <1>6, <1>8
  <1>10. \A j \in Candidates : /\ probe'[j].pc = probe[j].pc /\ probe'[j].billed = probe[j].billed
                               /\ probe'[j].ctx = probe[j].ctx /\ probe'[j].superseded = probe[j].superseded
    BY <1>6, <1>9 DEF Same
  <1>11. ProbesOK'
    BY <1>2, <1>7, <1>9, <1>10 DEF ProbesOK
  <1>12. OrchestratorOK'
    BY <1>2, <1>3, <1>10, RaceFacts DEF OrchestratorOK
  <1>13. ResultsOK'
    <2>1. \A k \in 1..Len(results) : results[k] \in Candidates /\ results[k] # w
      BY <1>3 DEF ResultsOK
    <2>. QED BY <1>1, <1>2, <1>9, <2>1 DEF ResultsOK
  <1>14. WinnerOK'
    BY <1>2, <1>9 DEF WinnerOK, w
  <1>15. CancelOK'
    BY <1>1, <1>2, <1>10 DEF CancelOK, w
  <1>16. TrailOK'
    <2>1. \A j \in Candidates : trail'[j] = trail[j] + IF j = w THEN 1 ELSE 0
      BY <1>1 DEF record
    <2>2. trail \in [Candidates -> Nat]
          /\ \A j \in Candidates : j = w \/ trail[j] = IF j < race.next THEN 1 ELSE 0
      BY <1>1 DEF TrailOK, Over, w
    <2>3. trail' \in [Candidates -> Nat]
      BY <1>1, <2>2 DEF record
    <2>. QED BY <1>2, <2>1, <2>2, <2>3 DEF TrailOK
  <1>17. OwedOK' /\ DrainOK'
    BY <1>1, <1>2, <1>10, RaceFacts DEF OwedOK, DrainOK, Over, w
  <1>. QED BY <1>11, <1>12, <1>13, <1>14, <1>15, <1>16, <1>17

LEMMA RetryKeeps ==
    ASSUME IInv, retryAfterSlotFrees
    PROVE  IInv'
  <1>. USE DEF IInv
  <1>1. race' = [race EXCEPT !.pc = "answered"] /\ race.pc = "retry"
        /\ UNCHANGED <<probe, results, trail, owed, drain, left>>
    BY DEF retryAfterSlotFrees
  <1>2. race' \in RaceState /\ race'.pc = "answered" /\ race'.next = race.next
        /\ race'.winner = race.winner /\ race'.settled = race.settled
    BY <1>1, StageMoves
  <1>3. ProbesOK' /\ ResultsOK'
    BY <1>1, <1>2, ProbesRest
  <1>4. OrchestratorOK' /\ WinnerOK' /\ CancelOK'
    BY <1>1, <1>2 DEF OrchestratorOK, WinnerOK, CancelOK
  <1>5. TrailOK' /\ OwedOK' /\ DrainOK'
    BY <1>1, <1>2 DEF TrailOK, OwedOK, DrainOK, Over
  <1>. QED BY <1>3, <1>4, <1>5

LEMMA DrainKeeps ==
    ASSUME IInv, drainHedgeResults
    PROVE  IInv'
  <1>. USE DEF IInv
  <1>. DEFINE i == Head(results)
  <1>1. i \in Candidates /\ probe[i].pc = "done" /\ i # race.winner /\ results # <<>>
    BY HeadFacts DEF drainHedgeResults
  <1>2. results' = Tail(results) /\ UNCHANGED <<race, trail, owed, left>>
        /\ drain' = drain - 1 /\ drain > 0
    BY DEF drainHedgeResults
  <1>3. probe' \in [Candidates -> Probe] /\ (\A j \in Candidates : j # i => probe'[j] = probe[j])
        /\ Same(probe[i], probe'[i]) /\ ProbeOK(probe'[i]) /\ probe'[i].slot # "clean"
    BY <1>1, HeadReleased DEF drainHedgeResults
  <1>4. ResultsOK'
    BY <1>1, <1>2, <1>3, HeadTaken
  <1>. HIDE DEF i
  <1>5. \A j \in Candidates : /\ probe'[j].pc = probe[j].pc /\ probe'[j].billed = probe[j].billed
                              /\ probe'[j].ctx = probe[j].ctx /\ probe'[j].superseded = probe[j].superseded
    BY <1>1, <1>3 DEF Same
  <1>6. ProbesOK'
    BY <1>2, <1>3, <1>5 DEF ProbesOK
  <1>7. OrchestratorOK'
    BY <1>2, <1>5, RaceFacts DEF OrchestratorOK
  <1>8. WinnerOK'
    BY <1>1, <1>2, <1>3, RaceFacts DEF WinnerOK
  <1>9. CancelOK'
    BY <1>2, <1>5 DEF CancelOK
  <1>10. TrailOK' /\ OwedOK'
    BY <1>2, <1>5, RaceFacts DEF TrailOK, OwedOK
  <1>11. DrainOK'
    BY <1>2, CandidatesAssumption DEF DrainOK
  <1>. QED BY <1>4, <1>6, <1>7, <1>8, <1>9, <1>10, <1>11

LEMMA RaceRests ==
    ASSUME IInv, UNCHANGED <<race, probe, results, trail, owed, drain>>, left' \in BOOLEAN
    PROVE  IInv'
  BY DEF IInv, ProbesOK, OrchestratorOK, ResultsOK, WinnerOK, CancelOK, TrailOK, OwedOK, DrainOK

LEMMA InitHolds ==
    ASSUME RaceInit
    PROVE  IInv
  <1>. USE DEF RaceInit
  <1>1. NumCandidates \in Nat /\ NumCandidates >= 1
    BY CandidatesAssumption
  <1>2. race \in RaceState /\ race.pc = "race" /\ race.next = 2 /\ race.winner = 0 /\ race.settled = {}
    <2>1. PICK b \in BOOLEAN :
            race = [pc |-> "race", next |-> 2, winner |-> 0, settled |-> {}, ttft |-> b]
      BY Zenon
    <2>. QED BY <1>1, <2>1 DEF RaceState
  <1>. DEFINE none == [i \in Candidates |-> NoProbe]
              fresh == [NoProbe EXCEPT !.pc = "admit"]
  <1>3. NoProbe \in Probe /\ ProbeOK(NoProbe) /\ NoProbe.pc = "none" /\ NoProbe.slot = "none"
        /\ NoProbe.ctx = "live"
    BY DEF NoProbe, Probe, ProbePCs, ProbeOK, Uncut
  <1>4. fresh \in Probe /\ ProbeOK(fresh) /\ fresh.pc = "admit" /\ fresh.slot = "none" /\ fresh.ctx = "live"
    BY DEF NoProbe, Probe, ProbePCs, ProbeOK, Uncut
  <1>5. probe = [none EXCEPT ![1] = fresh]
    BY DEF launch
  <1>. HIDE DEF fresh
  <1>6. probe \in [Candidates -> Probe]
        /\ \A i \in Candidates : probe[i] = IF i = 1 THEN fresh ELSE NoProbe
    BY <1>3, <1>4, <1>5
  <1>7. \A i \in Candidates : ProbeOK(probe[i]) /\ probe[i].slot = "none" /\ probe[i].ctx = "live"
          /\ (probe[i].pc # "none" <=> i = 1)
    BY <1>3, <1>4, <1>6
  <1>8. ProbesOK
    BY <1>1, <1>2, <1>6, <1>7 DEF ProbesOK, Candidates
  <1>9. OrchestratorOK
    BY <1>2 DEF OrchestratorOK
  <1>10. ResultsOK
    <2>1. results = <<>> /\ Len(results) = 0 /\ results \in Seq(Candidates)
      OBVIOUS
    <2>. QED BY <2>1 DEF ResultsOK
  <1>11. WinnerOK /\ CancelOK
    BY <1>2, <1>7 DEF WinnerOK, CancelOK
  <1>12. TrailOK
    BY <1>2 DEF TrailOK, Over
  <1>13. OwedOK
    BY <1>2 DEF OwedOK, Over
  <1>14. DrainOK
    <2>1. drain \in 0..NumCandidates
      BY <1>1
    <2>2. left \in BOOLEAN
      BY Zenon
    <2>. QED BY <2>1, <2>2 DEF DrainOK
  <1>. QED BY <1>8, <1>9, <1>10, <1>11, <1>12, <1>13, <1>14 DEF IInv

LEMMA StepKeeps ==
    ASSUME IInv, [RaceNext]_hedge
    PROVE  IInv'
  <1>1. left \in BOOLEAN
    BY DEF IInv, DrainOK
  <1>2. ASSUME NEW i \in Candidates, ProbeStep(i)
        PROVE  IInv'
    BY <1>2, AdmitKeeps, BuildKeeps, FailsKeeps, AnswersKeeps, TakesOnKeeps, DeadlineKeeps,
       FirstTokenKeeps, FailedKeeps, ClassifyKeeps, CommitKeeps, DeliverKeeps DEF ProbeStep
  <1>3. ASSUME NEW i \in Candidates, AttemptExpires(i)
        PROVE  IInv'
    BY <1>3, ExpiresKeeps
  <1>4. CASE Orchestrate
    BY <1>4, ResultWinsKeeps, ResultLosesKeeps, SettleQueuedKeeps, SettleInFlightKeeps, ChargeKeeps,
       CancelExceptKeeps, StartServingKeeps, ServeKeeps, RetryKeeps, ReturnKeeps DEF Orchestrate
  <1>5. CASE hedgeTimer
    BY <1>5, HedgeTimerKeeps
  <1>6. CASE RaceAbandoned
    BY <1>6, AbandonedKeeps
  <1>7. CASE drainHedgeResults
    BY <1>7, DrainKeeps
  <1>8. CASE ClientLeaves
    <2>1. UNCHANGED <<race, probe, results, trail, owed, drain>> /\ left' \in BOOLEAN
      BY <1>8 DEF ClientLeaves
    <2>. QED BY <2>1, RaceRests
  <1>9. CASE UNCHANGED hedge
    <2>1. UNCHANGED <<race, probe, results, trail, owed, drain>> /\ left' \in BOOLEAN
      BY <1>1, <1>9 DEF hedge
    <2>. QED BY <2>1, RaceRests
  <1>. QED BY <1>2, <1>3, <1>4, <1>5, <1>6, <1>7, <1>8, <1>9 DEF RaceNext
-----------------------------------------------------------------------------
(***************************************************************************)
(* The theorems.                                                           *)
(***************************************************************************)

(* IInv holds of every state a race reaches, for any number of candidates, *)
(* in whatever order probes, hedge ticks, deadlines, hang-up and the exits *)
(* of runHedgedStreaming interleave.                                       *)
THEOREM Inductive == RaceSpec => []IInv
  <1>1. RaceInit => IInv
    BY InitHolds
  <1>2. IInv /\ [RaceNext]_hedge => IInv'
    BY StepKeeps
  <1>. QED BY <1>1, <1>2, PTL DEF RaceSpec

(* No candidate is in the results channel twice, so it holds at most as    *)
(* many results as there are candidates.                                   *)
LEMMA ChannelBounded ==
    ASSUME ResultsOK
    PROVE  Len(results) <= NumCandidates
  <1>1. NumCandidates \in Nat /\ Len(results) \in Nat /\ results \in [1..Len(results) -> Candidates]
    BY CandidatesAssumption DEF ResultsOK
  <1>2. IsFiniteSet(1..Len(results)) /\ Cardinality(1..Len(results)) = Len(results)
    <2>1. Cardinality(1..Len(results)) = IF 1 > Len(results) THEN 0 ELSE Len(results) - 1 + 1
      BY <1>1, FS_Interval
    <2>2. IsFiniteSet(1..Len(results))
      BY <1>1, FS_Interval
    <2>. QED BY <1>1, <2>1, <2>2
  <1>3. IsFiniteSet(Candidates) /\ Cardinality(Candidates) = NumCandidates
    <2>1. Cardinality(1..NumCandidates) = IF 1 > NumCandidates THEN 0 ELSE NumCandidates - 1 + 1
      BY <1>1, FS_Interval
    <2>2. IsFiniteSet(1..NumCandidates)
      BY <1>1, FS_Interval
    <2>. QED BY <1>1, <2>1, <2>2 DEF Candidates
  <1>4. ASSUME NEW f \in [1..Len(results) -> Candidates],
               Cardinality(1..Len(results)) > Cardinality(Candidates)
        PROVE  \E x, y \in 1..Len(results) : x # y /\ f[x] = f[y]
    BY <1>2, <1>3, <1>4, FS_PigeonHole
  <1>. QED BY <1>1, <1>2, <1>3, <1>4 DEF ResultsOK

(* Every variable keeps its type; in particular the results channel, made  *)
(* with room for one result per candidate (hedging.go, make(chan           *)
(* hedgeResult, len(candidates))), never holds more, so that no probe ever *)
(* blocks handing its result over.                                         *)
THEOREM TypeCorrect == RaceSpec => []RaceTypeOK
  <1>1. IInv => RaceTypeOK
    <2>. SUFFICES ASSUME IInv PROVE RaceTypeOK
      OBVIOUS
    <2>1. race \in RaceState /\ probe \in [Candidates -> Probe] /\ results \in Seq(Candidates)
          /\ trail \in [Candidates -> Nat] /\ drain \in 0..NumCandidates /\ left \in BOOLEAN
      BY DEF IInv, ProbesOK, OrchestratorOK, ResultsOK, TrailOK, DrainOK
    <2>2. owed \in [Candidates -> Nat]
      BY DEF IInv, OwedOK
    <2>3. Len(results) <= NumCandidates
      BY ChannelBounded DEF IInv
    <2>. QED BY <2>1, <2>2, <2>3 DEF RaceTypeOK, RaceState
  <1>. QED BY <1>1, Inductive, PTL

(* The attempt trail of a decided race names every launch exactly once and *)
(* nothing else, the winner apart: a result read in the loop, a result     *)
(* found queued by settleHedgeLaunches, and a launch that never answered   *)
(* are each recorded, and none of them twice.                              *)
THEOREM OneRecordPerLaunch == RaceSpec => []TrailNamesEveryLaunch
  <1>1. IInv => TrailNamesEveryLaunch
    <2>. SUFFICES ASSUME IInv, race.pc \in {"charge", "cancel", "retry", "answered", "over"},
                         NEW i \in Candidates
                  PROVE  i = race.winner \/ trail[i] = IF i \in Launched THEN 1 ELSE 0
      BY DEF TrailNamesEveryLaunch
    <2>1. i \in Launched <=> i < race.next
      BY DEF IInv, ProbesOK, Launched
    <2>2. race.pc \in {"charge"} \cup Over
      BY DEF Over
    <2>. QED BY <2>1, <2>2 DEF IInv, TrailOK
  <1>. QED BY <1>1, Inductive, PTL

(* No prompt is charged twice and the served one not at all; once the race *)
(* is settled every launch whose result had come is charged exactly when   *)
(* its provider billed it, though the billed flags are read without a lock *)
(* while other probes still set them (charge, chargeAllBut).               *)
THEOREM ChargedOnce == RaceSpec => []PromptChargedOnce
  <1>1. IInv => PromptChargedOnce
    <2>. SUFFICES ASSUME IInv PROVE PromptChargedOnce
      OBVIOUS
    <2>1. \A i \in Candidates : owed[i] <= 1 /\ (i = race.winner => owed[i] = 0)
      <3>. SUFFICES ASSUME NEW i \in Candidates
                    PROVE  owed[i] <= 1 /\ (i = race.winner => owed[i] = 0)
        OBVIOUS
      <3>1. owed[i] \in 0..1 /\ i # 0
        BY CandidatesAssumption DEF IInv, OwedOK, Candidates
      <3>. QED BY <3>1 DEF IInv, OwedOK
    <2>2. race.pc \in {"cancel", "serve", "retry", "answered", "over"} =>
            \A i \in race.settled \ {race.winner} : owed[i] = IF probe[i].billed THEN 1 ELSE 0
      BY DEF IInv, OwedOK, Over
    <2>. QED BY <2>1, <2>2 DEF PromptChargedOnce
  <1>. QED BY <1>1, Inductive, PTL

(* A provider whose attempt was cut because another won is never charged   *)
(* with a fault, whichever of the flag, the cancellation and the probe's   *)
(* own reading of them comes first.                                        *)
THEOREM LosersBlameless == RaceSpec => []LosingIsNoFault
  <1>1. IInv => LosingIsNoFault
    BY DEF IInv, ProbesOK, ProbeOK, LosingIsNoFault
  <1>. QED BY <1>1, Inductive, PTL

(* From the moment a win is read from the channel to the end of its stream *)
(* its body is open and its slot unsettled, neither closed by the probe's  *)
(* deadline goroutine nor released by a settle or a drain; and no slot but *)
(* the winner's is ever settled clean.                                     *)
THEOREM WinnerHandedOver == RaceSpec => []WinnerUncut
  <1>1. IInv => WinnerUncut
    BY DEF IInv, WinnerOK, Uncut, WinnerUncut
  <1>. QED BY <1>1, Inductive, PTL

-----------------------------------------------------------------------------
(***************************************************************************)
(* The race keeps the ledger.                                              *)
(***************************************************************************)

(* The winner's record opens only as it is served. *)
Unserved ==
    race.winner # 0 /\ race.pc \in {"charge", "cancel", "serve"} => trail[race.winner] = 0

LEMMA UnservedKept ==
    ASSUME IInv, Unserved, [RaceNext]_hedge
    PROVE  Unserved'
  <1>1. /\ race \in RaceState /\ trail \in [Candidates -> Nat]
        /\ race.winner # 0 => race.winner \in Candidates /\ race.winner \in race.settled
    BY RaceFacts DEF IInv, TrailOK, OrchestratorOK
  <1>2. CASE UNCHANGED <<race, trail>>
    BY <1>2 DEF Unserved
  <1>3. CASE race'.pc \notin {"charge", "cancel", "serve"}
    BY <1>3 DEF Unserved
  <1>4. CASE settleInFlight
    <2>1. race.pc = "settle" /\ race'.winner = race.winner /\ trail' = record(InFlight)
      BY <1>1, <1>4 DEF settleInFlight, RaceState
    <2>2. race.winner # 0 => trail[race.winner] = 0 /\ race.winner \notin InFlight
      BY <1>1, <2>1 DEF IInv, TrailOK, InFlight
    <2>. QED BY <1>1, <2>1, <2>2 DEF Unserved, record
  <1>5. CASE chargeAllBut \/ startServing
    <2>1. race'.winner = race.winner /\ trail' = trail /\ race.pc \in {"charge", "cancel"}
      BY <1>1, <1>5 DEF chargeAllBut, startServing, RaceState
    <2>. QED BY <2>1 DEF Unserved
  <1>6. ASSUME NEW i \in Candidates, ProbeStep(i) \/ AttemptExpires(i)
        PROVE  UNCHANGED <<race, trail>>
    BY <1>6 DEF ProbeStep, admitCandidate, buildCandidateRequest, doUpstreamFails,
                doUpstreamAnswers, TakesOn, probeDeadline, probeFirstToken, ProbeFailed,
                classifyProbeError, commitHedgeWin, deliverResult, AttemptExpires, Step
  <1>7. CASE ResultWins \/ ResultLoses \/ settleQueued \/ serveHedgeWinner \/ retryAfterSlotFrees
             \/ returnFromRace \/ hedgeTimer \/ RaceAbandoned
    <2>1. race'.pc \notin {"charge", "cancel", "serve"}
      BY <1>1, <1>7 DEF ResultWins, ResultLoses, settleQueued, serveHedgeWinner,
                        retryAfterSlotFrees, returnFromRace, hedgeTimer, RaceAbandoned, RaceState
    <2>. QED BY <1>3, <2>1
  <1>8. CASE cancelExcept \/ drainHedgeResults \/ ClientLeaves \/ UNCHANGED hedge
    BY <1>2, <1>8 DEF cancelExcept, drainHedgeResults, ClientLeaves, hedge
  <1>. QED BY <1>2, <1>4, <1>5, <1>6, <1>7, <1>8 DEF RaceNext, Orchestrate

(* Once it is decided which launches are in, the books have them all. *)
LEMMA BooksComplete ==
    ASSUME IInv, race.pc \in {"charge"} \cup Over
    PROVE  Ledger!Recorded
  <1>1. race.next \in 1..(NumCandidates + 1) /\ NumCandidates \in Nat
    BY RaceFacts, CandidatesAssumption
  <1>2. \A i \in 1..(race.next - 1) : i \in Candidates /\ i < race.next
    BY <1>1 DEF Candidates
  <1>. QED BY <1>2 DEF IInv, TrailOK, Ledger!Recorded, Ledger!Launched

LEMMA BooksCompleteNext ==
    ASSUME IInv', race'.pc \in {"charge"} \cup Over
    PROVE  Ledger!Recorded'
  <1>1. race'.next \in 1..(NumCandidates + 1) /\ NumCandidates \in Nat
    BY CandidatesAssumption DEF IInv, OrchestratorOK, RaceState
  <1>2. \A i \in 1..(race'.next - 1) : i \in Candidates /\ i < race'.next
    BY <1>1 DEF Candidates
  <1>. QED BY <1>2 DEF IInv, TrailOK, Ledger!Recorded, Ledger!Launched

(* A record, and a charge, of what had none. *)
LEMMA RecordsOnce ==
    ASSUME trail \in [Candidates -> Nat], NEW I \in SUBSET Candidates, \A i \in I : trail[i] = 0
    PROVE  record(I) = Ledger!Once(trail, I) /\ Ledger!Blank(trail, I)
  <1>1. \A i \in Candidates : trail[i] + (IF i \in I THEN 1 ELSE 0) = IF i \in I THEN 1 ELSE trail[i]
    OBVIOUS
  <1>. QED BY <1>1 DEF record, Ledger!Once, Ledger!Blank, Ledger!Candidates, Candidates

LEMMA ChargesOnce ==
    ASSUME owed \in [Candidates -> 0..1], NEW I \in SUBSET Candidates, NEW J,
           J = {i \in I : probe[i].billed /\ owed[i] = 0}
    PROVE  charge(I) = Ledger!Once(owed, J) /\ Ledger!Blank(owed, J)
  <1>1. \A i \in Candidates :
            owed[i] + (IF i \in I /\ probe[i].billed /\ owed[i] = 0 THEN 1 ELSE 0)
            = IF i \in J THEN 1 ELSE owed[i]
    OBVIOUS
  <1>. QED BY <1>1 DEF charge, Ledger!Once, Ledger!Blank, Ledger!Candidates, Candidates

(* Who was launched is the count of launches. *)
LEMMA LaunchedInOrder ==
    ASSUME IInv
    PROVE  Launched = Ledger!Launched /\ Ledger!Launched \subseteq Candidates
  <1>1. race.next \in 1..(NumCandidates + 1) /\ NumCandidates \in Nat
    BY RaceFacts, CandidatesAssumption
  <1>2. \A i : i \in 1..(race.next - 1) <=> i \in Candidates /\ i < race.next
    BY <1>1 DEF Candidates
  <1>. QED BY <1>2 DEF IInv, ProbesOK, Launched, Ledger!Launched

(* The first result that won decides the race. *)
LEMMA WinRefines ==
    ASSUME IInv, ResultWins
    PROVE  Ledger!LedgerNext
  <1>1. PICK i \in Candidates : i = Head(results)
    BY HeadFacts DEF ResultWins
  <1>2. i \notin race.settled /\ probe[i].pc = "done" /\ race.pc = "race" /\ i # race.winner
    BY <1>1, HeadFacts DEF ResultWins
  <1>3. trail[i] = 0 /\ owed[i] = 0
    BY <1>2 DEF IInv, TrailOK, OwedOK
  <1>4. i \in Ledger!Launched
    BY <1>2, LaunchedInOrder DEF Launched
  <1>5. race' = [race EXCEPT !.pc = "settle", !.winner = i, !.settled = @ \cup {i}]
    BY <1>1 DEF ResultWins
  <1>6. race'.pc = "settle" /\ race'.winner = i /\ race'.next = race.next
    BY <1>5, RaceFacts DEF RaceState
  <1>7. Ledger!Win(i)
    BY <1>2, <1>3, <1>4, <1>6 DEF Ledger!Win, ResultWins, Stage
  <1>. QED BY <1>7 DEF Ledger!LedgerNext, Ledger!Candidates, Candidates

(* One that lost is entered in the books. *)
LEMMA LoseRefines ==
    ASSUME IInv, IInv', ResultLoses
    PROVE  Ledger!LedgerNext
  <1>1. PICK i \in Candidates : i = Head(results)
    BY HeadFacts DEF ResultLoses
  <1>2. i \notin race.settled /\ probe[i].pc = "done" /\ race.pc = "race" /\ i # race.winner
    BY <1>1, HeadFacts DEF ResultLoses
  <1>3. trail[i] = 0 /\ owed[i] = 0 /\ trail \in [Candidates -> Nat] /\ owed \in [Candidates -> 0..1]
    BY <1>2 DEF IInv, TrailOK, OwedOK
  <1>4. i \in Ledger!Launched
    BY <1>2, LaunchedInOrder DEF Launched
  <1>5. {i} \in SUBSET Candidates /\ trail' = record({i}) /\ owed' = charge({i})
    BY <1>1 DEF ResultLoses
  <1>6. Ledger!Blank(trail, {i}) /\ trail' = Ledger!Once(trail, {i})
    BY <1>3, <1>5, RecordsOnce
  <1>7. owed' = owed \/ (Ledger!Blank(owed, {i}) /\ owed' = Ledger!Once(owed, {i}))
    <2>1. PICK J : J = {j \in {i} : probe[j].billed /\ owed[j] = 0}
      OBVIOUS
    <2>2. Ledger!Blank(owed, J) /\ owed' = Ledger!Once(owed, J)
      BY <1>3, <1>5, <2>1, ChargesOnce
    <2>3. J = {i} \/ J = {}
      BY <2>1
    <2>4. J = {} => Ledger!Once(owed, J) = owed
      BY <1>3 DEF Ledger!Once, Ledger!Candidates, Candidates
    <2>. QED BY <2>2, <2>3, <2>4
  <1>8. /\ race'.next = IF HasNext THEN race.next + 1 ELSE race.next
        /\ race'.winner = race.winner
        /\ race'.pc \in {"race", "retry", "answered"}
        /\ HasNext => race'.pc = "race"
    BY RaceFacts DEF ResultLoses, RaceState
  <1>9. race'.pc # "race" => Ledger!Recorded'
    BY <1>8, BooksCompleteNext DEF Over
  <1>10. race.next \in 1..(NumCandidates + 1) /\ NumCandidates \in Nat
    BY RaceFacts, CandidatesAssumption
  <1>11. Stage = "open" /\ Stage' \in {"open", "decided", "answered"}
         /\ (Stage' # "open" <=> race'.pc # "race")
    BY <1>2 DEF Stage
  <1>12. \/ /\ race.next - 1 < NumCandidates /\ race'.next - 1 = (race.next - 1) + 1
            /\ Stage' = Stage
         \/ /\ race.next - 1 = NumCandidates /\ race'.next - 1 = race.next - 1
            /\ Stage' # "open" => Ledger!Recorded'
            /\ Stage' \in {"open", "decided", "answered"}
    BY <1>8, <1>9, <1>10, <1>11 DEF HasNext
  <1>13. Ledger!Lose(i)
    BY <1>4, <1>6, <1>7, <1>8, <1>11, <1>12 DEF Ledger!Lose
  <1>. QED BY <1>13 DEF Ledger!LedgerNext, Ledger!Candidates, Candidates

(* The timer launches the next candidate; the deadline decides the race    *)
(* without a winner.                                                       *)
LEMMA TimersRefine ==
    ASSUME IInv, hedgeTimer \/ RaceAbandoned
    PROVE  Ledger!LedgerNext
  <1>1. race \in RaceState /\ race.next \in 1..(NumCandidates + 1) /\ NumCandidates \in Nat
    BY RaceFacts, CandidatesAssumption
  <1>2. CASE hedgeTimer
    <2>1. race'.next = race.next + 1 /\ race'.pc = "race" /\ race'.winner = race.winner
          /\ race.pc = "race"
      BY <1>1, <1>2 DEF hedgeTimer, RaceState
    <2>2. Ledger!Launch
      BY <1>1, <1>2, <2>1 DEF hedgeTimer, HasNext, Ledger!Launch, Stage
    <2>. QED BY <2>2 DEF Ledger!LedgerNext
  <1>3. CASE RaceAbandoned
    <2>1. race'.next = race.next /\ race'.pc = "settle" /\ race'.winner = race.winner
          /\ race.pc = "race"
      BY <1>1, <1>3 DEF RaceAbandoned, RaceState
    <2>2. Ledger!Abandon
      BY <1>3, <2>1 DEF RaceAbandoned, Ledger!Abandon, Stage
    <2>. QED BY <2>2 DEF Ledger!LedgerNext
  <1>. QED BY <1>2, <1>3

(* What the exit finds queued, or still running, is entered. *)
LEMMA SettlementRefines ==
    ASSUME IInv, settleQueued \/ settleInFlight
    PROVE  Ledger!LedgerNext
  <1>1. /\ race \in RaceState /\ race.pc = "settle" /\ trail \in [Candidates -> Nat]
        /\ \A i \in Candidates : trail[i] = IF i \in race.settled \ {race.winner} THEN 1 ELSE 0
        /\ race.winner # 0 => race.winner \in race.settled
        /\ \A i \in Candidates : i # 0
    BY RaceFacts DEF IInv, TrailOK, OrchestratorOK, settleQueued, settleInFlight
  <1>2. ASSUME NEW I \in SUBSET Candidates, I \subseteq Launched, I \cap race.settled = {},
               trail' = record(I), race'.pc \in {"settle", "charge"}, race'.next = race.next,
               race'.winner = race.winner, owed' = owed
        PROVE  Ledger!LedgerNext
    <2>1. \A i \in I : trail[i] = 0 /\ i # race.winner
      BY <1>1, <1>2
    <2>2. Ledger!Blank(trail, I) /\ trail' = Ledger!Once(trail, I)
      BY <1>1, <1>2, <2>1, RecordsOnce
    <2>3. I \subseteq Ledger!Launched \ {race.winner}
      BY <1>2, <2>1, LaunchedInOrder
    <2>4. Ledger!Record(I)
      BY <1>1, <1>2, <2>2, <2>3 DEF Ledger!Record, Stage
    <2>. QED BY <2>4 DEF Ledger!LedgerNext, Ledger!Candidates, Candidates
  <1>3. CASE settleQueued
    <2>1. PICK i \in Candidates : i = Head(results)
      BY <1>3, HeadFacts DEF settleQueued
    <2>2. i \notin race.settled /\ i \in Launched
      BY <1>3, <2>1, HeadFacts DEF settleQueued, Launched
    <2>3. /\ race'.pc = "settle" /\ race'.next = race.next /\ race'.winner = race.winner
          /\ trail' = record({i}) /\ owed' = owed
      BY <1>1, <1>3, <2>1 DEF settleQueued, RaceState
    <2>. QED BY <1>2, <2>2, <2>3
  <1>4. CASE settleInFlight
    <2>1. PICK I \in SUBSET Candidates : I = InFlight
      BY DEF InFlight, Launched
    <2>2. /\ race'.pc = "charge" /\ race'.next = race.next /\ race'.winner = race.winner
          /\ trail' = record(I) /\ owed' = owed
      BY <1>1, <1>4, <2>1 DEF settleInFlight, RaceState
    <2>. QED BY <1>2, <2>1, <2>2 DEF InFlight
  <1>. QED BY <1>3, <1>4

(* Every prompt owed is charged with the books complete; without a winner  *)
(* that is the answer.                                                     *)
LEMMA ChargeRefines ==
    ASSUME IInv, chargeAllBut
    PROVE  Ledger!LedgerNext
  <1>1. race \in RaceState /\ race.pc = "charge" /\ owed \in [Candidates -> 0..1]
    BY RaceFacts DEF IInv, OwedOK, chargeAllBut
  <1>2. PICK I \in SUBSET Candidates : I = Launched \ {race.winner}
    BY DEF Launched
  <1>3. PICK J \in SUBSET Candidates : J = {i \in I : probe[i].billed /\ owed[i] = 0}
    OBVIOUS
  <1>4. /\ owed' = charge(I) /\ trail' = trail
        /\ race'.next = race.next /\ race'.winner = race.winner
        /\ race'.pc = IF race.winner # 0 THEN "cancel" ELSE "answered"
    BY <1>1, <1>2 DEF chargeAllBut, RaceState
  <1>5. Ledger!Blank(owed, J) /\ owed' = Ledger!Once(owed, J)
    BY <1>1, <1>3, <1>4, ChargesOnce
  <1>6. J \subseteq Ledger!Launched \ {race.winner}
    BY <1>2, <1>3, LaunchedInOrder
  <1>7. Ledger!Recorded
    BY <1>1, BooksComplete
  <1>8. Ledger!Charge(J)
    BY <1>1, <1>4, <1>5, <1>6, <1>7 DEF Ledger!Charge, Stage
  <1>. QED BY <1>8 DEF Ledger!LedgerNext, Ledger!Candidates, Candidates

(* The answer: the winner's stream, or the end of the wait for a slot. *)
LEMMA AnswerRefines ==
    ASSUME IInv, Unserved, serveHedgeWinner \/ retryAfterSlotFrees
    PROVE  Ledger!LedgerNext
  <1>1. race \in RaceState /\ race.pc \in {"serve", "retry"} /\ trail \in [Candidates -> Nat]
    BY RaceFacts DEF IInv, TrailOK, serveHedgeWinner, retryAfterSlotFrees
  <1>2. Ledger!Recorded
    BY <1>1, BooksComplete DEF Over
  <1>3. race'.pc = "answered" /\ race'.next = race.next /\ race'.winner = race.winner /\ owed' = owed
    BY <1>1 DEF serveHedgeWinner, retryAfterSlotFrees, RaceState
  <1>4. CASE serveHedgeWinner
    <2>1. race.pc = "serve" /\ race.winner # 0 /\ race.winner \in Candidates
      BY <1>4, RaceFacts DEF serveHedgeWinner, IInv, OrchestratorOK
    <2>2. PICK w \in Candidates : w = race.winner
      BY <2>1
    <2>3. trail' = record({w}) /\ trail[w] = 0 /\ {w} \in SUBSET Candidates
      BY <1>4, <2>1, <2>2 DEF serveHedgeWinner, Unserved
    <2>4. Ledger!Blank(trail, {w}) /\ trail' = Ledger!Once(trail, {w})
      BY <1>1, <2>3, RecordsOnce
    <2>5. Ledger!Serve
      BY <1>2, <1>3, <2>1, <2>2, <2>4 DEF Ledger!Serve, Stage
    <2>. QED BY <2>5 DEF Ledger!LedgerNext
  <1>5. CASE retryAfterSlotFrees
    <2>1. race.pc = "retry" /\ race.winner = 0 /\ trail' = trail
      BY <1>5 DEF retryAfterSlotFrees, IInv, OrchestratorOK
    <2>2. Ledger!Refuse
      BY <1>2, <1>3, <2>1 DEF Ledger!Refuse, Stage
    <2>. QED BY <2>2 DEF Ledger!LedgerNext
  <1>. QED BY <1>4, <1>5

(* Every other step leaves the ledger alone: the probes' own, the          *)
(* cancelling of the losers, the deferred calls and the background drain.  *)
LEMMA OthersRest ==
    ASSUME IInv,
           \/ \E i \in Candidates : ProbeStep(i) \/ AttemptExpires(i)
           \/ cancelExcept \/ startServing \/ returnFromRace \/ drainHedgeResults
           \/ ClientLeaves \/ UNCHANGED hedge
    PROVE  UNCHANGED Ledger!ledger
  <1>1. race \in RaceState
    BY RaceFacts
  <1>2. CASE UNCHANGED <<race, trail, owed>>
    BY <1>2 DEF Ledger!ledger, Stage
  <1>3. ASSUME NEW i \in Candidates, ProbeStep(i) \/ AttemptExpires(i)
        PROVE  UNCHANGED <<race, trail, owed>>
    BY <1>3 DEF ProbeStep, admitCandidate, buildCandidateRequest, doUpstreamFails,
                doUpstreamAnswers, TakesOn, probeDeadline, probeFirstToken, ProbeFailed,
                classifyProbeError, commitHedgeWin, deliverResult, AttemptExpires, Step
  <1>4. CASE cancelExcept \/ drainHedgeResults \/ ClientLeaves \/ UNCHANGED hedge
    BY <1>2, <1>4 DEF cancelExcept, drainHedgeResults, ClientLeaves, hedge
  <1>5. CASE startServing \/ returnFromRace
    <2>1. /\ race'.next = race.next /\ race'.winner = race.winner /\ UNCHANGED <<trail, owed>>
          /\ \/ race.pc = "cancel" /\ race'.pc = "serve"
             \/ race.pc = "answered" /\ race'.pc = "over"
      BY <1>1, <1>5 DEF startServing, returnFromRace, RaceState
    <2>. QED BY <2>1 DEF Ledger!ledger, Stage
  <1>. QED BY <1>2, <1>3, <1>4, <1>5

(* A hedged request of any number of candidates keeps the ledger, in       *)
(* whatever order results, hedge ticks, deadline and hang-up come:         *)
(* candidates are launched in order and none after the decision, the       *)
(* client is answered once, by one winner or by a failure, and by then     *)
(* every launch has one record and no prompt was charged twice, after      *)
(* which the books are closed (runHedgedStreaming, settleHedgeLaunches,    *)
(* chargeAllBut, serveHedgeWinner).                                        *)
THEOREM RaceRefinesLedger == RaceSpec => RaceLedgerSpec
  <1>1. RaceInit => Ledger!LedgerInit /\ Unserved
    <2>. SUFFICES ASSUME RaceInit PROVE Ledger!LedgerInit /\ Unserved
      OBVIOUS
    <2>1. race.pc = "race" /\ race.next = 2 /\ race.winner = 0
      BY DEF RaceInit
    <2>. QED BY <2>1 DEF RaceInit, Ledger!LedgerInit, Ledger!Candidates, Candidates, Stage, Unserved
  <1>2. ASSUME IInv, Unserved, [RaceNext]_hedge
        PROVE  [Ledger!LedgerNext]_(Ledger!ledger)
    <2>1. IInv'
      BY <1>2, StepKeeps
    <2>. QED BY <1>2, <2>1, WinRefines, LoseRefines, TimersRefine, SettlementRefines, ChargeRefines,
                AnswerRefines, OthersRest DEF RaceNext, Orchestrate
  <1>3. IInv /\ Unserved /\ [RaceNext]_hedge => Unserved'
    BY UnservedKept
  <1>. QED BY <1>1, <1>2, <1>3, Inductive, PTL DEF RaceSpec, RaceLedgerSpec, Ledger!LedgerSpec
=============================================================================
