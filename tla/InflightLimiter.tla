-------------------------- MODULE InflightLimiter --------------------------
(***************************************************************************)
(* The adaptive in-flight limiter of internal/proxy: a learned allowance   *)
(* per provider, the slot each attempt holds between send and last byte,   *)
(* and the wait of a request that found every candidate busy.              *)
(*                                                                         *)
(* A request walks its candidates in priority order, one attempt at a      *)
(* time.  The methods of inflightLimiter run under l.mu and are one step   *)
(* each; between them the goroutines of other requests, and for a stream   *)
(* the goroutines that close its body, interleave freely.                  *)
(*                                                                         *)
(* Left out: the wait before a last candidate's one-shot retry, and the    *)
(* race of a hedged request.  Both make further attempts through the same  *)
(* gate, as other requests do here; the settlement of a lost hedge is      *)
(* JudgedSettles with a verdict that is no evidence.                       *)
(***************************************************************************)
EXTENDS Integers, FiniteSets

CONSTANTS
    NumProviders,  \* the candidates, 1 the most preferred
    Requests,      \* request goroutines
    Ceiling,       \* per provider, max_in_flight; 0 is none
    GrowAfter,     \* inflight_grow_after
    ForgetAfter,   \* inflight_forget_after
    RetryAfters,   \* Retry-After of a saturated 429; 0 is none
    Surfaces,      \* per request, the ways a 2xx is served it may ask for
    MaxLimit       \* a learned allowance stops counting here

Providers == 1..NumProviders

(* "stream": the finalizer judges it.  "buffered": a chat answer, read     *)
(* whole and then judged.  "passthrough": a native-dialect answer or a     *)
(* JSON answer of the multimodal families, read whole and then judged.     *)
(* "copied": anything else, copied to the client as it arrives.            *)
AllSurfaces == {"stream", "buffered", "passthrough", "copied"}

ASSUME ProvidersAssumption ==
    NumProviders \in Nat \ {0} /\ Ceiling \in [Providers -> Nat]

ASSUME RequestsAssumption ==
    IsFiniteSet(Requests) /\ Surfaces \in [Requests -> SUBSET AllSurfaces]

(* An allowance beyond the number of requests never binds, and a cut       *)
(* always undercuts it, so counting it further tells nothing apart.        *)
ASSUME BoundsAssumption ==
    /\ GrowAfter \in Nat \ {0} /\ ForgetAfter \in Nat \ {0}
    /\ RetryAfters \subseteq Nat
    /\ MaxLimit \in Nat /\ MaxLimit > Cardinality(Requests)

VARIABLES
    windows,    \* per provider, its inflightWindow
    reqs,       \* per request, where its walk is and the attempt it makes
    signalled   \* per request, whether the notify channel it holds is closed

vars == <<windows, reqs, signalled>>

Outcomes == {"clean", "unclean", "neutral"}
Verdicts == {"none", "served", "fault", "abandoned"}

(* sinceCut is time.Since(lastCut): negative while a Retry-After defers    *)
(* the forget clock, and not counted past ForgetAfter.                     *)
Window ==
    [limit : 0..MaxLimit, inflight : Nat, goodRuns : Nat, sinceCut : Int]
NewWindow == [limit |-> 0, inflight |-> 0, goodRuns |-> 0, sinceCut |-> 0]

WalkPCs  == {"idle", "walk", "wait", "woken", "checking", "asleep", "retry"}
SlotPCs  == {"sent", "answered", "reading", "judged", "over",
             "drawn", "cut", "refused"}

(* slot is how the attempt's slot was settled, "held" until it was; hold   *)
(* is attemptSlot.held, onEOF and clean are the body wrapper's, body is    *)
(* how the reads of the body have ended.                                   *)
Request ==
    [ pc : WalkPCs \cup SlotPCs, at : 1..(NumProviders + 1),
      busy : SUBSET Providers, waited : BOOLEAN,
      surface : AllSurfaces, slot : {"none", "held"} \cup Outcomes,
      hold : BOOLEAN, onEOF : BOOLEAN, clean : BOOLEAN,
      body : {"open", "eof", "closed"},
      verdict : Verdicts ]

Idle ==
    [ pc |-> "idle", at |-> 1, busy |-> {}, waited |-> FALSE,
      surface |-> "stream", slot |-> "none", hold |-> FALSE, onEOF |-> FALSE,
      clean |-> FALSE, body |-> "open", verdict |-> "none" ]

-----------------------------------------------------------------------------
(***************************************************************************)
(* The window.                                                             *)
(***************************************************************************)
(* Fault: the learned allowance, where there is one, hides the ceiling. *)
LearnedFirst(learned, ceiling) == IF learned > 0 THEN learned ELSE ceiling

EffectiveLimit(learned, ceiling) ==
    IF ceiling > 0 /\ (learned = 0 \/ ceiling < learned) THEN ceiling ELSE learned

(* Fault: one more than the limit is let in. *)
AdmitsAtLimit(w, ceiling) ==
    LET limit == EffectiveLimit(w.limit, ceiling)
    IN  limit = 0 \/ w.inflight <= limit

CanAdmit(w, ceiling) ==
    LET limit == EffectiveLimit(w.limit, ceiling)
    IN  limit = 0 \/ w.inflight < limit

Forgotten(w) == [w EXCEPT !.limit = 0, !.goodRuns = 0, !.sinceCut = 0]

(* release under the lock: the slot, then what the outcome teaches. *)
Release(w, outcome) ==
    LET freed == [w EXCEPT !.inflight = IF @ > 0 THEN @ - 1 ELSE 0]
        quiet == w.sinceCut >= ForgetAfter
    IN  IF w.limit = 0 THEN freed
        ELSE IF quiet THEN Forgotten(freed)
        ELSE IF outcome = "neutral" THEN freed
        ELSE IF outcome = "unclean" THEN [freed EXCEPT !.goodRuns = 0]
        ELSE IF w.goodRuns + 1 < GrowAfter THEN [freed EXCEPT !.goodRuns = @ + 1]
        ELSE [freed EXCEPT !.goodRuns = 0,
                           !.limit = IF @ < MaxLimit THEN @ + 1 ELSE @]

(* Fault: an empty pool is cut to an allowance of zero, which is none. *)
UnflooredCut(w, retryAfter) ==
    [w EXCEPT !.limit = IF @ = 0 \/ w.inflight < @ THEN w.inflight ELSE @,
              !.goodRuns = 0, !.sinceCut = 0 - retryAfter]

(* The load that fit, at least one; never wider than what is learned.      *)
Capped(w) ==
    LET load == IF w.inflight > 1 THEN w.inflight ELSE 1
    IN  IF w.limit = 0 \/ load < w.limit THEN load ELSE w.limit

Cut(w, retryAfter) ==
    [w EXCEPT !.limit = Capped(w), !.goodRuns = 0, !.sinceCut = 0 - retryAfter]

HintFull(w) ==
    IF Capped(w) = w.limit THEN w
    ELSE [w EXCEPT !.limit = Capped(w), !.goodRuns = 0, !.sinceCut = 0]

-----------------------------------------------------------------------------
Holds(r)    == reqs[r].slot = "held"
Holders(p)  == {r \in Requests : reqs[r].at = p /\ Holds(r)}
Waiting(r)  == reqs[r].pc \in {"checking", "asleep"}

Init ==
    /\ windows = [p \in Providers |-> NewWindow]
    /\ reqs = [r \in Requests |-> Idle]
    /\ signalled = [r \in Requests |-> FALSE]

(* Fault: every settle releases, not only the first. *)
SettleAgain(r, outcome, after) ==
    LET p == reqs[r].at
    IN  /\ reqs' = [reqs EXCEPT ![r] =
               IF reqs[r].slot = "held" /\ after.slot = "held"
               THEN [after EXCEPT !.slot = outcome] ELSE after]
        /\ windows' = [windows EXCEPT ![p] = Release(@, outcome)]
        /\ signalled' = [q \in Requests |-> Waiting(q)]

(***************************************************************************)
(* attemptSlot.settle, as the step that leaves request r as "after": only  *)
(* the first settle releases, and a release closes the notify channel      *)
(* every waiter holds.  An attempt that is over keeps no slot.             *)
(***************************************************************************)
Settle(r, outcome, after) ==
    LET p == reqs[r].at
    IN  /\ reqs' = [reqs EXCEPT ![r] =
               IF reqs[r].slot = "held" /\ after.slot = "held"
               THEN [after EXCEPT !.slot = outcome] ELSE after]
        /\ IF reqs[r].slot # "held" THEN UNCHANGED <<windows, signalled>>
           ELSE /\ windows' = [windows EXCEPT ![p] = Release(@, outcome)]
                /\ signalled' = [q \in Requests |-> Waiting(q)]

(* What the wrapper's EOF or close settles with. *)
ByStatus(req) == IF req.clean THEN "clean" ELSE "unclean"

(***************************************************************************)
(* Where the walk goes from an attempt that did not serve.  In the walk    *)
(* the next candidate; past the last one, to the wait if some were busy.   *)
(* After the wait, a failure ends the request and a refused body leaves    *)
(* the other busy candidates to wait for.                                  *)
(***************************************************************************)
NextCandidate(req, busy) ==
    IF req.at < NumProviders
    THEN [Idle EXCEPT !.pc = "walk", !.at = req.at + 1, !.busy = busy,
                      !.surface = req.surface]
    ELSE IF busy = {} THEN Idle
    ELSE [Idle EXCEPT !.pc = "wait", !.busy = busy, !.waited = TRUE,
                      !.surface = req.surface]

FailedOver(req) == IF req.waited THEN Idle ELSE NextCandidate(req, req.busy)

Skipped(req) ==
    IF ~req.waited THEN NextCandidate(req, req.busy)
    ELSE IF req.busy = {req.at} THEN Idle
    ELSE [Idle EXCEPT !.pc = "wait", !.busy = req.busy \ {req.at},
                      !.waited = TRUE, !.surface = req.surface]

HasMore(req) == ~req.waited /\ req.at < NumProviders

-----------------------------------------------------------------------------
(***************************************************************************)
(* The walk and the wait.                                                  *)
(***************************************************************************)
Arrive(r, surface) ==
    /\ reqs[r].pc = "idle"
    /\ reqs' = [reqs EXCEPT ![r] = [Idle EXCEPT !.pc = "walk", !.surface = surface]]
    /\ UNCHANGED <<windows, signalled>>

(* admitCandidate. *)
Admitted(r) ==
    LET req == reqs[r]
    IN  /\ req.pc \in {"walk", "retry"}
        /\ CanAdmit(windows[req.at], Ceiling[req.at])
        /\ windows' = [windows EXCEPT ![req.at].inflight = @ + 1]
        /\ reqs' = [reqs EXCEPT ![r] = [req EXCEPT !.pc = "sent", !.slot = "held"]]
        /\ UNCHANGED signalled

Busy(r) ==
    LET req == reqs[r]
    IN  /\ req.pc \in {"walk", "retry"}
        /\ ~CanAdmit(windows[req.at], Ceiling[req.at])
        /\ reqs' = [reqs EXCEPT ![r] =
               IF req.waited THEN [req EXCEPT !.pc = "wait", !.at = 1]
               ELSE NextCandidate(req, req.busy \cup {req.at})]
        /\ UNCHANGED <<windows, signalled>>

(* waitForSlot takes the channel before it looks for room, because a       *)
(* release may come between the two.                                       *)
Snapshot(r) ==
    /\ reqs[r].pc \in {"wait", "woken"}
    /\ reqs' = [reqs EXCEPT ![r].pc = "checking", ![r].at = 1]
    /\ signalled' = [signalled EXCEPT ![r] = FALSE]
    /\ UNCHANGED windows

(* Fault: the channel is taken when the request goes to sleep. *)
CheckThenSnapshot(r) ==
    LET req == reqs[r]
    IN  /\ req.pc = "checking"
        /\ reqs' = [reqs EXCEPT ![r] =
               IF req.at > NumProviders THEN [req EXCEPT !.pc = "asleep", !.at = 1]
               ELSE IF req.at \in req.busy /\ CanAdmit(windows[req.at], Ceiling[req.at])
               THEN [req EXCEPT !.pc = "retry"]
               ELSE [req EXCEPT !.at = @ + 1]]
        /\ signalled' = [signalled EXCEPT ![r] = @ /\ req.at <= NumProviders]
        /\ UNCHANGED windows

(* The admit closure, one canAdmit per step. *)
Check(r) ==
    LET req == reqs[r]
    IN  /\ req.pc = "checking"
        /\ reqs' = [reqs EXCEPT ![r] =
               IF req.at > NumProviders THEN [req EXCEPT !.pc = "asleep", !.at = 1]
               ELSE IF req.at \in req.busy /\ CanAdmit(windows[req.at], Ceiling[req.at])
               THEN [req EXCEPT !.pc = "retry"]
               ELSE [req EXCEPT !.at = @ + 1]]
        /\ UNCHANGED <<windows, signalled>>

Wake(r) ==
    /\ reqs[r].pc = "asleep" /\ signalled[r]
    /\ reqs' = [reqs EXCEPT ![r].pc = "woken"]
    /\ signalled' = [signalled EXCEPT ![r] = FALSE]
    /\ UNCHANGED windows

(* The deadline, or the client leaving, between two attempts or while      *)
(* the request waits.                                                      *)
Expire(r) ==
    /\ reqs[r].pc \in {"walk", "wait", "asleep"}
    /\ reqs' = [reqs EXCEPT ![r] = Idle]
    /\ signalled' = [signalled EXCEPT ![r] = FALSE]
    /\ UNCHANGED windows

-----------------------------------------------------------------------------
(***************************************************************************)
(* The attempt.                                                            *)
(***************************************************************************)

(* A request that could not be built or sent: refused before the wire      *)
(* (skipped), failed at the provider, or left by its client (ended).       *)
SendFails(r, how) ==
    LET req == reqs[r]
    IN  /\ req.pc = "sent"
        /\ \/ how = "skipped" /\ Settle(r, "neutral", Skipped(req))
           \/ how = "failed" /\ Settle(r, "unclean", FailedOver(req))
           \/ how = "ended" /\ Settle(r, "neutral", Idle)

(* finishAttemptAdmission: the slot rides the body from here. *)
Answered(r, status, full) ==
    LET req == reqs[r]
    IN  /\ req.pc = "sent"
        /\ reqs' = [reqs EXCEPT ![r] =
               [req EXCEPT !.pc = IF status = "ok" THEN "answered"
                                  ELSE IF status = "saturated" THEN "drawn"
                                  ELSE "refused",
                           !.clean = (status = "ok"), !.onEOF = TRUE]]
        /\ windows' = IF full THEN [windows EXCEPT ![req.at] = HintFull(@)] ELSE windows
        /\ UNCHANGED signalled

(* Fault: the cut comes before the slot is settled. *)
DrawnUnsettled(r) ==
    /\ reqs[r].pc = "drawn"
    /\ reqs' = [reqs EXCEPT ![r].pc = "cut"]
    /\ UNCHANGED <<windows, signalled>>

(* A saturated 429: its own slot first, then the cut. *)
Drawn(r) ==
    /\ reqs[r].pc = "drawn"
    /\ Settle(r, "unclean", [reqs[r] EXCEPT !.pc = "cut"])

CutOn429(r, retryAfter) ==
    LET req == reqs[r]
    IN  /\ req.pc = "cut"
        /\ windows' = [windows EXCEPT ![req.at] = Cut(@, retryAfter)]
        /\ reqs' = [reqs EXCEPT ![r] = [req EXCEPT !.pc = "refused"]]
        /\ UNCHANGED signalled

(* Any other status: the body is drained and closed, and the candidate     *)
(* left, or the error forwarded.                                           *)
DropRefusal(r, forwarded) ==
    LET req == reqs[r]
    IN  /\ req.pc = "refused"
        /\ Settle(r, ByStatus(req), IF forwarded THEN Idle ELSE FailedOver(req))

(* Fault: a body read whole before its verdict may settle at its EOF. *)
DispatchUnheld(r) ==
    LET req == reqs[r]
    IN  /\ req.pc = "answered"
        /\ reqs' = [reqs EXCEPT ![r] =
               [req EXCEPT !.pc = "reading", !.hold = (req.surface = "stream")]]
        /\ UNCHANGED <<windows, signalled>>

(* A stream raises the verdict hold before anyone reads its body, a body   *)
(* that is read whole stops its EOF from settling.                         *)
Dispatch(r) ==
    LET req == reqs[r]
    IN  /\ req.pc = "answered"
        /\ reqs' = [reqs EXCEPT ![r] =
               [req EXCEPT !.pc = "reading", !.hold = (req.surface = "stream"),
                           !.onEOF = req.surface \notin {"buffered", "passthrough"}]]
        /\ UNCHANGED <<windows, signalled>>

(* inflightRelease.Read at the end of the body. *)
BodyEOF(r) ==
    LET req == reqs[r]
        ended == [req EXCEPT !.body = "eof"]
    IN  /\ req.pc = "reading" /\ req.body = "open"
        /\ IF req.onEOF /\ ~req.hold THEN Settle(r, ByStatus(req), ended)
           ELSE reqs' = [reqs EXCEPT ![r] = ended] /\ UNCHANGED <<windows, signalled>>

(* inflightRelease.Close from the probe's, the watchdog's or the           *)
(* shutdown's goroutine: only a stream's body is closed from another one.  *)
BodyClosed(r) ==
    LET req == reqs[r]
        ended == [req EXCEPT !.body = "closed"]
    IN  /\ req.pc = "reading" /\ req.surface = "stream" /\ req.body = "open"
        /\ IF ~req.hold THEN Settle(r, ByStatus(req), ended)
           ELSE reqs' = [reqs EXCEPT ![r] = ended] /\ UNCHANGED <<windows, signalled>>

(* The verdict.  A body is served only if it came to its end, a stream     *)
(* also at its [DONE], past which nothing is read; an empty or unreadable  *)
(* one is a fault.  Abandoned is no evidence: the client left, another     *)
(* hedge won, or the body failed for a reason of the caller's own.         *)
Judge(r, verdict) ==
    LET req == reqs[r]
    IN  /\ req.pc = "reading"
        /\ verdict = "served" => req.surface = "stream" \/ req.body = "eof"
        /\ reqs' = [reqs EXCEPT ![r] = [req EXCEPT !.pc = "judged", !.verdict = verdict]]
        /\ UNCHANGED <<windows, signalled>>

OutcomeOf(verdict) ==
    IF verdict = "served" THEN "clean"
    ELSE IF verdict = "fault" THEN "unclean" ELSE "neutral"

(* A chat answer or a stream settles explicitly with its verdict, whether  *)
(* it is rejected, finalized or abandoned; the close settles nothing then. *)
JudgedSettles(r) ==
    LET req == reqs[r]
    IN  /\ req.pc = "judged" /\ req.surface \in {"stream", "buffered"}
        /\ Settle(r, OutcomeOf(req.verdict), [req EXCEPT !.pc = "over"])

(* A native or multimodal answer settles explicitly, unclean only if the   *)
(* provider is charged, when it is handed to the next candidate, which is  *)
(* before anything was written; otherwise the close settles by status.     *)
PassthroughSettles(r, rejected) ==
    LET req == reqs[r]
    IN  /\ req.pc = "judged" /\ req.surface \in {"passthrough", "copied"}
        /\ rejected => req.verdict # "served" /\ HasMore(req)
        /\ Settle(r, IF rejected THEN OutcomeOf(req.verdict) ELSE ByStatus(req),
                  [req EXCEPT !.pc = "over"])

(* The attempt returns: outcomeFailover where it did not serve and the     *)
(* client is not committed to it.                                          *)
Leave(r, failover) ==
    LET req == reqs[r]
    IN  /\ req.pc = "over"
        /\ failover => req.verdict # "served"
        /\ (req.surface \in {"passthrough", "copied"} /\ failover) => HasMore(req)
        /\ req.surface = "passthrough" => (failover <=> req.slot # "clean")
        /\ reqs' = [reqs EXCEPT ![r] = IF failover THEN FailedOver(req) ELSE Idle]
        /\ UNCHANGED <<windows, signalled>>

Tick ==
    /\ windows' = [p \in Providers |->
           [windows[p] EXCEPT !.sinceCut =
               IF windows[p].limit > 0 /\ @ < ForgetAfter THEN @ + 1 ELSE @]]
    /\ UNCHANGED <<reqs, signalled>>

Next ==
    \/ \E r \in Requests :
          \/ \E surface \in Surfaces[r] : Arrive(r, surface)
          \/ Admitted(r) \/ Busy(r)
          \/ Snapshot(r) \/ Check(r) \/ Wake(r) \/ Expire(r)
          \/ \E how \in {"skipped", "failed", "ended"} : SendFails(r, how)
          \/ \E status \in {"ok", "saturated", "error"}, full \in BOOLEAN :
                 Answered(r, status, full)
          \/ Drawn(r)
          \/ \E retryAfter \in RetryAfters : CutOn429(r, retryAfter)
          \/ \E forwarded \in BOOLEAN : DropRefusal(r, forwarded)
          \/ Dispatch(r) \/ BodyEOF(r) \/ BodyClosed(r)
          \/ \E verdict \in Verdicts \ {"none"} : Judge(r, verdict)
          \/ JudgedSettles(r)
          \/ \E rejected \in BOOLEAN : PassthroughSettles(r, rejected)
          \/ \E failover \in BOOLEAN : Leave(r, failover)
    \/ Tick

(* A goroutine in waitForSlot keeps running, and its select notices a      *)
(* closed channel.                                                         *)
Fairness ==
    \A r \in Requests : WF_vars(Snapshot(r)) /\ WF_vars(Check(r)) /\ WF_vars(Wake(r))

Spec == Init /\ [][Next]_vars
FairSpec == Spec /\ Fairness

-----------------------------------------------------------------------------
(***************************************************************************)
(* Properties.                                                             *)
(***************************************************************************)

TypeOK ==
    /\ windows \in [Providers -> Window]
    /\ reqs \in [Requests -> Request]
    /\ signalled \in [Requests -> BOOLEAN]

(* The count of a window is exactly the attempts between send and          *)
(* settlement: whatever combination of EOF, close, explicit settle and     *)
(* forced settle an attempt goes through, its slot is returned once, so no *)
(* count leaks into a self-inflicted saturation and none is returned       *)
(* twice (attemptSlot.settle, inflightRelease).                            *)
SlotsAccounted ==
    \A p \in Providers : windows[p].inflight = Cardinality(Holders(p))

(* Learning never lets more requests through than the operator's           *)
(* max_in_flight (effectiveLimit, tryAcquire).                             *)
CeilingHolds ==
    \A p \in Providers : Ceiling[p] > 0 => Cardinality(Holders(p)) <= Ceiling[p]

(* A waiter asleep on a channel nobody has closed really has no room at    *)
(* any candidate it waits for: the wakeup cannot have slipped in between   *)
(* the snapshot of the channel and the checks (waitForSlot, release).      *)
NoLostWakeup ==
    \A r \in Requests :
        (reqs[r].pc = "asleep" /\ ~signalled[r]) =>
            \A p \in reqs[r].busy : ~CanAdmit(windows[p], Ceiling[p])

(* A slot counts towards growing the window only for an answer that was    *)
(* served: an answer the client never saw is never settled clean           *)
(* (holdVerdict, holdSlotForVerdict, slotOutcome).                         *)
CleanMeansServed ==
    \A r \in Requests :
        (reqs[r].slot = "clean" /\ reqs[r].verdict # "none") => reqs[r].verdict = "served"

(* After a saturated 429 the provider is capped, at no more than the       *)
(* attempts that still fit, the refused one not counted, and at no less    *)
(* than one, since an allowance of zero would mean none (cut, and the      *)
(* settle before it in judge429AndRecordBreaker).                          *)
CutMatchesLoad ==
    [][\A r \in Requests :
          (reqs[r].pc = "cut" /\ reqs'[r].pc # "cut") =>
              LET p == reqs[r].at
                  load == Cardinality(Holders(p) \ {r})
              IN  windows'[p].limit \in 1..(IF load > 1 THEN load ELSE 1)]_vars

(* A learned allowance widens only by evidence: one step at a time on a    *)
(* clean completion, or altogether after a quiet stretch that starts only  *)
(* when the Retry-After of the last cut is over.  No cut, hint, failure    *)
(* or abandoned request widens it (release, cut, hintFull).                *)
WidensOnEvidence ==
    [][\A p \in Providers :
          windows[p].limit > 0 /\ windows'[p].limit # windows[p].limit =>
              \/ windows'[p].limit \in 1..(windows[p].limit - 1)
              \/ windows[p].sinceCut >= ForgetAfter
              \/ /\ windows'[p].limit = windows[p].limit + 1
                 /\ \E r \in Holders(p) : reqs[r].clean /\ reqs[r].pc \in {"reading", "judged"}]_vars

(* Seen from the providers, the windows, bodies and waiters are pools of   *)
(* slots: whatever settles an attempt, its slot goes back once and to the  *)
(* pool it came from, and room is judged by the requests that really hold  *)
(* one (tryAcquire, release, cut, hintFull).                               *)
Pool == INSTANCE SlotPool WITH
    held      <- [p \in Providers |-> Holders(p)],
    allowance <- [p \in Providers |-> windows[p].limit]

PoolSpec == Pool!Spec

(* A waiter that has room at one of its candidates leaves its sleep, with  *)
(* no help from the deadline (waitForSlot).                                *)
HasRoom(r) == \E p \in reqs[r].busy : CanAdmit(windows[p], Ceiling[p])
RoomWakesWaiter ==
    \A r \in Requests : (reqs[r].pc = "asleep" /\ HasRoom(r)) ~> reqs[r].pc # "asleep"
=============================================================================
