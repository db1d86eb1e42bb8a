--------------------------- MODULE ModelRetirement ---------------------------
(***************************************************************************)
(* Retirement of a model the provider no longer serves                     *)
(* (internal/proxy/model_gone*.go, model_probe.go, internal/model/retire.go*)
(* and model.go).                                                          *)
(*                                                                         *)
(* Requests whose answer reads as "model gone" strike the model's streak;  *)
(* the third in a row buys one probe, claimed under the streak's lock; a   *)
(* goroutine of its own makes the probe and, on a refusal, disables the    *)
(* row in a staged transaction.  All the while requests go on being served *)
(* and refused, the operator switches the model, and discovery scans list  *)
(* it or miss it.                                                          *)
(*                                                                         *)
(* One model, and the one surface it can be struck on (Eligible).  The     *)
(* probes of the provider's other models are the environment's.  Time is   *)
(* two flags: inside the probe cooldown, and past the strike window.  The  *)
(* goroutine's deadlines (30 s and three times 10 s) add up to less than   *)
(* the cooldown (5 min), which is less than the window (30 min).           *)
(***************************************************************************)
EXTENDS Integers, FiniteSets

CONSTANTS
    Handler,    \* requests that may be recording a refusal at once
    Threshold,  \* goneStrikeThreshold
    MaxProbes,  \* goneProbeMaxConcurrent, per provider
    MissingScanThreshold,
    Input, Output,  \* the modalities the catalog declares
    MaxOps,     \* operator edits
    MaxScans,   \* discovery scans
    MaxFaults   \* failed writes, circuits open, slots taken by others,
                \* probes without a verdict, strike windows lapsing, restarts

ASSUME RetireAssumption ==
    /\ IsFiniteSet(Handler) /\ Threshold \in Nat \ {0} /\ MaxProbes \in Nat
    /\ MissingScanThreshold \in Nat
    /\ MaxOps \in Nat /\ MaxScans \in Nat /\ MaxFaults \in Nat

VARIABLES
    model,      \* the models row
    streak,     \* goneStreak: n, cool (now < nextProbeAt), cancelled, lapsed
    handler,    \* per request: "idle", "struck", "slot"
    job,        \* the disable goroutine
    others,     \* probe slots held for other models
    gone,       \* the provider has stopped serving the model
    ops, scans, faults,
    heard,      \* history: the model answered since the claim of this job
    since,      \* history: refusals recorded since it last answered
    lastOp      \* history: the operator's standing verdict on the model

counts  == <<ops, scans, faults>>
history == <<heard, since, lastOp>>
retire  == <<model, streak, handler, job, others, gone, counts, history>>

Families  == {"chat", "messages", "responses", "embeddings", "image"}
ProbeVerdicts == {"inconclusive", "refused", "served"}
JobStates == {"idle", "queued", "probing", "write", "staged", "commit", "committed",
              "recount", "revert", "announce"}

RetireTypeOK ==
    /\ model \in [exists : BOOLEAN, enabled : BOOLEAN, manual : BOOLEAN, retired : BOOLEAN,
                pinned : BOOLEAN, missing : 0..MissingScanThreshold]
    /\ streak \in [n : 0..Threshold, cool : BOOLEAN, cancelled : BOOLEAN, lapsed : BOOLEAN]
    /\ handler \in [Handler -> {"idle", "struck", "slot"}]
    /\ job \in [pc : JobStates, failed : BOOLEAN]
    /\ others \in 0..MaxProbes /\ gone \in BOOLEAN
    /\ ops \in 0..MaxOps /\ scans \in 0..MaxScans /\ faults \in 0..MaxFaults
    /\ heard \in BOOLEAN /\ since \in 0..Threshold /\ lastOp \in {"none", "on", "off"}

NoJob == [pc |-> "idle", failed |-> FALSE]

(* A model listed and enabled, never refused yet. *)
RetireInit ==
    /\ model = [exists |-> TRUE, enabled |-> TRUE, manual |-> FALSE, retired |-> FALSE,
              pinned |-> FALSE, missing |-> 0]
    /\ streak = [n |-> 0, cool |-> FALSE, cancelled |-> FALSE, lapsed |-> FALSE]
    /\ handler = [r \in Handler |-> "idle"]
    /\ job = NoJob
    /\ others = 0 /\ gone = FALSE
    /\ ops = 0 /\ scans = 0 /\ faults = 0
    /\ heard = FALSE /\ since = 0 /\ lastOp = "none"

Fault == faults < MaxFaults /\ faults' = faults + 1 /\ UNCHANGED <<ops, scans>>

-----------------------------------------------------------------------------
(* Which surface a refusal is about.                                       *)

probeEndpointForFamily(f) ==
    CASE f \in {"chat", "messages", "responses"} -> "chat"
      [] f = "embeddings"                        -> "embeddings"
      [] OTHER                                   -> "none"

admitsChatModalities(s) == s = {} \/ s \cap {"text", "code"} # {}

modalityRulesOutSurface(e) ==
    IF e = "embeddings"
    THEN "embedding" \notin Output
    ELSE ~admitsChatModalities(Output) \/ ~admitsChatModalities(Input)

modalityAdmitsBothProbeSurfaces ==
    ~modalityRulesOutSurface("chat") /\ ~modalityRulesOutSurface("embeddings")

(* The three gates of noteModelGone. *)
Eligible(f) ==
    LET e == probeEndpointForFamily(f)
    IN  e # "none" /\ ~modalityRulesOutSurface(e) /\ ~modalityAdmitsBothProbeSurfaces

(* The surface of the only streak that can exist. *)
Surface == {e \in {"chat", "embeddings"} : ~modalityRulesOutSurface(e)}

-----------------------------------------------------------------------------
(* Answers to real traffic.                                                *)

(* What a finished stream proves: kind is how the request ended,           *)
(* upstreamKind what the provider said.                                    *)
verdictForStream(kind, upstreamKind, produced) ==
    IF "gone" \in {kind, upstreamKind} THEN "gone"
    ELSE IF kind = "" /\ produced THEN "served" ELSE "inconclusive"

(* The verdict of an answer is history's to record while the current job   *)
(* has not decided yet.                                                    *)
Open == job.pc \notin {"idle", "announce"}

Min2(a, b) == IF a < b THEN a ELSE b

(* strike: a lapsed window starts the count over. *)
Strike == [streak EXCEPT !.n = IF streak.lapsed THEN 1 ELSE Min2(@ + 1, Threshold),
                         !.lapsed = FALSE]

(* noteModelGone up to and including the strike. *)
NoteModelGone(r, f) ==
    /\ handler[r] = "idle" /\ Eligible(f)
    /\ streak' = Strike
    /\ handler' = [handler EXCEPT ![r] = IF Strike.n < Threshold THEN "idle" ELSE "struck"]
    /\ since' = Min2(since + 1, Threshold)
    /\ UNCHANGED <<model, job, others, gone, counts, heard, lastOp>>

(* Mutant: a success clears the strikes and leaves a decided disable be. *)
ParkOnly == [streak EXCEPT !.n = 0, !.lapsed = FALSE]

(* supersede: the tombstone and the cleared count change together. *)
Supersede == [streak EXCEPT !.n = 0, !.lapsed = FALSE, !.cancelled = TRUE]

(* noteModelServed, on the surface the answer came from. *)
NoteModelServed(f) ==
    /\ ~gone
    /\ probeEndpointForFamily(f) \in Surface
    /\ streak' = Supersede
    /\ heard' = (heard \/ Open)
    /\ since' = 0
    /\ UNCHANGED <<model, handler, job, others, gone, counts, lastOp>>

(* noteStreamOutcome; a buffered answer is the same two cases. *)
NoteStreamOutcome(r, f, v) ==
    \/ v = "gone"   /\ NoteModelGone(r, f)
    \/ v = "served" /\ NoteModelServed(f)

-----------------------------------------------------------------------------
(* Asking for the probe.                                                   *)

Slots == others + Cardinality({r \in Handler : handler[r] = "slot"})
           + (IF job.pc \in {"queued", "probing"} THEN 1 ELSE 0)

Claimable == streak.n >= Threshold /\ ~streak.cool

(* canClaimProbe, the breaker's state and acquireProbeSlot.  The refusal   *)
(* drops out when any says no.                                             *)
AcquireProbeSlot(r) ==
    /\ handler[r] = "struck"
    /\ \/ /\ handler' = [handler EXCEPT ![r] =
                           IF Claimable /\ Slots < MaxProbes THEN "slot" ELSE "idle"]
          /\ UNCHANGED counts
       \/ Claimable /\ Fault /\ handler' = [handler EXCEPT ![r] = "idle"]   \* circuit open
    /\ UNCHANGED <<model, streak, job, others, gone, history>>

(* Mutant: the tombstone of an earlier decision is left standing. *)
KeepsTombstone == [streak EXCEPT !.cool = TRUE]

(* A claim starts a new decision. *)
Claimed == [streak EXCEPT !.cool = TRUE, !.cancelled = FALSE]

(* claimProbe: one critical section decides, stamps the cooldown and       *)
(* clears the tombstone; the slot passes to the goroutine or back.         *)
ClaimProbe(r) ==
    /\ handler[r] = "slot"
    /\ handler' = [handler EXCEPT ![r] = "idle"]
    /\ IF Claimable
       THEN /\ streak' = Claimed
            /\ job' = [NoJob EXCEPT !.pc = "queued"]
            /\ heard' = FALSE
       ELSE UNCHANGED <<streak, job, heard>>
    /\ UNCHANGED <<model, others, gone, counts, since, lastOp>>

-----------------------------------------------------------------------------
(* The disable goroutine.                                                  *)

JobTo(pc) == job' = [job EXCEPT !.pc = pc]

StartDisable ==
    /\ job.pc = "queued"
    /\ JobTo(IF streak.cancelled THEN "idle" ELSE "probing")
    /\ UNCHANGED <<model, streak, handler, others, gone, counts, history>>

(* judgeProbeFailure: only a refusal by name, read to its end, retires. *)
judgeProbeFailure(whole, kind) ==
    IF whole /\ kind = "gone" THEN "refused" ELSE "inconclusive"

(* judgeProbeSuccess: a success that carries nothing proves nothing. *)
judgeProbeSuccess(content) == IF content THEN "served" ELSE "inconclusive"

(* probeModel: what may come back.  A model that is gone answers nothing;  *)
(* one that is not may still be refused in words that read as gone.        *)
probeModel ==
    {"inconclusive"} \cup
    {judgeProbeFailure(whole, kind) : whole \in BOOLEAN, kind \in {"gone", "other"}} \cup
    {judgeProbeSuccess(content) : content \in IF gone THEN {FALSE} ELSE BOOLEAN}

(* probeForRetirement and the switch on its verdict.  Everything unproven  *)
(* leaves the model enabled and its strikes where they are.                *)
ProbeForRetirement(v) ==
    /\ job.pc = "probing" /\ v \in probeModel
    /\ JobTo(IF v = "refused" THEN "write" ELSE "idle")
    /\ streak' = IF v = "served" THEN [streak EXCEPT !.n = 0, !.lapsed = FALSE] ELSE streak
    /\ IF v = "inconclusive" THEN Fault ELSE UNCHANGED counts
    /\ UNCHANGED <<model, handler, others, gone, history>>

(* Every write but the job's own waits for the row lock. *)
RowLocked == job.pc \in {"staged", "commit"}

(* AutoRetireIfConfirmed up to confirm: the row, locked, must still be the *)
(* routable model the evidence is about.                                   *)
StageRetirement ==
    /\ job.pc = "write"
    /\ JobTo(IF model.exists /\ model.enabled /\ ~model.manual /\ ~model.retired THEN "staged" ELSE "idle")
    /\ UNCHANGED <<model, streak, handler, others, gone, counts, history>>

(* confirm: a success since the claim rolls the write back. *)
ConfirmRetirement ==
    /\ job.pc = "staged"
    /\ JobTo(IF streak.cancelled THEN "idle" ELSE "commit")
    /\ UNCHANGED <<model, streak, handler, others, gone, counts, history>>

Retired == [model EXCEPT !.enabled = FALSE, !.retired = TRUE]

CommitRetirement ==
    /\ job.pc = "commit"
    /\ model' = Retired
    /\ JobTo("committed")
    /\ UNCHANGED <<streak, handler, others, gone, counts, history>>

(* Any of its statements fails; of a commit that failed, the outcome is    *)
(* the database's to know.                                                 *)
RetirementWriteFails ==
    /\ job.pc \in {"write", "staged", "commit"}
    /\ Fault
    /\ model' \in {model} \cup (IF job.pc = "commit" THEN {Retired} ELSE {})
    /\ JobTo("idle")
    /\ UNCHANGED <<streak, handler, others, gone, history>>

(* The second read of the tombstone, after the commit. *)
CheckTombstone ==
    /\ job.pc = "committed"
    /\ JobTo(IF streak.cancelled THEN "recount" ELSE "announce")
    /\ UNCHANGED <<model, streak, handler, others, gone, counts, history>>

(* The success that set it may itself be out of date. *)
Recount ==
    /\ job.pc = "recount"
    /\ JobTo(IF streak.n >= Threshold THEN "announce" ELSE "revert")
    /\ UNCHANGED <<model, streak, handler, others, gone, counts, history>>

(* Mutant: the re-enable is not conditional on the row. *)
RevertAnyRow == model.exists

(* RevertAutoRetire's WHERE: the row is as the retirement left it. *)
RevertsRow == model.exists /\ ~model.enabled /\ ~model.manual /\ model.retired

RevertAutoRetire ==
    /\ job.pc = "revert"
    /\ \/ /\ model' = IF RevertsRow THEN [model EXCEPT !.enabled = TRUE, !.retired = FALSE] ELSE model
          /\ JobTo(IF RevertsRow THEN "idle" ELSE "announce")
          /\ UNCHANGED counts
       \/ Fault /\ job' = [pc |-> "announce", failed |-> TRUE] /\ UNCHANGED model
    /\ UNCHANGED <<streak, handler, others, gone, history>>

(* announceRetirement: groups revalidated, the event published. *)
AnnounceRetirement ==
    /\ job.pc = "announce"
    /\ job' = NoJob
    /\ UNCHANGED <<model, streak, handler, others, gone, counts, history>>

-----------------------------------------------------------------------------
(* Everyone else who writes the row.                                       *)

(* SetEnabled, and Update when it carries enabled. *)
SetEnabled(on) ==
    /\ ~RowLocked /\ model.exists
    /\ ops < MaxOps /\ ops' = ops + 1
    /\ model' = [model EXCEPT !.enabled = on, !.manual = ~on, !.retired = FALSE, !.pinned = on]
    /\ lastOp' = IF on THEN "on" ELSE "off"
    /\ UNCHANGED <<streak, handler, job, others, gone, scans, faults, heard, since>>

(* Whether a sighting switches the row on. *)
SightingRevives == model.enabled \/ (~model.manual /\ ~model.retired)

(* Upsert: the scan lists the model.  A pruned one is inserted again under *)
(* a new id, which no job under way names; here a job could still find it, *)
(* which allows more than the code does.                                   *)
Upsert ==
    /\ ~RowLocked
    /\ scans < MaxScans /\ scans' = scans + 1
    /\ model' = [model EXCEPT !.exists = TRUE, !.enabled = SightingRevives,
                          !.missing = 0, !.pinned = FALSE]
    /\ lastOp' = IF lastOp = "on" THEN "none" ELSE lastOp
    /\ UNCHANGED <<streak, handler, job, others, gone, ops, faults, heard, since>>

(* RecordMissingModels: the scan misses the model, or a confirmation probe *)
(* found it after all, which clears its count without an upsert.           *)
RecordMissingModels(listed) ==
    LET out == model.missing + 1 >= MissingScanThreshold /\ ~model.pinned
    IN  /\ ~RowLocked /\ model.exists
        /\ IF listed THEN model.missing > 0 ELSE model.enabled
        /\ scans < MaxScans /\ scans' = scans + 1
        /\ model' = IF listed THEN [model EXCEPT !.missing = 0]
                    ELSE [model EXCEPT !.missing = IF out THEN 0 ELSE Min2(@ + 1, MissingScanThreshold),
                                       !.enabled = ~out]
        /\ UNCHANGED <<streak, handler, job, others, gone, ops, faults, history>>

(* PruneRetired: a row discovery switched off and nobody has a claim on. *)
PruneRetired ==
    /\ ~RowLocked /\ model.exists
    /\ ~model.enabled /\ ~model.manual /\ ~model.pinned /\ ~model.retired
    /\ model' = [model EXCEPT !.exists = FALSE, !.missing = 0]
    /\ lastOp' = "none"
    /\ UNCHANGED <<streak, handler, job, others, gone, counts, heard, since>>

-----------------------------------------------------------------------------
CooldownEnds ==
    /\ streak.cool /\ job.pc = "idle"
    /\ streak' = [streak EXCEPT !.cool = FALSE]
    /\ UNCHANGED <<model, handler, job, others, gone, counts, history>>

WindowLapses ==
    /\ streak.n > 0 /\ ~streak.cool /\ ~streak.lapsed
    /\ job.pc = "idle" /\ \A r \in Handler : handler[r] = "idle"
    /\ Fault
    /\ streak' = [streak EXCEPT !.lapsed = TRUE]
    /\ UNCHANGED <<model, handler, job, others, gone, history>>

OtherProbe ==
    /\ \/ Slots < MaxProbes /\ others' = others + 1 /\ Fault
       \/ others > 0 /\ others' = others - 1 /\ UNCHANGED counts
    /\ UNCHANGED <<model, streak, handler, job, gone, history>>

(* Strikes, claims, slots and jobs are in memory; a transaction under way  *)
(* is rolled back.                                                         *)
Restart ==
    /\ Fault
    /\ streak' = [n |-> 0, cool |-> FALSE, cancelled |-> FALSE, lapsed |-> FALSE]
    /\ handler' = [r \in Handler |-> "idle"]
    /\ job' = NoJob
    /\ others' = 0
    /\ UNCHANGED <<model, gone, history>>

ProviderRetires ==
    /\ ~gone /\ gone' = TRUE
    /\ UNCHANGED <<model, streak, handler, job, others, counts, history>>

Kinds == {"", "gone", "other"}

Traffic(r) ==
    \E f \in Families,
       v \in {verdictForStream(kind, up, produced) :
                kind \in Kinds, up \in Kinds, produced \in BOOLEAN} :
        NoteStreamOutcome(r, f, v)

JobStep ==
    \/ StartDisable \/ \E v \in ProbeVerdicts : ProbeForRetirement(v)
    \/ StageRetirement \/ ConfirmRetirement \/ CommitRetirement
    \/ CheckTombstone \/ Recount \/ RevertAutoRetire \/ AnnounceRetirement

HandlerStep(r) == AcquireProbeSlot(r) \/ ClaimProbe(r)

RetireNext ==
    \/ \E r \in Handler : Traffic(r) \/ HandlerStep(r)
    \/ JobStep \/ RetirementWriteFails
    \/ \E on \in BOOLEAN : SetEnabled(on)
    \/ Upsert \/ PruneRetired \/ \E listed \in BOOLEAN : RecordMissingModels(listed)
    \/ CooldownEnds \/ WindowLapses \/ OtherProbe \/ Restart \/ ProviderRetires

RetireSpec == RetireInit /\ [][RetireNext]_retire

(* A routable model gets requests, the goroutine and the handlers run to   *)
(* their end, other probes end, five minutes pass.                         *)
RetireFairness ==
    /\ \A r \in Handler :
        WF_retire(model.enabled /\ Traffic(r)) /\ WF_retire(HandlerStep(r))
    /\ WF_retire(JobStep) /\ WF_retire(CooldownEnds) /\ WF_retire(OtherProbe)

FairRetireSpec == RetireSpec /\ RetireFairness
-----------------------------------------------------------------------------
(* A retirement stands on evidence newer than the model's last answer: a   *)
(* success that lands anywhere between the claim and the decision keeps    *)
(* the model or brings it back, unless it has since been refused often     *)
(* enough again, or the write that would bring it back failed.  It judges  *)
(* the step that announces the retirement; a retirement whose commit was   *)
(* reported as failed but landed is never announced, and is outside it.    *)
StandsOnEvidence ==
    [][(/\ job.pc # "announce" /\ job'.pc = "announce"
        /\ model'.retired /\ heard) => since >= Threshold \/ job'.failed]_retire

(* The operator has the last word, whatever job, scan or prune is under    *)
(* way: what they switched off stays off, and what they switched on leaves *)
(* routing only by a retirement, until a listing names it again.           *)
OperatorObeyed ==
    /\ lastOp = "off" => ~model.enabled
    /\ lastOp = "on"  => model.enabled \/ model.retired

(* A model the provider stopped serving does not stay in routing: the      *)
(* strikes, the cooldown, the slots and a failed or unanswered attempt     *)
(* never leave it stuck enabled.                                           *)
GoneModelRetires == (Surface # {} /\ ~modalityAdmitsBothProbeSurfaces) =>
                    (<>[]gone => []<>~model.enabled)
=============================================================================
