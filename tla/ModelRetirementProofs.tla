----------------------- MODULE ModelRetirementProofs -----------------------
(***************************************************************************)
(* Retirement for any number of requests at once and any thresholds: the   *)
(* operator has the last word, and a retirement stands on evidence newer   *)
(* than the model's last answer.                                           *)
(***************************************************************************)
EXTENDS ModelRetirement, FiniteSetTheorems, TLAPS

Row == [exists : BOOLEAN, enabled : BOOLEAN, manual : BOOLEAN, retired : BOOLEAN,
        pinned : BOOLEAN, missing : 0..MissingScanThreshold]

Streak == [n : 0..Threshold, cool : BOOLEAN, cancelled : BOOLEAN, lapsed : BOOLEAN]

Job == [pc : JobStates, failed : BOOLEAN]

(* A retired row is there and off, and it was not the operator's doing. *)
RowOK == model.retired => model.exists /\ ~model.enabled /\ ~model.manual

(* The operator's verdict leaves its mark in the row. *)
OperatorOK ==
    /\ lastOp = "off" => ~model.enabled /\ model.manual
    /\ lastOp = "on"  => (model.enabled \/ model.retired) /\ model.pinned /\ ~model.manual

(* Under the job's lock the row stays the routable one it was checked to be. *)
LockOK == RowLocked => model.exists /\ model.enabled /\ ~model.manual /\ ~model.retired

(* The cooldown outlives the job, so that no second claim wipes the        *)
(* tombstone of the first; and an answer heard since the claim has left    *)
(* one.  Refusals the streak counts came after the last answer.            *)
EvidenceOK ==
    /\ job.pc # "idle" => streak.cool
    /\ Open /\ heard => streak.cancelled
    /\ streak.n <= since

(* The inductive invariant. *)
IInv == RetireTypeOK /\ RowOK /\ OperatorOK /\ LockOK /\ EvidenceOK
-----------------------------------------------------------------------------
LEMMA Parts ==
    RetireTypeOK <=>
      /\ model \in Row /\ streak \in Streak /\ handler \in [Handler -> {"idle", "struck", "slot"}]
      /\ job \in Job /\ others \in 0..MaxProbes /\ gone \in BOOLEAN
      /\ ops \in 0..MaxOps /\ scans \in 0..MaxScans /\ faults \in 0..MaxFaults
      /\ heard \in BOOLEAN /\ since \in 0..Threshold /\ lastOp \in {"none", "on", "off"}
  BY DEF RetireTypeOK, Row, Streak, Job

LEMMA Numbers ==
    ASSUME streak \in Streak, since \in 0..Threshold
    PROVE  streak.n \in Nat /\ since \in Nat /\ Threshold \in Nat /\ Threshold >= 1
           /\ streak.n <= Threshold /\ since <= Threshold
  BY RetireAssumption DEF Streak

LEMMA Faults ==
    ASSUME RetireTypeOK, Fault
    PROVE  faults' \in 0..MaxFaults /\ ops' = ops /\ scans' = scans
  BY RetireAssumption DEF Parts, RetireTypeOK, Fault

LEMMA JobMoves ==
    ASSUME job \in Job, NEW pc \in JobStates, JobTo(pc)
    PROVE  job' \in Job /\ job'.pc = pc /\ job'.failed = job.failed
  BY DEF Job, JobTo

LEMMA JobPCs ==
    ASSUME NEW pc \in {"idle", "queued", "probing", "write", "staged", "commit", "committed",
                       "recount", "revert", "announce"}
    PROVE  pc \in JobStates
  BY DEF JobStates

LEMMA NoJobIs == NoJob \in Job /\ NoJob.pc = "idle"
  BY DEF NoJob, Job, JobStates

LEMMA StreakMoves ==
    ASSUME streak \in Streak, NEW n \in 0..Threshold, NEW l \in BOOLEAN, NEW c \in BOOLEAN
    PROVE  /\ [streak EXCEPT !.n = n, !.lapsed = l] \in Streak
           /\ [streak EXCEPT !.n = n, !.lapsed = l].n = n
           /\ [streak EXCEPT !.n = n, !.lapsed = l].cool = streak.cool
           /\ [streak EXCEPT !.n = n, !.lapsed = l].cancelled = streak.cancelled
           /\ [streak EXCEPT !.n = n, !.lapsed = l, !.cancelled = c] \in Streak
           /\ [streak EXCEPT !.n = n, !.lapsed = l, !.cancelled = c].n = n
           /\ [streak EXCEPT !.n = n, !.lapsed = l, !.cancelled = c].cool = streak.cool
           /\ [streak EXCEPT !.n = n, !.lapsed = l, !.cancelled = c].cancelled = c
           /\ [streak EXCEPT !.cool = c] \in Streak
           /\ [streak EXCEPT !.cool = c].n = streak.n
           /\ [streak EXCEPT !.cool = c].cool = c
           /\ [streak EXCEPT !.cool = c].cancelled = streak.cancelled
           /\ [streak EXCEPT !.cool = c, !.cancelled = l] \in Streak
           /\ [streak EXCEPT !.cool = c, !.cancelled = l].n = streak.n
           /\ [streak EXCEPT !.cool = c, !.cancelled = l].cool = c
           /\ [streak EXCEPT !.cool = c, !.cancelled = l].cancelled = l
           /\ [streak EXCEPT !.lapsed = l] \in Streak
           /\ [streak EXCEPT !.lapsed = l].n = streak.n
           /\ [streak EXCEPT !.lapsed = l].cool = streak.cool
           /\ [streak EXCEPT !.lapsed = l].cancelled = streak.cancelled
  BY DEF Streak

(* A strike counts, and the history with it. *)
LEMMA Strikes ==
    ASSUME streak \in Streak, since \in 0..Threshold, streak.n <= since
    PROVE  /\ Strike \in Streak /\ Strike.cool = streak.cool /\ Strike.cancelled = streak.cancelled
           /\ Min2(since + 1, Threshold) \in 0..Threshold
           /\ Strike.n <= Min2(since + 1, Threshold)
  <1>. DEFINE n == IF streak.lapsed THEN 1 ELSE Min2(streak.n + 1, Threshold)
  <1>1. n \in 0..Threshold /\ Min2(since + 1, Threshold) \in 0..Threshold
        /\ n <= Min2(since + 1, Threshold)
    BY Numbers DEF Min2
  <1>2. Strike = [streak EXCEPT !.n = n, !.lapsed = FALSE]
    BY DEF Strike
  <1>. HIDE DEF n
  <1>3. FALSE \in BOOLEAN
    OBVIOUS
  <1>4. /\ [streak EXCEPT !.n = n, !.lapsed = FALSE] \in Streak
        /\ [streak EXCEPT !.n = n, !.lapsed = FALSE].n = n
        /\ [streak EXCEPT !.n = n, !.lapsed = FALSE].cool = streak.cool
        /\ [streak EXCEPT !.n = n, !.lapsed = FALSE].cancelled = streak.cancelled
    BY <1>1, <1>3, StreakMoves
  <1>. QED BY <1>1, <1>2, <1>4

LEMMA Supersedes ==
    ASSUME streak \in Streak
    PROVE  Supersede \in Streak /\ Supersede.n = 0 /\ Supersede.cool = streak.cool /\ Supersede.cancelled
  <1>. DEFINE R(n, l, c) == [streak EXCEPT !.n = n, !.lapsed = l, !.cancelled = c]
              q == R(0, FALSE, TRUE)
  <1>1. ASSUME NEW n \in 0..Threshold, NEW l \in BOOLEAN, NEW c \in BOOLEAN
        PROVE  R(n, l, c) \in Streak /\ R(n, l, c).n = n /\ R(n, l, c).cool = streak.cool
               /\ R(n, l, c).cancelled = c
    BY DEF Streak
  <1>2. 0 \in 0..Threshold /\ FALSE \in BOOLEAN /\ TRUE \in BOOLEAN
    BY RetireAssumption
  <1>3. Supersede = q
    BY DEF Supersede
  <1>. HIDE DEF R
  <1>4. q \in Streak /\ q.n = 0 /\ q.cool = streak.cool /\ q.cancelled = TRUE
    BY <1>1, <1>2
  <1>. QED BY <1>3, <1>4

(* Steps that leave the row, the job and the operator's verdict alone. *)
LEMMA RowRests ==
    ASSUME IInv, UNCHANGED <<model, job, lastOp>>
    PROVE  RowOK' /\ OperatorOK' /\ LockOK'
  BY DEF IInv, RowOK, OperatorOK, LockOK, RowLocked

LEMMA GoneKeeps ==
    ASSUME IInv, NEW r \in Handler, NEW f, NoteModelGone(r, f)
    PROVE  IInv'
  <1>. USE DEF IInv
  <1>1. /\ streak' = Strike /\ since' = Min2(since + 1, Threshold)
        /\ UNCHANGED <<model, job, others, gone, counts, heard, lastOp>>
        /\ handler' = [handler EXCEPT ![r] = IF Strike.n < Threshold THEN "idle" ELSE "struck"]
    BY DEF NoteModelGone
  <1>2. /\ Strike \in Streak /\ Strike.cool = streak.cool /\ Strike.cancelled = streak.cancelled
        /\ since' \in 0..Threshold /\ Strike.n <= since'
    BY <1>1, Parts, Strikes DEF EvidenceOK
  <1>3. handler' \in [Handler -> {"idle", "struck", "slot"}]
    BY <1>1, Parts
  <1>4. RetireTypeOK'
    BY <1>1, <1>2, <1>3, Parts DEF counts, RetireTypeOK, Streak
  <1>5. RowOK' /\ OperatorOK' /\ LockOK'
    BY <1>1, RowRests
  <1>6. EvidenceOK'
    BY <1>1, <1>2 DEF EvidenceOK, Open
  <1>. QED BY <1>4, <1>5, <1>6

LEMMA ServedKeeps ==
    ASSUME IInv, NEW f, NoteModelServed(f)
    PROVE  IInv'
  <1>. USE DEF IInv
  <1>1. /\ streak' = Supersede /\ since' = 0 /\ heard' = (heard \/ Open)
        /\ UNCHANGED <<model, handler, job, others, gone, counts, lastOp>>
    BY DEF NoteModelServed
  <1>2. Supersede \in Streak /\ Supersede.n = 0 /\ Supersede.cool = streak.cool /\ Supersede.cancelled
    BY Parts, Supersedes
  <1>3. heard' \in BOOLEAN
    BY <1>1, Zenon
  <1>4. since' \in 0..Threshold
    BY <1>1, RetireAssumption
  <1>5. RetireTypeOK'
    BY <1>1, <1>2, <1>3, <1>4 DEF counts, RetireTypeOK, Streak
  <1>6. RowOK' /\ OperatorOK' /\ LockOK'
    BY <1>1, RowRests
  <1>7. EvidenceOK'
    BY <1>1, <1>2 DEF EvidenceOK
  <1>. QED BY <1>5, <1>6, <1>7
-----------------------------------------------------------------------------
(***************************************************************************)
(* Handlers and the job.                                                   *)
(***************************************************************************)
LEMMA AcquireKeeps ==
    ASSUME IInv, NEW r \in Handler, AcquireProbeSlot(r)
    PROVE  IInv'
  <1>. USE DEF IInv
  <1>1. UNCHANGED <<model, streak, job, others, gone, history>>
    BY DEF AcquireProbeSlot
  <1>2. faults' \in 0..MaxFaults /\ ops' = ops /\ scans' = scans
    <2>1. CASE UNCHANGED counts
      BY <2>1 DEF counts, RetireTypeOK
    <2>2. CASE Fault
      BY <2>2, Faults
    <2>. QED BY <2>1, <2>2 DEF AcquireProbeSlot
  <1>3. handler' \in [Handler -> {"idle", "struck", "slot"}]
    BY DEF AcquireProbeSlot, RetireTypeOK
  <1>4. RetireTypeOK'
    BY <1>1, <1>2, <1>3 DEF history, RetireTypeOK
  <1>5. RowOK' /\ OperatorOK' /\ LockOK'
    BY <1>1, RowRests DEF history
  <1>6. EvidenceOK'
    BY <1>1 DEF EvidenceOK, Open, history
  <1>. QED BY <1>4, <1>5, <1>6

(* A claim finds the cooldown over, hence no job. *)
LEMMA ClaimKeeps ==
    ASSUME IInv, NEW r \in Handler, ClaimProbe(r)
    PROVE  IInv'
  <1>. USE DEF IInv
  <1>1. UNCHANGED <<model, others, gone, counts, since, lastOp>>
        /\ handler' = [handler EXCEPT ![r] = "idle"]
    BY DEF ClaimProbe
  <1>2. handler' \in [Handler -> {"idle", "struck", "slot"}]
    BY <1>1 DEF RetireTypeOK
  <1>3. CASE Claimable
    <2>1. streak' = Claimed /\ job' = [NoJob EXCEPT !.pc = "queued"] /\ heard' = FALSE
      BY <1>3 DEF ClaimProbe
    <2>2. /\ streak \in Streak /\ ~streak.cool /\ job.pc = "idle"
      BY <1>3, Parts DEF Claimable, EvidenceOK
    <2>3. Claimed \in Streak /\ Claimed.n = streak.n /\ Claimed.cool
      <3>. DEFINE R(c, l) == [streak EXCEPT !.cool = c, !.cancelled = l]
                  q == R(TRUE, FALSE)
      <3>1. ASSUME NEW c \in BOOLEAN, NEW l \in BOOLEAN
            PROVE  R(c, l) \in Streak /\ R(c, l).n = streak.n /\ R(c, l).cool = c
        BY <2>2 DEF Streak
      <3>2. Claimed = q /\ TRUE \in BOOLEAN /\ FALSE \in BOOLEAN
        BY DEF Claimed
      <3>. HIDE DEF R
      <3>3. q \in Streak /\ q.n = streak.n /\ q.cool = TRUE
        BY <3>1, <3>2
      <3>. QED BY <3>2, <3>3
    <2>4. job' \in Job /\ job'.pc = "queued"
      BY <2>1 DEF NoJob, Job, JobStates
    <2>5. heard' \in BOOLEAN /\ ~heard'
      BY <2>1
    <2>6. RetireTypeOK'
      BY <1>1, <1>2, <2>1, <2>3, <2>4, <2>5 DEF counts, RetireTypeOK, Streak, Job
    <2>7. RowOK' /\ OperatorOK' /\ LockOK'
      BY <1>1, <2>4 DEF RowOK, OperatorOK, LockOK, RowLocked
    <2>8. EvidenceOK'
      BY <1>1, <2>1, <2>3, <2>5 DEF EvidenceOK
    <2>. QED BY <2>6, <2>7, <2>8
  <1>4. CASE ~Claimable
    <2>1. UNCHANGED <<streak, job, heard>>
      BY <1>4 DEF ClaimProbe
    <2>2. RetireTypeOK'
      BY <1>1, <1>2, <2>1 DEF counts, RetireTypeOK
    <2>3. RowOK' /\ OperatorOK' /\ LockOK'
      BY <1>1, <2>1, RowRests
    <2>4. EvidenceOK'
      BY <1>1, <2>1 DEF EvidenceOK, Open
    <2>. QED BY <2>2, <2>3, <2>4
  <1>. QED BY <1>3, <1>4

(* A job that goes on, and touches neither the row nor the streak.  Before *)
(* its decision it goes nowhere its tombstone is not looked at.            *)
LEMMA JobKeeps ==
    ASSUME IInv, job.pc # "idle", job' \in Job,
           job.pc = "announce" => job'.pc \in {"idle", "announce"},
           job'.pc \in {"staged", "commit"} =>
             model.exists /\ model.enabled /\ ~model.manual /\ ~model.retired,
           UNCHANGED <<model, streak, handler, others, gone, history>>,
           UNCHANGED counts \/ Fault
    PROVE  IInv'
  <1>. USE DEF IInv
  <1>1. faults' \in 0..MaxFaults /\ ops' = ops /\ scans' = scans
    <2>1. CASE UNCHANGED counts
      BY <2>1 DEF counts, RetireTypeOK
    <2>2. CASE Fault
      BY <2>2, Faults
    <2>. QED BY <2>1, <2>2
  <1>2. RetireTypeOK'
    BY <1>1 DEF history, RetireTypeOK, Job
  <1>3. RowOK' /\ OperatorOK' /\ LockOK'
    BY DEF RowOK, OperatorOK, LockOK, RowLocked, history
  <1>4. EvidenceOK'
    BY DEF EvidenceOK, Open, history
  <1>. QED BY <1>2, <1>3, <1>4

LEMMA JobStepsKeep ==
    ASSUME IInv, \/ StartDisable \/ StageRetirement \/ ConfirmRetirement \/ CheckTombstone
                 \/ Recount \/ AnnounceRetirement
    PROVE  IInv'
  <1>. USE DEF IInv
  <1>1. job \in Job
    BY Parts
  <1>2. CASE StartDisable
    <2>. DEFINE pc == IF streak.cancelled THEN "idle" ELSE "probing"
    <2>1. job.pc = "queued" /\ JobTo(pc) /\ pc \in JobStates /\ pc \in {"idle", "probing"}
          /\ UNCHANGED <<model, streak, handler, others, gone, counts, history>>
      BY <1>2, JobPCs DEF StartDisable
    <2>. HIDE DEF pc
    <2>2. job' \in Job /\ job'.pc = pc
      BY <1>1, <2>1, JobMoves
    <2>. QED BY <2>1, <2>2, JobKeeps DEF counts
  <1>3. CASE StageRetirement
    <2>. DEFINE ok == model.exists /\ model.enabled /\ ~model.manual /\ ~model.retired
                pc == IF ok THEN "staged" ELSE "idle"
    <2>1. job.pc = "write" /\ JobTo(pc) /\ pc \in JobStates /\ (pc \in {"staged", "commit"} => ok)
          /\ UNCHANGED <<model, streak, handler, others, gone, counts, history>>
      BY <1>3, JobPCs DEF StageRetirement
    <2>. HIDE DEF pc
    <2>2. job' \in Job /\ job'.pc = pc
      BY <1>1, <2>1, JobMoves
    <2>. QED BY <2>1, <2>2, JobKeeps DEF counts
  <1>4. CASE ConfirmRetirement
    <2>. DEFINE pc == IF streak.cancelled THEN "idle" ELSE "commit"
    <2>1. job.pc = "staged" /\ JobTo(pc) /\ pc \in JobStates
          /\ UNCHANGED <<model, streak, handler, others, gone, counts, history>>
      BY <1>4, JobPCs DEF ConfirmRetirement
    <2>. HIDE DEF pc
    <2>2. job' \in Job /\ job'.pc = pc
      BY <1>1, <2>1, JobMoves
    <2>3. model.exists /\ model.enabled /\ ~model.manual /\ ~model.retired
      BY <2>1 DEF LockOK, RowLocked
    <2>. QED BY <2>1, <2>2, <2>3, JobKeeps DEF counts
  <1>5. CASE CheckTombstone
    <2>. DEFINE pc == IF streak.cancelled THEN "recount" ELSE "announce"
    <2>1. job.pc = "committed" /\ JobTo(pc) /\ pc \in JobStates /\ pc \in {"recount", "announce"}
          /\ UNCHANGED <<model, streak, handler, others, gone, counts, history>>
      BY <1>5, JobPCs DEF CheckTombstone
    <2>. HIDE DEF pc
    <2>2. job' \in Job /\ job'.pc = pc
      BY <1>1, <2>1, JobMoves
    <2>. QED BY <2>1, <2>2, JobKeeps DEF counts
  <1>6. CASE Recount
    <2>. DEFINE pc == IF streak.n >= Threshold THEN "announce" ELSE "revert"
    <2>1. job.pc = "recount" /\ JobTo(pc) /\ pc \in JobStates /\ pc \in {"announce", "revert"}
          /\ UNCHANGED <<model, streak, handler, others, gone, counts, history>>
      BY <1>6, JobPCs DEF Recount
    <2>. HIDE DEF pc
    <2>2. job' \in Job /\ job'.pc = pc
      BY <1>1, <2>1, JobMoves
    <2>. QED BY <2>1, <2>2, JobKeeps DEF counts
  <1>7. CASE AnnounceRetirement
    <2>1. job.pc = "announce" /\ job' = NoJob
          /\ UNCHANGED <<model, streak, handler, others, gone, counts, history>>
      BY <1>7 DEF AnnounceRetirement
    <2>. QED BY <2>1, NoJobIs, JobKeeps DEF counts
  <1>. QED BY <1>2, <1>3, <1>4, <1>5, <1>6, <1>7

LEMMA ProbeKeeps ==
    ASSUME IInv, NEW v \in ProbeVerdicts, ProbeForRetirement(v)
    PROVE  IInv'
  <1>. USE DEF IInv
  <1>. DEFINE pc == IF v = "refused" THEN "write" ELSE "idle"
  <1>1. job.pc = "probing" /\ JobTo(pc) /\ pc \in JobStates /\ pc \in {"write", "idle"}
        /\ UNCHANGED <<model, handler, others, gone, history>>
        /\ streak' = IF v = "served" THEN [streak EXCEPT !.n = 0, !.lapsed = FALSE] ELSE streak
    BY JobPCs DEF ProbeForRetirement
  <1>2. faults' \in 0..MaxFaults /\ ops' = ops /\ scans' = scans
    <2>1. CASE UNCHANGED counts
      BY <2>1 DEF counts, RetireTypeOK
    <2>2. CASE Fault
      BY <2>2, Faults
    <2>. QED BY <2>1, <2>2 DEF ProbeForRetirement
  <1>. HIDE DEF pc
  <1>3. job' \in Job /\ job'.pc = pc /\ streak \in Streak
    BY <1>1, Parts, JobMoves
  <1>4. streak' \in Streak /\ streak'.n <= streak.n /\ streak'.cool = streak.cool
        /\ streak'.cancelled = streak.cancelled
    <2>. DEFINE R(n, l) == [streak EXCEPT !.n = n, !.lapsed = l]
                q == R(0, FALSE)
    <2>1. ASSUME NEW n \in 0..Threshold, NEW l \in BOOLEAN
          PROVE  R(n, l) \in Streak /\ R(n, l).n = n /\ R(n, l).cool = streak.cool
                 /\ R(n, l).cancelled = streak.cancelled
      BY <1>3 DEF Streak
    <2>2. 0 \in 0..Threshold /\ FALSE \in BOOLEAN /\ streak.n \in Nat
      BY <1>3, RetireAssumption DEF Streak
    <2>3. streak' = IF v = "served" THEN q ELSE streak
      BY <1>1
    <2>. HIDE DEF R
    <2>4. q \in Streak /\ q.n = 0 /\ q.cool = streak.cool /\ q.cancelled = streak.cancelled
      BY <2>1, <2>2
    <2>. HIDE DEF q
    <2>5. CASE v = "served"
      BY <2>2, <2>3, <2>4, <2>5
    <2>6. CASE v # "served"
      BY <1>3, <2>2, <2>3, <2>6
    <2>. QED BY <2>5, <2>6
  <1>5. RetireTypeOK'
    BY <1>1, <1>2, <1>3, <1>4 DEF history, RetireTypeOK, Job, Streak
  <1>6. RowOK' /\ OperatorOK' /\ LockOK'
    BY <1>1, <1>3 DEF RowOK, OperatorOK, LockOK, RowLocked, history
  <1>7. EvidenceOK'
    <2>1. streak.n \in Nat /\ streak'.n \in Nat /\ since \in Nat
      BY <1>3, <1>4, Parts DEF Streak
    <2>. QED BY <1>1, <1>3, <1>4, <2>1 DEF EvidenceOK, Open, history
  <1>. QED BY <1>5, <1>6, <1>7

(* The row as the retirement's commit leaves it. *)
LEMMA RetiredIs ==
    ASSUME model \in Row
    PROVE  /\ Retired \in Row /\ Retired.exists = model.exists /\ ~Retired.enabled
           /\ Retired.manual = model.manual /\ Retired.retired /\ Retired.pinned = model.pinned
  <1>. DEFINE R(e, t) == [model EXCEPT !.enabled = e, !.retired = t]
              q == R(FALSE, TRUE)
  <1>1. ASSUME NEW e \in BOOLEAN, NEW t \in BOOLEAN
        PROVE  R(e, t) \in Row /\ R(e, t).exists = model.exists /\ R(e, t).enabled = e
               /\ R(e, t).manual = model.manual /\ R(e, t).retired = t /\ R(e, t).pinned = model.pinned
    BY DEF Row
  <1>2. Retired = q /\ FALSE \in BOOLEAN /\ TRUE \in BOOLEAN
    BY DEF Retired
  <1>. HIDE DEF R
  <1>3. q \in Row /\ q.exists = model.exists /\ q.enabled = FALSE
        /\ q.manual = model.manual /\ q.retired = TRUE /\ q.pinned = model.pinned
    BY <1>1, <1>2
  <1>. QED BY <1>2, <1>3

(* The job's own write, whose outcome a failed commit leaves open. *)
LEMMA RetiringKeeps ==
    ASSUME IInv, job.pc # "idle", (model' = Retired /\ job.pc = "commit") \/ model' = model,
           job' \in Job, job'.pc \in {"idle", "committed"}, job.pc # "announce",
           UNCHANGED <<streak, handler, others, gone, history>>,
           UNCHANGED counts \/ Fault
    PROVE  IInv'
  <1>. USE DEF IInv
  <1>1. faults' \in 0..MaxFaults /\ ops' = ops /\ scans' = scans
    <2>1. CASE UNCHANGED counts
      BY <2>1 DEF counts, RetireTypeOK
    <2>2. CASE Fault
      BY <2>2, Faults
    <2>. QED BY <2>1, <2>2
  <1>2. model \in Row /\ model' \in Row
    BY Parts, RetiredIs
  <1>3. RetireTypeOK'
    BY <1>1, <1>2 DEF history, RetireTypeOK, Job, Row
  <1>4. RowOK' /\ OperatorOK'
    <2>1. CASE model' = model
      BY <2>1 DEF RowOK, OperatorOK, history
    <2>2. CASE model' = Retired /\ job.pc = "commit"
      BY <1>2, <2>2, RetiredIs DEF RowOK, OperatorOK, LockOK, RowLocked, history
    <2>. QED BY <2>1, <2>2
  <1>5. LockOK'
    BY DEF LockOK, RowLocked
  <1>6. EvidenceOK'
    BY DEF EvidenceOK, Open, history
  <1>. QED BY <1>3, <1>4, <1>5, <1>6

LEMMA CommitKeeps ==
    ASSUME IInv, CommitRetirement \/ RetirementWriteFails
    PROVE  IInv'
  <1>. USE DEF IInv
  <1>1. job \in Job
    BY Parts
  <1>2. CASE CommitRetirement
    <2>1. job.pc = "commit" /\ JobTo("committed") /\ model' = Retired
          /\ UNCHANGED <<streak, handler, others, gone, counts, history>>
      BY <1>2 DEF CommitRetirement
    <2>2. job' \in Job /\ job'.pc = "committed"
      BY <1>1, <2>1, JobMoves, JobPCs
    <2>. QED BY <2>1, <2>2, RetiringKeeps DEF counts
  <1>3. CASE RetirementWriteFails
    <2>1. job.pc \in {"write", "staged", "commit"} /\ JobTo("idle") /\ Fault
          /\ UNCHANGED <<streak, handler, others, gone, history>>
      BY <1>3 DEF RetirementWriteFails
    <2>2. (model' = Retired /\ job.pc = "commit") \/ model' = model
      BY <1>3 DEF RetirementWriteFails
    <2>3. job' \in Job /\ job'.pc = "idle"
      BY <1>1, <2>1, JobMoves, JobPCs
    <2>. QED BY <2>1, <2>2, <2>3, RetiringKeeps
  <1>. QED BY <1>2, <1>3

LEMMA RevertKeeps ==
    ASSUME IInv, RevertAutoRetire
    PROVE  IInv'
  <1>. USE DEF IInv
  <1>1. job.pc = "revert" /\ job \in Job /\ model \in Row
        /\ UNCHANGED <<streak, handler, others, gone, history>>
    BY Parts DEF RevertAutoRetire
  <1>2. CASE UNCHANGED model /\ job' \in Job /\ job'.pc = "announce" /\ (UNCHANGED counts \/ Fault)
    BY <1>1, <1>2, JobKeeps DEF counts
  <1>3. ASSUME RevertsRow, model' = [model EXCEPT !.enabled = TRUE, !.retired = FALSE],
               JobTo("idle"), UNCHANGED counts
        PROVE  IInv'
    <2>1. job' \in Job /\ job'.pc = "idle"
      BY <1>1, <1>3, JobMoves, JobPCs
    <2>2. model' \in Row /\ model'.manual = model.manual /\ model'.pinned = model.pinned
          /\ model'.enabled /\ ~model'.retired
      <3>. DEFINE R(e, t) == [model EXCEPT !.enabled = e, !.retired = t]
                  q == R(TRUE, FALSE)
      <3>1. ASSUME NEW e \in BOOLEAN, NEW t \in BOOLEAN
            PROVE  R(e, t) \in Row /\ R(e, t).enabled = e
                   /\ R(e, t).manual = model.manual /\ R(e, t).retired = t
                   /\ R(e, t).pinned = model.pinned
        BY <1>1 DEF Row
      <3>2. model' = q /\ FALSE \in BOOLEAN /\ TRUE \in BOOLEAN
        BY <1>3
      <3>. HIDE DEF R
      <3>3. q \in Row /\ q.enabled = TRUE /\ q.manual = model.manual /\ q.retired = FALSE
            /\ q.pinned = model.pinned
        BY <3>1, <3>2
      <3>. HIDE DEF q
      <3>. QED BY <3>2, <3>3
    <2>3. RetireTypeOK'
      <3>1. UNCHANGED <<ops, scans, faults>>
        BY <1>3 DEF counts
      <3>. QED BY <1>1, <2>1, <2>2, <3>1 DEF history, RetireTypeOK, Job, Row
    <2>4. RowOK' /\ OperatorOK' /\ LockOK'
      <3>1. ~model.manual
        BY <1>3 DEF RevertsRow
      <3>. QED BY <1>1, <2>1, <2>2, <3>1 DEF RowOK, OperatorOK, LockOK, RowLocked, history
    <2>5. EvidenceOK'
      BY <1>1, <2>1 DEF EvidenceOK, Open, history
    <2>. QED BY <2>3, <2>4, <2>5
  <1>4. CASE /\ model' = IF RevertsRow THEN [model EXCEPT !.enabled = TRUE, !.retired = FALSE] ELSE model
             /\ JobTo(IF RevertsRow THEN "idle" ELSE "announce")
             /\ UNCHANGED counts
    <2>1. CASE RevertsRow
      BY <1>3, <1>4, <2>1
    <2>2. CASE ~RevertsRow
      <3>1. JobTo("announce") /\ model' = model /\ UNCHANGED counts
        BY <1>4, <2>2
      <3>2. job' \in Job /\ job'.pc = "announce"
        BY <1>1, <3>1, JobMoves, JobPCs
      <3>. QED BY <1>2, <3>1, <3>2
    <2>. QED BY <2>1, <2>2
  <1>5. CASE Fault /\ job' = [pc |-> "announce", failed |-> TRUE] /\ UNCHANGED model
    <2>1. job' \in Job /\ job'.pc = "announce"
      BY <1>5 DEF Job, JobStates
    <2>. QED BY <1>2, <1>5, <2>1
  <1>. QED BY <1>4, <1>5 DEF RevertAutoRetire
-----------------------------------------------------------------------------
(***************************************************************************)
(* Everyone else.                                                          *)
(***************************************************************************)
(* A write of the row from outside the job. *)
LEMMA WriterKeeps ==
    ASSUME IInv, ~RowLocked, model' \in Row, RowOK', OperatorOK',
           lastOp' \in {"none", "on", "off"},
           ops' \in 0..MaxOps, scans' \in 0..MaxScans,
           UNCHANGED <<streak, handler, job, others, gone, faults, heard, since>>
    PROVE  IInv'
  <1>. USE DEF IInv
  <1>1. RetireTypeOK'
    BY DEF RetireTypeOK, Row
  <1>2. LockOK' /\ EvidenceOK'
    BY DEF LockOK, RowLocked, EvidenceOK, Open
  <1>. QED BY <1>1, <1>2

LEMMA SetEnabledKeeps ==
    ASSUME IInv, NEW on \in BOOLEAN, SetEnabled(on)
    PROVE  IInv'
  <1>. USE DEF IInv
  <1>1. ~RowLocked /\ UNCHANGED <<streak, handler, job, others, gone, faults, heard, since>>
        /\ scans' = scans /\ ops' = ops + 1 /\ ops < MaxOps
        /\ lastOp' = IF on THEN "on" ELSE "off"
    BY DEF SetEnabled
  <1>2. scans' \in 0..MaxScans /\ ops' \in 0..MaxOps /\ lastOp' \in {"none", "on", "off"}
    BY <1>1, RetireAssumption DEF RetireTypeOK
  <1>3. model' \in Row /\ model'.enabled = on /\ model'.manual = ~on /\ ~model'.retired /\ model'.pinned = on
    <2>. DEFINE R(m, t) == [model EXCEPT !.enabled = on, !.manual = m, !.retired = t, !.pinned = on]
                q == R(~on, FALSE)
    <2>1. ASSUME NEW m \in BOOLEAN, NEW t \in BOOLEAN
          PROVE  R(m, t) \in Row /\ R(m, t).enabled = on /\ R(m, t).manual = m
                 /\ R(m, t).retired = t /\ R(m, t).pinned = on
      BY Parts DEF Row
    <2>2. model' = q
      BY DEF SetEnabled
    <2>3. (~on) \in BOOLEAN /\ FALSE \in BOOLEAN
      BY Zenon
    <2>. HIDE DEF R
    <2>4. q \in Row /\ q.enabled = on /\ q.manual = ~on /\ q.retired = FALSE /\ q.pinned = on
      BY <2>1, <2>3
    <2>. HIDE DEF q
    <2>. QED BY <2>2, <2>4
  <1>4. RowOK' /\ OperatorOK'
    BY <1>1, <1>3 DEF RowOK, OperatorOK
  <1>. QED BY <1>1, <1>2, <1>3, <1>4, WriterKeeps

LEMMA UpsertKeeps ==
    ASSUME IInv, Upsert
    PROVE  IInv'
  <1>. USE DEF IInv
  <1>. DEFINE revives == SightingRevives
  <1>1. ~RowLocked /\ UNCHANGED <<streak, handler, job, others, gone, faults, heard, since>>
        /\ ops' = ops /\ scans' = scans + 1 /\ scans < MaxScans
        /\ lastOp' = IF lastOp = "on" THEN "none" ELSE lastOp
    BY DEF Upsert
  <1>2. scans' \in 0..MaxScans /\ ops' \in 0..MaxOps /\ lastOp' \in {"none", "off"}
    BY <1>1, RetireAssumption DEF RetireTypeOK
  <1>3. model \in Row /\ revives \in BOOLEAN
    BY Parts DEF SightingRevives, Row
  <1>4. /\ model' \in Row /\ model'.enabled = revives /\ model'.manual = model.manual
        /\ model'.retired = model.retired /\ model'.exists
    <2>. DEFINE R(x, n, p) == [model EXCEPT !.exists = x, !.enabled = revives,
                                            !.missing = n, !.pinned = p]
                q == R(TRUE, 0, FALSE)
    <2>1. model' = q
      BY DEF Upsert
    <2>. HIDE DEF revives
    <2>2. ASSUME NEW x \in BOOLEAN, NEW n \in 0..MissingScanThreshold, NEW p \in BOOLEAN
          PROVE  R(x, n, p) \in Row /\ R(x, n, p).enabled = revives /\ R(x, n, p).manual = model.manual
                 /\ R(x, n, p).retired = model.retired /\ R(x, n, p).exists = x
      BY <1>3 DEF Row
    <2>3. TRUE \in BOOLEAN /\ FALSE \in BOOLEAN /\ 0 \in 0..MissingScanThreshold
      BY RetireAssumption
    <2>. HIDE DEF R
    <2>4. q \in Row /\ q.enabled = revives /\ q.manual = model.manual
          /\ q.retired = model.retired /\ q.exists = TRUE
      BY <2>2, <2>3
    <2>. HIDE DEF q
    <2>. QED BY <2>1, <2>4
  <1>5. RowOK' /\ OperatorOK'
    BY <1>1, <1>2, <1>3, <1>4 DEF RowOK, OperatorOK, SightingRevives
  <1>6. lastOp' \in {"none", "on", "off"}
    BY <1>2
  <1>. QED BY <1>1, <1>2, <1>4, <1>5, <1>6, WriterKeeps

LEMMA MissingKeeps ==
    ASSUME IInv, NEW listed \in BOOLEAN, RecordMissingModels(listed)
    PROVE  IInv'
  <1>. USE DEF IInv
  <1>. DEFINE out == model.missing + 1 >= MissingScanThreshold /\ ~model.pinned
              n == IF listed \/ out THEN 0 ELSE Min2(model.missing + 1, MissingScanThreshold)
              on == IF listed THEN model.enabled ELSE ~out
  <1>1. ~RowLocked /\ UNCHANGED <<streak, handler, job, others, gone, faults, history>>
        /\ ops' = ops /\ scans' = scans + 1 /\ scans < MaxScans /\ (listed \/ model.enabled)
        /\ model' = [model EXCEPT !.missing = n, !.enabled = on]
    BY Parts DEF RecordMissingModels, Row
  <1>2. scans' \in 0..MaxScans /\ ops' \in 0..MaxOps /\ lastOp' \in {"none", "on", "off"}
    BY <1>1, RetireAssumption DEF RetireTypeOK, history
  <1>3. model \in Row /\ n \in 0..MissingScanThreshold /\ on \in BOOLEAN
        /\ (listed => on = model.enabled) /\ (~listed /\ model.pinned => on)
    <2>1. model \in Row /\ model.enabled \in BOOLEAN /\ model.missing \in 0..MissingScanThreshold
      BY Parts DEF Row
    <2>2. n \in 0..MissingScanThreshold
      BY <2>1, RetireAssumption DEF Min2
    <2>3. on \in BOOLEAN
      BY <2>1
    <2>. QED BY <2>1, <2>2, <2>3
  <1>. HIDE DEF out, n, on
  <1>4. model' \in Row /\ model'.enabled = on /\ model'.manual = model.manual
        /\ model'.retired = model.retired /\ model'.pinned = model.pinned
    BY <1>1, <1>3 DEF Row
  <1>5. RowOK' /\ OperatorOK'
    BY <1>1, <1>3, <1>4 DEF RowOK, OperatorOK, history
  <1>. QED BY <1>1, <1>2, <1>4, <1>5, WriterKeeps DEF history

LEMMA PruneKeeps ==
    ASSUME IInv, PruneRetired
    PROVE  IInv'
  <1>. USE DEF IInv
  <1>1. ~RowLocked /\ UNCHANGED <<streak, handler, job, others, gone, counts, heard, since>>
        /\ lastOp' = "none" /\ ~model.retired
    BY DEF PruneRetired
  <1>2. scans' \in 0..MaxScans /\ ops' \in 0..MaxOps /\ UNCHANGED faults
    BY <1>1 DEF RetireTypeOK, counts
  <1>3. model' \in Row /\ model'.retired = model.retired
    <2>. DEFINE R(x, n) == [model EXCEPT !.exists = x, !.missing = n]
                q == R(FALSE, 0)
    <2>1. ASSUME NEW x \in BOOLEAN, NEW n \in 0..MissingScanThreshold
          PROVE  R(x, n) \in Row /\ R(x, n).retired = model.retired
      BY Parts DEF Row
    <2>2. FALSE \in BOOLEAN /\ 0 \in 0..MissingScanThreshold /\ model' = q
      BY RetireAssumption DEF PruneRetired
    <2>. HIDE DEF R
    <2>3. q \in Row /\ q.retired = model.retired
      BY <2>1, <2>2
    <2>. HIDE DEF q
    <2>. QED BY <2>2, <2>3
  <1>4. RowOK' /\ OperatorOK'
    BY <1>1, <1>3 DEF RowOK, OperatorOK
  <1>. QED BY <1>1, <1>2, <1>3, <1>4, WriterKeeps

LEMMA CooldownKeeps ==
    ASSUME IInv, CooldownEnds
    PROVE  IInv'
  <1>. USE DEF IInv
  <1>1. job.pc = "idle" /\ UNCHANGED <<model, handler, job, others, gone, counts, history>>
    BY DEF CooldownEnds
  <1>2. streak' \in Streak /\ streak'.n = streak.n
    <2>. DEFINE R(c) == [streak EXCEPT !.cool = c]
                q == R(FALSE)
    <2>1. ASSUME NEW c \in BOOLEAN
          PROVE  R(c) \in Streak /\ R(c).n = streak.n
      BY Parts DEF Streak
    <2>2. FALSE \in BOOLEAN /\ streak' = q
      BY DEF CooldownEnds
    <2>. HIDE DEF R
    <2>. QED BY <2>1, <2>2
  <1>3. RetireTypeOK'
    BY <1>1, <1>2 DEF RetireTypeOK, counts, history, Streak
  <1>4. RowOK' /\ OperatorOK' /\ LockOK'
    BY <1>1, RowRests DEF history
  <1>5. EvidenceOK'
    BY <1>1, <1>2 DEF EvidenceOK, Open, history
  <1>. QED BY <1>3, <1>4, <1>5

LEMMA WindowKeeps ==
    ASSUME IInv, WindowLapses
    PROVE  IInv'
  <1>. USE DEF IInv
  <1>1. Fault /\ UNCHANGED <<model, handler, job, others, gone, history>>
    BY DEF WindowLapses
  <1>2. streak' \in Streak /\ streak'.n = streak.n /\ streak'.cool = streak.cool
        /\ streak'.cancelled = streak.cancelled
    <2>. DEFINE R(l) == [streak EXCEPT !.lapsed = l]
                q == R(TRUE)
    <2>1. ASSUME NEW l \in BOOLEAN
          PROVE  R(l) \in Streak /\ R(l).n = streak.n /\ R(l).cool = streak.cool
                 /\ R(l).cancelled = streak.cancelled
      BY Parts DEF Streak
    <2>2. TRUE \in BOOLEAN /\ streak' = q
      BY DEF WindowLapses
    <2>. HIDE DEF R
    <2>. QED BY <2>1, <2>2
  <1>3. RetireTypeOK'
    BY <1>1, <1>2, Faults DEF RetireTypeOK, history, Streak
  <1>4. RowOK' /\ OperatorOK' /\ LockOK'
    BY <1>1, RowRests DEF history
  <1>5. EvidenceOK'
    BY <1>1, <1>2 DEF EvidenceOK, Open, history
  <1>. QED BY <1>3, <1>4, <1>5

LEMMA OtherProbeKeeps ==
    ASSUME IInv, OtherProbe
    PROVE  IInv'
  <1>. USE DEF IInv
  <1>1. UNCHANGED <<model, streak, handler, job, gone, history>>
    BY DEF OtherProbe
  <1>2. others' \in 0..MaxProbes
    <2>1. Cardinality({r \in Handler : handler[r] = "slot"}) \in Nat
      <3>1. IsFiniteSet({r \in Handler : handler[r] = "slot"})
        BY RetireAssumption, FS_Subset
      <3>. QED BY <3>1, FS_CardinalityType
    <2>2. others \in 0..MaxProbes /\ MaxProbes \in Nat
      BY RetireAssumption DEF RetireTypeOK
    <2>3. CASE Slots < MaxProbes /\ others' = others + 1
      <3>1. others <= Slots /\ Slots \in Int
        BY <2>1, <2>2 DEF Slots
      <3>. QED BY <2>2, <2>3, <3>1
    <2>4. CASE others > 0 /\ others' = others - 1
      BY <2>2, <2>4
    <2>. QED BY <2>3, <2>4 DEF OtherProbe
  <1>3. faults' \in 0..MaxFaults /\ ops' = ops /\ scans' = scans
    <2>1. CASE UNCHANGED counts
      BY <2>1 DEF counts, RetireTypeOK
    <2>2. CASE Fault
      BY <2>2, Faults
    <2>. QED BY <2>1, <2>2 DEF OtherProbe
  <1>4. RetireTypeOK'
    BY <1>1, <1>2, <1>3 DEF RetireTypeOK, history
  <1>5. RowOK' /\ OperatorOK' /\ LockOK'
    BY <1>1, RowRests DEF history
  <1>6. EvidenceOK'
    BY <1>1 DEF EvidenceOK, Open, history
  <1>. QED BY <1>4, <1>5, <1>6

(* A restart forgets streak and job; the row's transaction is undone. *)
LEMMA RestartKeeps ==
    ASSUME IInv, Restart
    PROVE  IInv'
  <1>. USE DEF IInv
  <1>1. Fault /\ job' = NoJob /\ handler' = [r \in Handler |-> "idle"]
        /\ others' = 0 /\ UNCHANGED <<model, gone, history>>
        /\ streak' = [n |-> 0, cool |-> FALSE, cancelled |-> FALSE, lapsed |-> FALSE]
    BY DEF Restart
  <1>2. streak' \in Streak /\ streak'.n = 0
    <2>1. 0 \in 0..Threshold
      BY RetireAssumption
    <2>. QED BY <1>1, <2>1 DEF Streak
  <1>3. job' \in Job /\ job'.pc = "idle"
    BY <1>1, NoJobIs
  <1>4. RetireTypeOK'
    BY <1>1, <1>2, <1>3, Faults, RetireAssumption DEF RetireTypeOK, history, Streak, Job
  <1>5. RowOK' /\ OperatorOK' /\ LockOK'
    BY <1>1, <1>3 DEF RowOK, OperatorOK, LockOK, RowLocked, history
  <1>6. EvidenceOK'
    BY <1>1, <1>2, <1>3, Parts, Numbers DEF EvidenceOK, Open, history
  <1>. QED BY <1>4, <1>5, <1>6

LEMMA InitHolds ==
    ASSUME RetireInit
    PROVE  IInv
  <1>. USE DEF RetireInit
  <1>1. model \in Row
    <2>1. 0 \in 0..MissingScanThreshold
      BY RetireAssumption
    <2>. QED BY <2>1 DEF Row
  <1>2. streak \in Streak /\ streak.n = 0
    <2>1. 0 \in 0..Threshold
      BY RetireAssumption
    <2>. QED BY <2>1 DEF Streak
  <1>3. job \in Job /\ job.pc = "idle"
    BY NoJobIs
  <1>4. gone \in BOOLEAN /\ heard \in BOOLEAN
    OBVIOUS
  <1>5. others \in 0..MaxProbes /\ ops \in 0..MaxOps /\ scans \in 0..MaxScans
        /\ faults \in 0..MaxFaults /\ since \in 0..Threshold
    BY RetireAssumption
  <1>6. handler \in [Handler -> {"idle", "struck", "slot"}] /\ lastOp \in {"none", "on", "off"}
    OBVIOUS
  <1>7. RetireTypeOK
    BY <1>1, <1>2, <1>3, <1>4, <1>5, <1>6, Parts
  <1>8. RowOK
    BY DEF RowOK
  <1>9. OperatorOK
    BY DEF OperatorOK
  <1>10. LockOK
    BY <1>3 DEF LockOK, RowLocked
  <1>11. EvidenceOK
    BY <1>2, <1>3 DEF EvidenceOK, Open
  <1>. QED BY <1>7, <1>8, <1>9, <1>10, <1>11 DEF IInv

LEMMA StepKeeps ==
    ASSUME IInv, [RetireNext]_retire
    PROVE  IInv'
  <1>1. ASSUME NEW r \in Handler, Traffic(r)
        PROVE  IInv'
    BY <1>1, GoneKeeps, ServedKeeps DEF Traffic, NoteStreamOutcome
  <1>2. ASSUME NEW r \in Handler, HandlerStep(r)
        PROVE  IInv'
    BY <1>2, AcquireKeeps, ClaimKeeps DEF HandlerStep
  <1>3. CASE JobStep
    BY <1>3, JobStepsKeep, ProbeKeeps, CommitKeeps, RevertKeeps DEF JobStep
  <1>4. CASE ProviderRetires
    <2>1. gone' \in BOOLEAN /\ UNCHANGED <<model, streak, handler, job, others, counts, history>>
      BY <1>4 DEF ProviderRetires
    <2>2. RetireTypeOK'
      BY <2>1 DEF IInv, RetireTypeOK, counts, history
    <2>3. RowOK' /\ OperatorOK' /\ LockOK'
      BY <2>1, RowRests DEF history
    <2>. QED BY <2>1, <2>2, <2>3 DEF IInv, EvidenceOK, Open, history
  <1>5. CASE UNCHANGED retire
    <2>1. UNCHANGED <<model, streak, handler, job, others, gone, counts, history>>
      BY <1>5 DEF retire
    <2>. QED BY <2>1 DEF IInv, RetireTypeOK, RowOK, OperatorOK, LockOK, RowLocked, EvidenceOK, Open,
                         counts, history
  <1>. QED BY <1>1, <1>2, <1>3, <1>4, <1>5, CommitKeeps, SetEnabledKeeps, UpsertKeeps, MissingKeeps,
              PruneKeeps, CooldownKeeps, WindowKeeps, OtherProbeKeeps, RestartKeeps DEF RetireNext
-----------------------------------------------------------------------------
(***************************************************************************)
(* The theorems.                                                           *)
(***************************************************************************)

(* IInv holds throughout, for any number of requests at once and any       *)
(* thresholds, whatever the operator, discovery, restarts and failed       *)
(* writes do to the row in between.                                        *)
THEOREM Inductive == RetireSpec => []IInv
  <1>1. RetireInit => IInv
    BY InitHolds
  <1>2. IInv /\ [RetireNext]_retire => IInv'
    BY StepKeeps
  <1>. QED BY <1>1, <1>2, PTL DEF RetireSpec

(* Every variable keeps its type. *)
THEOREM TypeCorrect == RetireSpec => []RetireTypeOK
  <1>1. IInv => RetireTypeOK
    BY DEF IInv
  <1>. QED BY <1>1, Inductive, PTL

(* What the operator switched off stays off, and what they switched on     *)
(* leaves routing only by a retirement: neither a job that was decided     *)
(* before the edit, nor RevertAutoRetire, nor a scan or a prune overrides  *)
(* SetEnabled.                                                             *)
THEOREM OperatorHasLastWord == RetireSpec => []OperatorObeyed
  <1>1. IInv => OperatorObeyed
    BY DEF IInv, OperatorOK, OperatorObeyed
  <1>. QED BY <1>1, Inductive, PTL

(* A step that announces a retirement that stands. *)
Announces ==
    /\ job.pc # "announce" /\ job'.pc = "announce"
    /\ model'.retired /\ heard

LEMMA AnnouncesOnEvidence ==
    ASSUME IInv, [RetireNext]_retire, Announces
    PROVE  since >= Threshold \/ job'.failed
  <1>. USE DEF IInv
  <1>1. /\ job \in Job /\ streak \in Streak /\ since \in 0..Threshold
    BY Parts
  <1>2. CASE StartDisable
    BY <1>1, <1>2, JobMoves, JobPCs DEF StartDisable, Announces
  <1>3. ASSUME NEW v \in ProbeVerdicts, ProbeForRetirement(v)
        PROVE  FALSE
    BY <1>1, <1>3, JobMoves, JobPCs DEF ProbeForRetirement, Announces
  <1>4. CASE StageRetirement
    BY <1>1, <1>4, JobMoves, JobPCs DEF StageRetirement, Announces
  <1>5. CASE ConfirmRetirement
    BY <1>1, <1>5, JobMoves, JobPCs DEF ConfirmRetirement, Announces
  <1>6. CASE CommitRetirement
    BY <1>1, <1>6, JobMoves, JobPCs DEF CommitRetirement, Announces
  <1>7. CASE RetirementWriteFails
    BY <1>1, <1>7, JobMoves, JobPCs DEF RetirementWriteFails, Announces
  <1>8. CASE CheckTombstone
    <2>1. job.pc = "committed" /\ streak.cancelled
      BY <1>8 DEF CheckTombstone, EvidenceOK, Open, Announces
    <2>2. JobTo("recount")
      BY <1>8, <2>1 DEF CheckTombstone
    <2>. QED BY <1>1, <2>2, JobMoves, JobPCs DEF Announces
  <1>9. CASE Recount
    <2>1. CASE streak.n >= Threshold
      BY <1>1, <2>1, Numbers DEF EvidenceOK
    <2>2. CASE ~(streak.n >= Threshold)
      <3>1. JobTo("revert")
        BY <1>9, <2>2 DEF Recount
      <3>. QED BY <1>1, <3>1, JobMoves, JobPCs DEF Announces
    <2>. QED BY <2>1, <2>2
  <1>10. CASE RevertAutoRetire
    <2>1. CASE job' = [pc |-> "announce", failed |-> TRUE]
      BY <2>1
    <2>2. CASE /\ model' = IF RevertsRow THEN [model EXCEPT !.enabled = TRUE, !.retired = FALSE] ELSE model
               /\ JobTo(IF RevertsRow THEN "idle" ELSE "announce")
      <3>1. CASE RevertsRow
        <4>1. JobTo("idle")
          BY <2>2, <3>1
        <4>. QED BY <1>1, <4>1, JobMoves, JobPCs DEF Announces
      <3>2. CASE ~RevertsRow
        <4>1. model' = model
          BY <2>2, <3>2
        <4>. QED BY <3>2, <4>1 DEF RevertsRow, RowOK, Announces
      <3>. QED BY <3>1, <3>2
    <2>. QED BY <1>10, <2>1, <2>2 DEF RevertAutoRetire
  <1>11. CASE AnnounceRetirement \/ Restart
    BY <1>11, NoJobIs DEF AnnounceRetirement, Restart, Announces
  <1>12. ASSUME NEW r \in Handler, ClaimProbe(r)
         PROVE  FALSE
    <2>1. job' = [NoJob EXCEPT !.pc = "queued"] \/ job' = job
      BY <1>12 DEF ClaimProbe
    <2>2. [NoJob EXCEPT !.pc = "queued"].pc = "queued"
      BY DEF NoJob
    <2>. QED BY <2>1, <2>2 DEF Announces
  <1>13. CASE UNCHANGED job
    BY <1>13 DEF Announces
  <1>14. CASE JobStep
    BY <1>2, <1>3, <1>4, <1>5, <1>6, <1>8, <1>9, <1>10, <1>11, <1>14 DEF JobStep
  <1>15. ASSUME NEW r \in Handler, Traffic(r) \/ HandlerStep(r)
         PROVE  since >= Threshold \/ job'.failed
    BY <1>12, <1>13, <1>15 DEF Traffic, NoteStreamOutcome, NoteModelGone, NoteModelServed,
                               HandlerStep, AcquireProbeSlot
  <1>16. CASE \/ \E on \in BOOLEAN : SetEnabled(on)
              \/ Upsert \/ PruneRetired \/ \E listed \in BOOLEAN : RecordMissingModels(listed)
              \/ CooldownEnds \/ WindowLapses \/ OtherProbe \/ ProviderRetires
    BY <1>13, <1>16 DEF SetEnabled, Upsert, RecordMissingModels, PruneRetired, CooldownEnds,
                        WindowLapses, OtherProbe, ProviderRetires
  <1>17. CASE UNCHANGED retire
    BY <1>13, <1>17 DEF retire
  <1>. QED BY <1>7, <1>11, <1>14, <1>15, <1>16, <1>17 DEF RetireNext

(* A retirement announced stands on evidence newer than the model's last   *)
(* answer: a success between claimProbe and the decision is seen by one of *)
(* the tombstone's three reads, and only as many refusals since, or a      *)
(* failed RevertAutoRetire, let the retirement stand.                      *)
THEOREM RetirementStands == RetireSpec => StandsOnEvidence
  <1>1. IInv /\ [RetireNext]_retire =>
          [Announces => since >= Threshold \/ job'.failed]_retire
    BY AnnouncesOnEvidence
  <1>2. RetireSpec => [][Announces => since >= Threshold \/ job'.failed]_retire
    BY <1>1, Inductive, PTL DEF RetireSpec
  <1>. QED BY <1>2 DEF StandsOnEvidence, Announces
=============================================================================
