-------------------------- MODULE FleetSyncProofs --------------------------
(***************************************************************************)
(* Fleet config sync implements FleetSource, and the sections an import    *)
(* writes late never overwrite a later import's, for any hosts and bounds. *)
(***************************************************************************)
EXTENDS FleetSync, TLAPS

AutoState == [enabled : BOOLEAN, primary : Primaries, gen : Gens]
KickState == [st : {"off", "wait", "run"}, pending : BOOLEAN]
TakenState == [src : Primaries, cfg : Config \cup {None}]

LoopOK ==
    /\ signal \in {"none", "put", "rearm"}
    /\ kick \in KickState /\ prev \in Config \cup {None}
    /\ attempt \in [Member -> {"zero", "recent", "due"}]
    /\ diverged \in [Member -> BOOLEAN]

CountsOK == edits \in 0..MaxEdit /\ faults \in 0..MaxFault /\ manual \in 0..MaxManual

MembersOK ==
    /\ config \in [Member -> Config]
    /\ fence \in [Member -> Gens \cup {-1}]
    /\ taken \in [Member -> TakenState]

(* The generation in force names the designated primary, unless the fleet  *)
(* disbanded under it, and auto-sync is on only with a primary.            *)
FrontOK ==
    /\ roster \subseteq Member
    /\ autoSync \in AutoState
    /\ designated \in [0..autoSync.gen -> Primaries]
    /\ autoSync.enabled => autoSync.primary # None
    /\ autoSync.primary # None => designated[autoSync.gen] = autoSync.primary

(* A source that its generation names. *)
Names(g, s) == g <= autoSync.gen /\ s \in Member /\ designated[g] = s

(* A pass under way carries a generation with the source it names, and has *)
(* the export in hand when it pushes.                                      *)
PassOK(w, p) ==
    /\ p \in PassState
    /\ p.pc # "idle" => Names(p.gen, p.src)
    /\ p.pc \in {"push", "await"} => p.at \in Member /\ p.export \in Config
    /\ w = "wizard" /\ p.pc = "next" => p.export \in Config

PassesOK == pass \in [Pass -> PassState] /\ \A w \in Pass : PassOK(w, pass[w])

ImportsOK == imports \subseteq ImportState /\ \A i \in imports : Names(i.gen, i.src)

(* A pass that has an import at a member awaits that one and no other. *)
Awaits(i) == i.from \in Pass => pass[i.from].pc = "await" /\ pass[i.from].at = i.to

AwaitsOK ==
    /\ \A i \in imports : Awaits(i)
    /\ \A i, j \in imports : i.from \in Pass /\ i.from = j.from => i = j

(* The last import to commit is the only one that still owns the member's  *)
(* sections, and one it has not written yet is one it still will.          *)
ToWrite(i, s) == \/ i.st = "core" /\ s # "core"
                 \/ i.st = "models" /\ s = "groups"

LiveOK == \A i \in imports : i.live => taken[i.to].cfg \in {None, i.cfg}

SectionOK(m, s) ==
    \/ taken[m].cfg = None
    \/ config[m][s] = taken[m].cfg[s]
    \/ \E i \in imports : i.to = m /\ i.live /\ ToWrite(i, s)

SectionsOK == faults = 0 => \A m \in Member, s \in Section : SectionOK(m, s)

(* The inductive invariant. *)
IInv ==
    /\ FrontOK /\ LoopOK /\ CountsOK /\ MembersOK
    /\ PassesOK /\ ImportsOK /\ AwaitsOK
    /\ LiveOK /\ SectionsOK
-----------------------------------------------------------------------------
(***************************************************************************)
(* What a pass carries as it moves on.                                     *)
(***************************************************************************)
LEMMA IdlePass ==
    ASSUME NEW w \in Pass
    PROVE  PassOK(w, Idle) /\ Idle.pc = "idle"
  <1>1. 0 \in Gens
    BY BoundAssumption DEF Gens
  <1>2. Idle \in PassState
    BY <1>1 DEF Idle, PassState, Primaries
  <1>. QED BY <1>2 DEF PassOK, Idle

(* The settings row is read in one scan. *)
LEMMA RowNames ==
    ASSUME FrontOK, autoSync.primary # None
    PROVE  Names(autoSync.gen, autoSync.primary) /\ autoSync.gen \in Gens
           /\ autoSync.primary \in Primaries
  BY BoundAssumption DEF FrontOK, Names, AutoState, Primaries, Gens

LEMMA BegunPass ==
    ASSUME FrontOK, NEW w \in Pass, autoSync.primary # None,
           NEW pc \in {"hash", "export"}, NEW k \in {"tick", "kick", "wizard"}
    PROVE  PassOK(w, [Idle EXCEPT !.pc = pc, !.kind = k,
                                  !.gen = autoSync.gen, !.src = autoSync.primary])
  <1>. DEFINE Begun(x) == [x EXCEPT !.pc = pc, !.kind = k,
                                    !.gen = autoSync.gen, !.src = autoSync.primary]
  <1>1. Idle \in PassState
    BY IdlePass DEF PassOK
  <1>2. ASSUME NEW x \in PassState
        PROVE  PassOK(w, Begun(x))
    BY RowNames DEF PassOK, PassState
  <1>. HIDE DEF Begun
  <1>3. PassOK(w, Begun(Idle))
    BY <1>1, <1>2
  <1>. QED BY <1>3 DEF Begun

LEMMA ArmedPass ==
    ASSUME NEW w \in Pass, NEW p, PassOK(w, p), p.pc # "idle", NEW h \in Config, NEW t \in SUBSET Member,
           NEW c \in {"no", "yes"}
    PROVE  /\ PassOK("auto", [[p EXCEPT !.hash = h] EXCEPT !.pc = "next", !.todo = t, !.cancel = c])
           /\ PassOK("wizard", [[p EXCEPT !.export = h] EXCEPT !.pc = "next", !.todo = t, !.cancel = c])
  BY DEF PassOK, PassState

LEMMA CancelledPass ==
    ASSUME NEW w \in Pass, NEW p, PassOK(w, p), NEW c \in {"no", "woken", "yes"}
    PROVE  PassOK(w, [p EXCEPT !.cancel = c])
  BY DEF PassOK, PassState

LEMMA DonePass ==
    ASSUME NEW w \in Pass, NEW p, PassOK(w, p), p.pc \in {"next", "push", "await"}, NEW a
    PROVE  PassOK(w, [p EXCEPT !.pc = "next", !.at = None, !.todo = @ \ {a}])
  BY DEF PassOK, PassState, Primaries

LEMMA PassedOver ==
    ASSUME NEW w \in Pass, NEW p, PassOK(w, p), p.pc = "next", NEW a
    PROVE  PassOK(w, [p EXCEPT !.todo = @ \ {a}])
  BY DEF PassOK, PassState

LEMMA ChosenPass ==
    ASSUME NEW w \in Pass, NEW p, PassOK(w, p), p.pc = "next", NEW m \in Member, MembersOK
    PROVE  /\ PassOK(w, Chosen(p, m)) /\ Chosen(p, m).pc = "push" /\ Chosen(p, m).at = m
           /\ w = "wizard" => PassOK(w, [p EXCEPT !.at = m, !.pc = "push"])
  <1>1. config[p.src] \in Config
    BY DEF PassOK, Names, MembersOK
  <1>2. ASSUME NEW e \in Config
        PROVE  PassOK(w, [p EXCEPT !.pc = "push", !.at = m, !.export = e])
    BY <1>2 DEF PassOK, PassState, Primaries
  <1>3. (IF p.export = None THEN config[p.src] ELSE p.export) \in Config
    BY <1>1 DEF PassOK, PassState
  <1>4. PassOK(w, Chosen(p, m)) /\ Chosen(p, m).pc = "push" /\ Chosen(p, m).at = m
    BY <1>2, <1>3 DEF Chosen, PassOK, PassState
  <1>5. w = "wizard" => PassOK(w, [p EXCEPT !.at = m, !.pc = "push"])
    BY DEF PassOK, PassState, Primaries
  <1>. QED BY <1>4, <1>5

LEMMA AwaitingPass ==
    ASSUME NEW w \in Pass, NEW p, PassOK(w, p), p.pc = "push"
    PROVE  PassOK(w, [p EXCEPT !.pc = "await"]) /\ [p EXCEPT !.pc = "await"].pc = "await"
           /\ [p EXCEPT !.pc = "await"].at = p.at
  BY DEF PassOK, PassState

-----------------------------------------------------------------------------
(***************************************************************************)
(* Steps by what they touch.                                               *)
(***************************************************************************)

(* Faults only add up. *)
MoreFaults == faults' = 0 => faults = 0

(* A step that leaves the members and the settings row alone. *)
LEMMA SectionsRest ==
    ASSUME IInv, UNCHANGED <<config, imports, taken>>, MoreFaults
    PROVE  LiveOK' /\ SectionsOK'
  BY DEF IInv, LiveOK, SectionsOK, SectionOK, ToWrite, MoreFaults

LEMMA PassMoves ==
    ASSUME IInv, NEW w \in Pass, NEW x, PassOK(w, x), W(w, x),
           pass[w].pc = "await" => x.pc = "await" /\ x.at = pass[w].at,
           UNCHANGED <<roster, autoSync, designated, config, fence, imports, taken>>,
           LoopOK', CountsOK', MoreFaults
    PROVE  IInv'
  <1>. USE DEF IInv
  <1>1. FrontOK' /\ MembersOK'
    BY DEF FrontOK, MembersOK
  <1>2. PassesOK'
    <2>1. pass' = [pass EXCEPT ![w] = x] /\ pass \in [Pass -> PassState] /\ x \in PassState
      BY DEF W, PassesOK, PassOK
    <2>2. \A v \in Pass : pass'[v] = IF v = w THEN x ELSE pass[v]
      BY <2>1
    <2>3. \A v \in Pass : PassOK(v, pass'[v])
      BY <2>2 DEF PassesOK
    <2>4. \A v \in Pass : PassOK(v, pass[v])'
      BY <2>3 DEF PassOK, Names
    <2>. QED BY <2>1, <2>4 DEF PassesOK
  <1>3. ImportsOK'
    BY DEF ImportsOK, Names
  <1>4. AwaitsOK'
    <2>1. pass' = [pass EXCEPT ![w] = x] /\ pass \in [Pass -> PassState]
      BY DEF W, PassesOK
    <2>2. \A i \in imports : Awaits(i)'
      BY <2>1 DEF AwaitsOK, Awaits
    <2>. QED BY <2>2 DEF AwaitsOK
  <1>. QED BY <1>1, <1>2, <1>3, <1>4, SectionsRest

(* Not even a pass moves. *)
LEMMA FleetRests ==
    ASSUME IInv, UNCHANGED <<roster, autoSync, designated, config, fence, imports, taken, pass>>,
           LoopOK', CountsOK', MoreFaults
    PROVE  IInv'
  <1>. USE DEF IInv
  <1>1. FrontOK' /\ MembersOK'
    BY DEF FrontOK, MembersOK
  <1>2. PassesOK' /\ ImportsOK'
    BY DEF PassesOK, PassOK, ImportsOK, Names
  <1>3. AwaitsOK'
    BY DEF AwaitsOK, Awaits
  <1>. QED BY <1>1, <1>2, <1>3, SectionsRest

LEMMA FaultCounts ==
    ASSUME IInv, Fault, UNCHANGED <<edits, manual>>
    PROVE  CountsOK' /\ MoreFaults /\ faults' # 0
  BY BoundAssumption DEF IInv, CountsOK, Fault, MoreFaults

LEMMA CountsRest ==
    ASSUME IInv, UNCHANGED counts
    PROVE  CountsOK' /\ MoreFaults
  BY DEF IInv, CountsOK, counts, MoreFaults

LEMMA LoopRests ==
    ASSUME IInv, UNCHANGED <<signal, loop>>
    PROVE  LoopOK'
  BY DEF IInv, LoopOK, loop

(* What is left of the loop's state when a pass ends. *)
LEMMA EndsLoop ==
    ASSUME IInv, NEW w \in Pass, NEW c \in Config \cup {None}, End(w, c)
    PROVE  kick' \in KickState /\ prev' \in Config \cup {None}
  <1>1. prev' \in Config \cup {None}
    BY DEF End, IInv, LoopOK
  <1>2. ASSUME NEW st \in {"wait", "off"}, NEW b \in BOOLEAN
        PROVE  [st |-> st, pending |-> b] \in KickState
    BY DEF KickState
  <1>3. (IF kick.pending THEN "wait" ELSE "off") \in {"wait", "off"} /\ FALSE \in BOOLEAN
    OBVIOUS
  <1>. QED BY <1>1, <1>2, <1>3 DEF End, KickEnds, IInv, LoopOK

-----------------------------------------------------------------------------
(***************************************************************************)
(* Passes.                                                                 *)
(***************************************************************************)
LEMMA BothPasses == "auto" \in Pass /\ "wizard" \in Pass
  BY DEF Pass

LEMMA PassFacts ==
    ASSUME IInv, NEW w \in Pass
    PROVE  /\ PassOK(w, pass[w]) /\ pass[w] \in PassState
           /\ pass[w].pc # "idle" => pass[w].src \in Member /\ config[pass[w].src] \in Config
           /\ roster \ {pass[w].src} \in SUBSET Member
           /\ (IF Stale(w) THEN "yes" ELSE "no") \in {"no", "yes"}
  BY DEF IInv, PassesOK, PassOK, Pass, MembersOK, Names, FrontOK

(* A pass that does not await anything ends. *)
LEMMA PassStops ==
    ASSUME IInv, NEW w \in Pass, NEW c \in Config \cup {None}, End(w, c), pass[w].pc # "await",
           UNCHANGED <<roster, autoSync, designated, config, fence, imports, taken, signal, diverged>>,
           attempt' \in [Member -> {"zero", "recent", "due"}], CountsOK', MoreFaults
    PROVE  IInv'
  <1>1. LoopOK'
    BY EndsLoop DEF IInv, LoopOK
  <1>2. W(w, Idle)
    BY DEF End
  <1>. QED BY <1>1, <1>2, IdlePass, PassMoves

LEMMA AutoSyncOnceKeeps ==
    ASSUME IInv, AutoSyncOnce
    PROVE  IInv'
  <1>1. CountsOK' /\ MoreFaults
    BY CountsRest DEF AutoSyncOnce
  <1>2. LoopOK'
    BY DEF AutoSyncOnce, IInv, LoopOK, front
  <1>3. CASE autoSync.enabled
    <2>1. W("auto", [Idle EXCEPT !.pc = "hash", !.kind = "tick",
                                 !.gen = autoSync.gen, !.src = autoSync.primary])
      BY <1>3 DEF AutoSyncOnce, Begin
    <2>2. autoSync.primary # None /\ FrontOK
      BY <1>3 DEF IInv, FrontOK
    <2>3. PassOK("auto", [Idle EXCEPT !.pc = "hash", !.kind = "tick",
                                      !.gen = autoSync.gen, !.src = autoSync.primary])
      BY <2>2, BothPasses, BegunPass
    <2>. QED BY <1>1, <1>2, <2>1, <2>3, BothPasses, PassMoves DEF AutoSyncOnce, front, history
  <1>4. CASE ~autoSync.enabled
    BY <1>1, <1>2, <1>4, FleetRests DEF AutoSyncOnce, front, history
  <1>. QED BY <1>3, <1>4

LEMMA ForceAutoSyncNowKeeps ==
    ASSUME IInv, ForceAutoSyncNow
    PROVE  IInv'
  <1>1. CountsOK' /\ MoreFaults
    BY CountsRest DEF ForceAutoSyncNow
  <1>2. kick' \in KickState
    <2>1. kick \in KickState
      BY DEF IInv, LoopOK
    <2>2. [kick EXCEPT !.st = "run"] \in KickState
      BY <2>1 DEF KickState
    <2>3. ASSUME NEW st \in {"wait", "off"}, NEW b \in BOOLEAN
          PROVE  [st |-> st, pending |-> b] \in KickState
      BY DEF KickState
    <2>4. (IF kick.pending THEN "wait" ELSE "off") \in {"wait", "off"} /\ FALSE \in BOOLEAN
      OBVIOUS
    <2>. QED BY <2>2, <2>3, <2>4 DEF ForceAutoSyncNow, KickEnds
  <1>3. LoopOK'
    BY <1>2 DEF ForceAutoSyncNow, IInv, LoopOK, front
  <1>4. CASE autoSync.enabled
    <2>1. W("auto", [Idle EXCEPT !.pc = "hash", !.kind = "kick",
                                 !.gen = autoSync.gen, !.src = autoSync.primary])
      BY <1>4 DEF ForceAutoSyncNow, Begin
    <2>2. autoSync.primary # None /\ FrontOK
      BY <1>4 DEF IInv, FrontOK
    <2>3. PassOK("auto", [Idle EXCEPT !.pc = "hash", !.kind = "kick",
                                      !.gen = autoSync.gen, !.src = autoSync.primary])
      BY <2>2, BothPasses, BegunPass
    <2>. QED BY <1>1, <1>3, <2>1, <2>3, BothPasses, PassMoves DEF ForceAutoSyncNow, front, history
  <1>5. CASE ~autoSync.enabled
    BY <1>1, <1>3, <1>5, FleetRests DEF ForceAutoSyncNow, front, history
  <1>. QED BY <1>4, <1>5

LEMMA PrimaryConfigHashKeeps ==
    ASSUME IInv, PrimaryConfigHash
    PROVE  IInv'
  <1>. DEFINE p == pass["auto"]
              h == config[p.src]
              moved == p.kind = "tick" /\ h # prev
  <1>1. CountsOK' /\ MoreFaults
    BY CountsRest DEF PrimaryConfigHash
  <1>2. attempt' \in [Member -> {"zero", "recent", "due"}]
    BY DEF PrimaryConfigHash, IInv, LoopOK
  <1>3. p.pc = "hash" /\ h \in Config /\ PassOK("auto", p)
    BY BothPasses, PassFacts DEF PrimaryConfigHash
  <1>4. CASE moved \/ Stale("auto")
    <2>1. End("auto", h)
      BY <1>4 DEF PrimaryConfigHash
    <2>. QED BY <1>1, <1>2, <1>3, <2>1, BothPasses, PassStops DEF PrimaryConfigHash, front, history
  <1>5. CASE ~(moved \/ Stale("auto"))
    <2>1. Arm("auto", [p EXCEPT !.hash = h]) /\ UNCHANGED <<kick, prev>>
      BY <1>5 DEF PrimaryConfigHash
    <2>2. PassOK("auto", [[p EXCEPT !.hash = h] EXCEPT
                            !.pc = "next", !.todo = roster \ {pass["auto"].src},
                            !.cancel = IF Stale("auto") THEN "yes" ELSE "no"])
      BY <1>3, BothPasses, PassFacts, ArmedPass
    <2>3. LoopOK'
      BY <1>2, <2>1 DEF PrimaryConfigHash, IInv, LoopOK, front
    <2>. QED BY <1>1, <1>3, <2>1, <2>2, <2>3, BothPasses, PassMoves
             DEF Arm, PrimaryConfigHash, front, history
  <1>. QED BY <1>4, <1>5

LEMMA PrimaryUnreadKeeps ==
    ASSUME IInv, PrimaryUnread
    PROVE  IInv'
  <1>1. CountsOK' /\ MoreFaults
    BY FaultCounts DEF PrimaryUnread
  <1>2. attempt' \in [Member -> {"zero", "recent", "due"}]
    BY DEF PrimaryUnread, IInv, LoopOK
  <1>. QED BY <1>1, <1>2, BothPasses, PassStops DEF PrimaryUnread, front, history

LEMMA RunConfigSyncKeeps ==
    ASSUME IInv, RunConfigSync
    PROVE  IInv'
  <1>1. CountsOK' /\ MoreFaults
    BY BoundAssumption DEF RunConfigSync, IInv, CountsOK, MoreFaults
  <1>2. LoopOK'
    BY LoopRests DEF RunConfigSync, front
  <1>3. "wizard" \in Pass /\ FrontOK /\ autoSync.primary # None
    BY DEF Pass, IInv, RunConfigSync
  <1>4. PassOK("wizard", [Idle EXCEPT !.pc = "export", !.kind = "wizard",
                                      !.gen = autoSync.gen, !.src = autoSync.primary])
    BY <1>3, BegunPass
  <1>. QED BY <1>1, <1>2, <1>3, <1>4, PassMoves DEF RunConfigSync, front, history

LEMMA WizardExportKeeps ==
    ASSUME IInv, WizardExport
    PROVE  IInv'
  <1>. DEFINE p == pass["wizard"]
  <1>1. CountsOK' /\ MoreFaults
    BY CountsRest DEF WizardExport
  <1>2. LoopOK'
    BY LoopRests DEF WizardExport, front
  <1>3. p.pc = "export" /\ config[p.src] \in Config /\ PassOK("wizard", p) /\ "wizard" \in Pass
    BY PassFacts DEF WizardExport, Pass
  <1>4. PassOK("wizard", [[p EXCEPT !.export = config[p.src]] EXCEPT
                            !.pc = "next", !.todo = roster \ {pass["wizard"].src},
                            !.cancel = IF Stale("wizard") THEN "yes" ELSE "no"])
    BY <1>3, BothPasses, PassFacts, ArmedPass
  <1>. QED BY <1>1, <1>2, <1>3, <1>4, PassMoves DEF Arm, WizardExport, front, history

LEMMA WatchRearmKeeps ==
    ASSUME IInv, NEW w \in Pass, WatchRearm(w)
    PROVE  IInv'
  <1>1. CountsOK' /\ MoreFaults
    BY CountsRest DEF WatchRearm
  <1>2. LoopOK'
    BY LoopRests DEF WatchRearm, front
  <1>3. PassOK(w, [pass[w] EXCEPT !.cancel = "yes"])
    BY PassFacts, CancelledPass
  <1>4. [pass[w] EXCEPT !.cancel = "yes"].pc = pass[w].pc /\ [pass[w] EXCEPT !.cancel = "yes"].at = pass[w].at
    BY PassFacts DEF PassState
  <1>. QED BY <1>1, <1>2, <1>3, <1>4, PassMoves DEF WatchRearm, front, history

LEMMA PassEndsKeeps ==
    ASSUME IInv, NEW w \in Pass, PassEnds(w)
    PROVE  IInv'
  <1>1. CountsOK' /\ MoreFaults
    BY CountsRest DEF PassEnds
  <1>2. attempt' \in [Member -> {"zero", "recent", "due"}]
    BY DEF PassEnds, IInv, LoopOK
  <1>3. pass[w].hash \in Config \cup {None} /\ pass[w].pc # "await"
    BY PassFacts DEF PassState, PassEnds
  <1>. QED BY <1>1, <1>2, <1>3, PassStops DEF PassEnds, front, history

LEMMA MeasureMemberKeeps ==
    ASSUME IInv, NEW m \in Member, MeasureMember(m)
    PROVE  IInv'
  <1>. DEFINE p == pass["auto"]
  <1>1. CountsOK' /\ MoreFaults
    BY CountsRest DEF MeasureMember
  <1>2. LoopOK'
    <2>1. attempt' \in [Member -> {"zero", "recent", "due"}]
      BY DEF MeasureMember, IInv, LoopOK
    <2>2. diverged' \in [Member -> BOOLEAN]
      BY DEF MeasureMember, IInv, LoopOK
    <2>. QED BY <2>1, <2>2 DEF MeasureMember, IInv, LoopOK, front
  <1>3. "auto" \in Pass /\ PassOK("auto", p) /\ p.pc = "next" /\ MembersOK
    BY PassFacts DEF MeasureMember, Pass, IInv
  <1>4. PassOK("auto", [p EXCEPT !.todo = @ \ {m}]) /\ PassOK("auto", Chosen(p, m))
    BY <1>3, PassedOver, ChosenPass
  <1>. QED BY <1>1, <1>2, <1>3, <1>4, PassMoves DEF MeasureMember, front, history

LEMMA UnreadFlags ==
    ASSUME LoopOK, NEW m \in Member, RecordUnreadableHash(m)
    PROVE  diverged' \in [Member -> BOOLEAN]
  BY DEF RecordUnreadableHash, LoopOK

LEMMA MeasureUnreadKeeps ==
    ASSUME IInv, NEW m \in Member, MeasureUnread(m)
    PROVE  IInv'
  <1>. DEFINE p == pass["auto"]
              c == Chosen(p, m)
              over(s) == [s EXCEPT !.pc = "next", !.at = None, !.todo = @ \ {m}]
  <1>1. CountsOK' /\ MoreFaults
    BY FaultCounts DEF MeasureUnread
  <1>2. LoopOK'
    <2>1. diverged' \in [Member -> BOOLEAN]
      BY UnreadFlags DEF MeasureUnread, IInv
    <2>. QED BY <2>1 DEF MeasureUnread, front, IInv, LoopOK
  <1>3. "auto" \in Pass /\ PassOK("auto", p) /\ p.pc = "next" /\ MembersOK
    BY PassFacts DEF MeasureUnread, Pass, IInv
  <1>4. PassOK("auto", c) /\ c.pc = "push"
    <2>. HIDE DEF p
    <2>1. PassOK("auto", Chosen(p, m)) /\ Chosen(p, m).pc = "push"
      BY <1>3, ChosenPass
    <2>. QED BY <2>1
  <1>5. PassOK("auto", over(c)) /\ PassOK("auto", over(p))
    <2>. HIDE DEF p, c
    <2>. QED BY <1>3, <1>4, DonePass
  <1>6. W("auto", over(p)) \/ W("auto", c) \/ W("auto", over(c))
    BY DEF MeasureUnread
  <1>. QED BY <1>1, <1>2, <1>3, <1>4, <1>5, <1>6, PassMoves DEF MeasureUnread, front, history

LEMMA ExportUnreadKeeps ==
    ASSUME IInv, NEW m \in Member, ExportUnread(m)
    PROVE  IInv'
  <1>1. CountsOK' /\ MoreFaults
    BY FaultCounts DEF ExportUnread
  <1>2. diverged' \in [Member -> BOOLEAN]
    BY UnreadFlags DEF ExportUnread, IInv, LoopOK
  <1>3. pass["auto"].hash \in Config \cup {None} /\ pass["auto"].pc = "next"
    BY BothPasses, PassFacts DEF PassState, ExportUnread
  <1>4. LoopOK'
    BY <1>2, <1>3, BothPasses, EndsLoop DEF ExportUnread, front, IInv, LoopOK
  <1>5. W("auto", Idle)
    BY DEF ExportUnread, End
  <1>. QED BY <1>1, <1>3, <1>4, <1>5, BothPasses, IdlePass, PassMoves DEF ExportUnread, front, history

LEMMA WizardNextKeeps ==
    ASSUME IInv, NEW m \in Member, WizardNext(m)
    PROVE  IInv'
  <1>. DEFINE p == pass["wizard"]
  <1>1. CountsOK' /\ MoreFaults
    BY CountsRest DEF WizardNext
  <1>2. LoopOK'
    BY LoopRests DEF WizardNext, front
  <1>3. "wizard" \in Pass /\ PassOK("wizard", p) /\ p.pc = "next" /\ MembersOK
    BY PassFacts DEF WizardNext, Pass, IInv
  <1>4. PassOK("wizard", [p EXCEPT !.at = m, !.pc = "push"])
    BY <1>3, ChosenPass
  <1>. QED BY <1>1, <1>2, <1>3, <1>4, PassMoves DEF WizardNext, front, history

LEMMA SkipMemberKeeps ==
    ASSUME IInv, NEW w \in Pass, SkipMember(w)
    PROVE  IInv'
  <1>1. CountsOK' /\ MoreFaults
    BY FaultCounts, CountsRest DEF SkipMember, counts
  <1>2. LoopOK'
    BY LoopRests DEF SkipMember, front
  <1>3. PassOK(w, Done(w)) /\ pass[w].pc = "push"
    BY PassFacts, DonePass DEF Done, SkipMember
  <1>. QED BY <1>1, <1>2, <1>3, PassMoves DEF SkipMember, front, history

-----------------------------------------------------------------------------
(***************************************************************************)
(* A pass and the import it has at a member.                               *)
(***************************************************************************)
LEMMA FrontRests ==
    ASSUME IInv, UNCHANGED <<roster, autoSync, designated>>
    PROVE  FrontOK' /\ (\A g, s : Names(g, s)' <=> Names(g, s))
  BY DEF IInv, FrontOK, Names

(* One pass moves, the others stay as right as they were. *)
LEMMA OtherPasses ==
    ASSUME IInv, NEW w \in Pass, NEW x, PassOK(w, x), W(w, x),
           UNCHANGED <<roster, autoSync, designated>>
    PROVE  PassesOK' /\ pass' = [pass EXCEPT ![w] = x] /\ pass'[w] = x
           /\ \A v \in Pass : v # w => pass'[v] = pass[v]
  <1>1. pass' = [pass EXCEPT ![w] = x] /\ pass \in [Pass -> PassState] /\ x \in PassState
    BY DEF W, IInv, PassesOK, PassOK
  <1>2. \A v \in Pass : PassOK(v, pass'[v])
    BY <1>1 DEF IInv, PassesOK
  <1>3. \A v \in Pass : PassOK(v, pass[v])'
    BY <1>2 DEF PassOK, Names
  <1>. QED BY <1>1, <1>3 DEF PassesOK

(* The import whose caller went away. *)
LEMMA GoneImport ==
    ASSUME NEW i \in ImportState
    PROVE  /\ [i EXCEPT !.from = "gone"] \in ImportState
           /\ [i EXCEPT !.from = "gone"].from = "gone" /\ "gone" \notin Pass
           /\ [i EXCEPT !.from = "gone"].to = i.to
           /\ [i EXCEPT !.from = "gone"].gen = i.gen
           /\ [i EXCEPT !.from = "gone"].src = i.src
           /\ [i EXCEPT !.from = "gone"].cfg = i.cfg
           /\ [i EXCEPT !.from = "gone"].st = i.st
           /\ [i EXCEPT !.from = "gone"].live = i.live
  BY DEF ImportState, Pass

(* An import leaves the member's hands, or its caller's only. *)
LEMMA ImportLeaves ==
    ASSUME IInv, NEW i \in imports, NEW S, S \subseteq {[i EXCEPT !.from = "gone"]},
           imports' = (imports \ {i}) \cup S,
           i.st \in {"core", "models"} => S # {} \/ faults' # 0,
           UNCHANGED <<config, taken>>, MoreFaults,
           UNCHANGED <<roster, autoSync, designated>>
    PROVE  ImportsOK' /\ LiveOK' /\ SectionsOK'
  <1>. DEFINE g == [i EXCEPT !.from = "gone"]
  <1>1. i \in ImportState /\ imports \subseteq ImportState
    BY DEF IInv, ImportsOK
  <1>2. g \in ImportState /\ g.to = i.to /\ g.gen = i.gen /\ g.src = i.src /\ g.cfg = i.cfg
        /\ g.st = i.st /\ g.live = i.live
    BY <1>1, GoneImport
  <1>3. S \subseteq {g}
    OBVIOUS
  <1>. HIDE DEF g
  <1>4. ImportsOK'
    BY <1>1, <1>2, <1>3, FrontRests DEF IInv, ImportsOK
  <1>5. LiveOK'
    BY <1>2, <1>3 DEF IInv, LiveOK
  <1>6. SectionsOK'
    <2>. SUFFICES ASSUME faults' = 0, NEW m \in Member, NEW s \in Section
                  PROVE  SectionOK(m, s)'
      BY DEF SectionsOK
    <2>1. SectionOK(m, s)
      BY DEF IInv, SectionsOK, MoreFaults
    <2>2. ASSUME NEW j \in imports, j.to = m, j.live, ToWrite(j, s)
          PROVE  \E k \in imports' : k.to = m /\ k.live /\ ToWrite(k, s)
      <3>1. CASE j = i
        <4>1. S = {g}
          BY <1>3, <2>2, <3>1 DEF ToWrite
        <4>2. g \in imports' /\ g.to = m /\ g.live /\ ToWrite(g, s)
          BY <1>2, <2>2, <3>1, <4>1 DEF ToWrite
        <4>. QED BY <4>2
      <3>2. CASE j # i
        BY <2>2, <3>2
      <3>. QED BY <3>1, <3>2
    <2>3. ASSUME NEW j \in imports', j.to = m, j.live, ToWrite(j, s)
          PROVE  SectionOK(m, s)'
      BY <2>3 DEF SectionOK, ToWrite
    <2>. QED BY <2>1, <2>2, <2>3 DEF SectionOK
  <1>. QED BY <1>4, <1>5, <1>6

LEMMA ImportReturns ==
    ASSUME IInv, NEW w \in Pass, NEW i \in imports, i.from = w,
           NEW S, S \subseteq {[i EXCEPT !.from = "gone"]}, imports' = (imports \ {i}) \cup S,
           i.st \in {"core", "models"} => S # {} \/ faults' # 0,
           W(w, Done(w)),
           UNCHANGED <<roster, autoSync, designated, config, fence, taken>>,
           LoopOK', CountsOK', MoreFaults
    PROVE  IInv'
  <1>1. i \in ImportState /\ pass[w].pc = "await" /\ PassOK(w, pass[w])
    BY PassFacts DEF IInv, ImportsOK, AwaitsOK, Awaits
  <1>2. PassOK(w, Done(w))
    BY <1>1, DonePass DEF Done
  <1>3. PassesOK' /\ \A v \in Pass : v # w => pass'[v] = pass[v]
    BY <1>2, OtherPasses
  <1>4. \A j \in imports' : j.from \in Pass => j \in imports /\ j.from # w
    BY <1>1, GoneImport DEF IInv, AwaitsOK
  <1>5. AwaitsOK'
    <2>1. \A j \in imports' : Awaits(j)'
      BY <1>3, <1>4 DEF IInv, AwaitsOK, Awaits
    <2>2. \A j, k \in imports' : j.from \in Pass /\ j.from = k.from => j = k
      BY <1>4 DEF IInv, AwaitsOK
    <2>. QED BY <2>1, <2>2 DEF AwaitsOK
  <1>6. ImportsOK' /\ LiveOK' /\ SectionsOK'
    BY ImportLeaves
  <1>7. MembersOK'
    BY DEF IInv, MembersOK
  <1>. QED BY <1>3, <1>5, <1>6, <1>7, FrontRests DEF IInv

LEMMA ImportAnsweredKeeps ==
    ASSUME IInv, NEW w \in Pass, NEW i \in imports, ImportAnswered(w, i)
    PROVE  IInv'
  <1>1. CountsOK' /\ MoreFaults
    BY CountsRest DEF ImportAnswered
  <1>2. attempt' \in [Member -> {"zero", "recent", "due"}]
    BY DEF ImportAnswered, RecordSyncAttempt, IInv, LoopOK
  <1>3. LoopOK'
    BY <1>2 DEF ImportAnswered, IInv, LoopOK, front
  <1>4. imports' = (imports \ {i}) \cup {}
    BY DEF ImportAnswered
  <1>. QED BY <1>1, <1>3, <1>4, ImportReturns DEF ImportAnswered, front, history

LEMMA ImportAbandonedKeeps ==
    ASSUME IInv, NEW w \in Pass, NEW i \in imports, ImportAbandoned(w, i)
    PROVE  IInv'
  <1>. DEFINE S == IF i.st = "answered" THEN {} ELSE {[i EXCEPT !.from = "gone"]}
  <1>1. CountsOK' /\ MoreFaults
    BY FaultCounts, CountsRest DEF ImportAbandoned, counts
  <1>2. attempt' \in [Member -> {"zero", "recent", "due"}]
    BY DEF ImportAbandoned, RecordSyncAttempt, IInv, LoopOK
  <1>3. LoopOK'
    BY <1>2 DEF ImportAbandoned, IInv, LoopOK, front
  <1>4. imports' = (imports \ {i}) \cup S /\ S \subseteq {[i EXCEPT !.from = "gone"]}
        /\ (i.st \in {"core", "models"} => S # {})
    BY DEF ImportAbandoned
  <1>. HIDE DEF S
  <1>. QED BY <1>1, <1>3, <1>4, ImportReturns DEF ImportAbandoned, front, history

LEMMA ImportLostKeeps ==
    ASSUME IInv, NEW w \in Pass, NEW i \in imports, ImportLost(w, i)
    PROVE  IInv'
  <1>1. CountsOK' /\ MoreFaults
    BY FaultCounts DEF ImportLost
  <1>2. LoopOK'
    BY LoopRests DEF ImportLost, front
  <1>3. imports' = (imports \ {i}) \cup {}
    BY DEF ImportLost
  <1>. QED BY <1>1, <1>2, <1>3, ImportReturns DEF ImportLost, front, history

LEMMA PushImportKeeps ==
    ASSUME IInv, NEW w \in Pass, PushImport(w)
    PROVE  IInv'
  <1>1. CountsOK' /\ MoreFaults
    BY CountsRest DEF PushImport
  <1>2. attempt' \in [Member -> {"zero", "recent", "due"}]
    BY DEF PushImport, IInv, LoopOK
  <1>3. CASE Superseded(w)
    <2>1. pass[w].hash \in Config \cup {None}
      BY PassFacts DEF PassState
    <2>. QED BY <1>1, <1>2, <1>3, <2>1, PassStops DEF PushImport, front, history
  <1>4. CASE ~Superseded(w)
    <2>. DEFINE n == [ to |-> pass[w].at, from |-> w, gen |-> pass[w].gen, src |-> pass[w].src,
                       cfg |-> pass[w].export, st |-> "sent", out |-> "ok", live |-> FALSE ]
    <2>1. imports' = imports \cup {n} /\ W(w, [pass[w] EXCEPT !.pc = "await"])
      BY <1>4 DEF PushImport
    <2>2. pass[w].pc = "push" /\ PassOK(w, pass[w]) /\ pass[w] \in PassState
      BY PassFacts DEF PushImport
    <2>3. PassesOK' /\ pass'[w].pc = "await" /\ pass'[w].at = pass[w].at
          /\ \A v \in Pass : v # w => pass'[v] = pass[v]
      BY <2>1, <2>2, AwaitingPass, OtherPasses DEF PushImport, front, history
    <2>4. n \in ImportState /\ Names(n.gen, n.src)
      <3>1. ASSUME NEW b \in BOOLEAN
            PROVE  [ to |-> pass[w].at, from |-> w, gen |-> pass[w].gen, src |-> pass[w].src,
                     cfg |-> pass[w].export, st |-> "sent", out |-> "ok", live |-> b ] \in ImportState
        BY <2>2 DEF PassOK, Names, ImportState, PassState
      <3>2. Names(pass[w].gen, pass[w].src)
        BY <2>2 DEF PassOK
      <3>. QED BY <3>1, <3>2
    <2>5. n.from = w /\ n.to = pass[w].at /\ ~n.live
      OBVIOUS
    <2>. HIDE DEF n
    <2>6. ImportsOK'
      BY <2>1, <2>4, FrontRests DEF IInv, ImportsOK, PushImport, front, history
    <2>7. \A j \in imports : j.from # w
      BY <2>2 DEF IInv, AwaitsOK, Awaits
    <2>8. AwaitsOK'
      <3>1. \A j \in imports' : Awaits(j)'
        BY <2>1, <2>3, <2>5, <2>7 DEF IInv, AwaitsOK, Awaits
      <3>2. \A j, k \in imports' : j.from \in Pass /\ j.from = k.from => j = k
        BY <2>1, <2>5, <2>7 DEF IInv, AwaitsOK
      <3>. QED BY <3>1, <3>2 DEF AwaitsOK
    <2>9. LiveOK'
      BY <2>1, <2>5 DEF IInv, LiveOK, PushImport, history
    <2>10. SectionsOK'
      BY <1>1, <2>1 DEF IInv, SectionsOK, SectionOK, ToWrite, PushImport, history, MoreFaults
    <2>11. MembersOK' /\ LoopOK'
      BY <1>2, <1>4 DEF IInv, MembersOK, LoopOK, PushImport, front, history
    <2>. QED BY <1>1, <2>3, <2>6, <2>8, <2>9, <2>10, <2>11, FrontRests
             DEF IInv, PushImport, front, history
  <1>. QED BY <1>3, <1>4

-----------------------------------------------------------------------------
(***************************************************************************)
(* The operator.                                                           *)
(***************************************************************************)
LEMMA EditConfigKeeps ==
    ASSUME IInv, NEW m \in Member, EditConfig(m)
    PROVE  IInv'
  <1>1. CountsOK' /\ MoreFaults
    BY BoundAssumption DEF EditConfig, IInv, CountsOK, MoreFaults
  <1>2. LoopOK'
    BY LoopRests DEF EditConfig, front
  <1>3. taken' = [taken EXCEPT ![m] = [taken[m] EXCEPT !.cfg = None]]
        /\ taken \in [Member -> TakenState] /\ [taken[m] EXCEPT !.cfg = None] \in TakenState
        /\ [taken[m] EXCEPT !.cfg = None].cfg = None
    BY DEF EditConfig, IInv, MembersOK, TakenState
  <1>4. [s \in Section |-> edits + 1] \in Config
    BY BoundAssumption DEF EditConfig, IInv, CountsOK, Config
  <1>5. MembersOK'
    BY <1>3, <1>4 DEF EditConfig, IInv, MembersOK
  <1>6. taken'[m].cfg = None /\ \A n \in Member : n # m => taken'[n] = taken[n] /\ config'[n] = config[n]
    BY <1>3 DEF EditConfig, IInv, MembersOK
  <1>7. imports \subseteq ImportState /\ imports' = imports
    BY DEF IInv, ImportsOK, EditConfig
  <1>8. LiveOK'
    BY <1>6, <1>7 DEF IInv, LiveOK, ImportState
  <1>9. SectionsOK'
    <2>. SUFFICES ASSUME faults' = 0, NEW n \in Member, NEW s \in Section
                  PROVE  SectionOK(n, s)'
      BY DEF SectionsOK
    <2>1. SectionOK(n, s)
      BY <1>1 DEF IInv, SectionsOK, MoreFaults
    <2>. QED BY <1>6, <1>7, <2>1 DEF SectionOK, ToWrite
  <1>10. PassesOK' /\ ImportsOK'
    BY DEF EditConfig, front, IInv, PassesOK, PassOK, ImportsOK, Names
  <1>11. AwaitsOK'
    BY DEF EditConfig, IInv, AwaitsOK, Awaits
  <1>. QED BY <1>1, <1>2, <1>5, <1>8, <1>9, <1>10, <1>11, FrontRests DEF IInv, EditConfig, front

(* A new generation keeps what the old ones name. *)
LEMMA Issues ==
    ASSUME IInv, NEW e \in BOOLEAN, NEW p \in Primaries, e => p # None, Issue(e, p)
    PROVE  /\ autoSync' \in AutoState /\ designated' \in [0..autoSync'.gen -> Primaries]
           /\ autoSync'.enabled => autoSync'.primary # None
           /\ designated'[autoSync'.gen] = autoSync'.primary
           /\ \A g \in Gens : \A s : Names(g, s) => Names(g, s)'
  <1>1. autoSync.gen \in Nat /\ autoSync.gen + 1 \in Gens /\ designated \in [0..autoSync.gen -> Primaries]
    BY BoundAssumption DEF IInv, FrontOK, AutoState, Gens, Issue
  <1>2. autoSync' \in AutoState
    BY <1>1 DEF AutoState, Issue
  <1>3. autoSync'.gen = autoSync.gen + 1 /\ autoSync'.primary = p /\ (autoSync'.enabled <=> e)
    BY DEF Issue
  <1>4. designated' = [g \in 0..(autoSync.gen + 1) |->
                         IF g = autoSync.gen + 1 THEN p ELSE designated[g]]
    BY DEF Issue
  <1>5. designated' \in [0..autoSync'.gen -> Primaries] /\ designated'[autoSync'.gen] = p
    BY <1>1, <1>3, <1>4
  <1>6. \A g \in Gens : g <= autoSync.gen => g <= autoSync'.gen /\ designated'[g] = designated[g]
    BY <1>1, <1>3, <1>4, BoundAssumption DEF Gens
  <1>7. \A g \in Gens : \A s : Names(g, s) => Names(g, s)'
    BY <1>6 DEF Names
  <1>. QED BY <1>2, <1>3, <1>5, <1>7

LEMMA IssueKeeps ==
    ASSUME IInv, NEW e \in BOOLEAN, NEW p \in Primaries, e => p # None, Issue(e, p),
           roster' \subseteq Member, signal' \in {"none", "put", "rearm"},
           UNCHANGED <<config, fence, imports, pass, loop, counts, taken>>
    PROVE  IInv'
  <1>1. FrontOK'
    BY Issues DEF FrontOK
  <1>2. LoopOK' /\ CountsOK' /\ MoreFaults /\ MembersOK'
    BY CountsRest DEF IInv, LoopOK, loop, MembersOK
  <1>3. PassesOK'
    <2>1. ASSUME NEW w \in Pass PROVE PassOK(w, pass[w])'
      <3>1. PassOK(w, pass[w]) /\ pass[w].gen \in Gens /\ pass' = pass
        BY DEF IInv, PassesOK, PassOK, PassState
      <3>2. pass[w].pc # "idle" => Names(pass[w].gen, pass[w].src)'
        BY <3>1, Issues DEF PassOK
      <3>. QED BY <3>1, <3>2 DEF PassOK
    <2>. QED BY <2>1 DEF IInv, PassesOK
  <1>4. ImportsOK'
    <2>1. ASSUME NEW i \in imports PROVE Names(i.gen, i.src)'
      BY Issues DEF IInv, ImportsOK, ImportState
    <2>. QED BY <2>1 DEF IInv, ImportsOK
  <1>5. AwaitsOK'
    BY DEF IInv, AwaitsOK, Awaits
  <1>. QED BY <1>1, <1>2, <1>3, <1>4, <1>5, SectionsRest DEF IInv

LEMMA PutAutoSyncKeeps ==
    ASSUME IInv, NEW enabled \in BOOLEAN, NEW p \in Primaries, PutAutoSync(enabled, p)
    PROVE  IInv'
  <1>. DEFINE e == p # None /\ (IF autoSync.primary \in {None, p} THEN enabled ELSE autoSync.enabled)
  <1>1. e \in BOOLEAN /\ (e => p # None)
    OBVIOUS
  <1>2. Issue(e, p)
    BY DEF PutAutoSync
  <1>. HIDE DEF e
  <1>3. roster' \subseteq Member /\ signal' \in {"none", "put", "rearm"}
    BY DEF PutAutoSync, IInv, FrontOK
  <1>. QED BY <1>1, <1>2, <1>3, IssueKeeps DEF PutAutoSync

LEMMA EnrolMemberKeeps ==
    ASSUME IInv, NEW m \in Member, EnrolMember(m)
    PROVE  IInv'
  <1>1. autoSync.enabled \in BOOLEAN /\ autoSync.primary \in Primaries
        /\ (autoSync.enabled => autoSync.primary # None)
    BY DEF IInv, FrontOK, AutoState
  <1>2. roster' \subseteq Member /\ signal' \in {"none", "put", "rearm"}
    BY DEF EnrolMember, IInv, FrontOK
  <1>. QED BY <1>1, <1>2, IssueKeeps DEF EnrolMember

LEMMA DeleteMemberKeeps ==
    ASSUME IInv, NEW m \in Member, DeleteMember(m)
    PROVE  IInv'
  <1>1. CountsOK' /\ MoreFaults
    BY CountsRest DEF DeleteMember
  <1>2. LoopOK'
    <2>1. attempt' \in [Member -> {"zero", "recent", "due"}]
      BY DEF DeleteMember, IInv, LoopOK
    <2>2. diverged' \in [Member -> BOOLEAN]
      BY DEF DeleteMember, IInv, LoopOK
    <2>3. signal' \in {"none", "put", "rearm"}
      BY DEF DeleteMember
    <2>. QED BY <2>1, <2>2, <2>3 DEF DeleteMember, IInv, LoopOK
  <1>3. autoSync' = autoSync \/ autoSync' = [autoSync EXCEPT !.enabled = FALSE, !.primary = None]
    BY DEF DeleteMember
  <1>4. autoSync \in AutoState /\ autoSync' \in AutoState /\ autoSync'.gen = autoSync.gen
        /\ (autoSync'.primary = None \/ autoSync'.primary = autoSync.primary)
        /\ (autoSync'.enabled => autoSync.enabled /\ autoSync'.primary = autoSync.primary)
    <2>1. autoSync \in AutoState
      BY DEF IInv, FrontOK
    <2>2. CASE autoSync' = autoSync
      BY <2>1, <2>2
    <2>3. CASE autoSync' = [autoSync EXCEPT !.enabled = FALSE, !.primary = None]
      <3>1. ASSUME NEW b \in BOOLEAN
            PROVE  [autoSync EXCEPT !.enabled = b, !.primary = None] \in AutoState
        BY <2>1 DEF AutoState, Primaries
      <3>2. autoSync' \in AutoState
        BY <2>3, <3>1
      <3>3. autoSync'.gen = autoSync.gen /\ autoSync'.primary = None /\ ~autoSync'.enabled
        BY <2>1, <2>3 DEF AutoState
      <3>. QED BY <2>1, <3>2, <3>3
    <2>. QED BY <1>3, <2>2, <2>3
  <1>5. FrontOK'
    BY <1>4 DEF IInv, FrontOK, DeleteMember, history
  <1>6. \A g, s : Names(g, s)' <=> Names(g, s)
    BY <1>4 DEF Names, DeleteMember, history
  <1>7. PassesOK' /\ ImportsOK'
    BY <1>6 DEF IInv, PassesOK, PassOK, ImportsOK, DeleteMember
  <1>8. AwaitsOK' /\ MembersOK'
    BY DEF IInv, AwaitsOK, Awaits, MembersOK, DeleteMember, history
  <1>. QED BY <1>1, <1>2, <1>5, <1>7, <1>8, SectionsRest DEF IInv, DeleteMember, history

LEMMA SignalRearmKeeps ==
    ASSUME IInv, SignalRearm
    PROVE  IInv'
  <1>1. CountsOK' /\ MoreFaults
    BY CountsRest DEF SignalRearm
  <1>2. LoopOK'
    <2>1. kick \in KickState
      BY DEF IInv, LoopOK
    <2>2. [kick EXCEPT !.st = "wait"] \in KickState
      BY <2>1 DEF KickState
    <2>3. ASSUME NEW b \in BOOLEAN PROVE [kick EXCEPT !.pending = b] \in KickState
      BY <2>1 DEF KickState
    <2>4. kick' \in KickState
      BY <2>1, <2>2, <2>3 DEF SignalRearm
    <2>. QED BY <2>4 DEF SignalRearm, IInv, LoopOK
  <1>3. ASSUME NEW w \in Pass
        PROVE  PassOK(w, pass'[w]) /\ pass'[w].pc = pass[w].pc /\ pass'[w].at = pass[w].at
    <2>1. pass'[w] = pass[w] \/ pass'[w] = [pass[w] EXCEPT !.cancel = "woken"]
      BY DEF SignalRearm
    <2>2. PassOK(w, pass[w]) /\ pass[w] \in PassState
      BY PassFacts
    <2>3. PassOK(w, [pass[w] EXCEPT !.cancel = "woken"])
          /\ [pass[w] EXCEPT !.cancel = "woken"].pc = pass[w].pc
          /\ [pass[w] EXCEPT !.cancel = "woken"].at = pass[w].at
      BY <2>2, CancelledPass DEF PassState
    <2>. QED BY <2>1, <2>2, <2>3
  <1>4. \A g, s : Names(g, s)' <=> Names(g, s)
    BY DEF Names, SignalRearm, history
  <1>5. PassesOK'
    <2>1. \A w \in Pass : PassOK(w, pass[w])'
      BY <1>3, <1>4 DEF PassOK
    <2>2. DOMAIN pass' = Pass /\ pass' = [w \in Pass |-> pass'[w]]
      BY DEF SignalRearm
    <2>. QED BY <2>1, <2>2 DEF PassesOK, PassOK
  <1>6. ImportsOK' /\ AwaitsOK'
    BY <1>3, <1>4 DEF IInv, ImportsOK, AwaitsOK, Awaits, SignalRearm
  <1>7. FrontOK' /\ MembersOK'
    BY DEF IInv, FrontOK, MembersOK, SignalRearm, history
  <1>. QED BY <1>1, <1>2, <1>5, <1>6, <1>7, SectionsRest DEF IInv, SignalRearm, history

LEMMA RetryDueKeeps ==
    ASSUME IInv, NEW m \in Member, RetryDue(m)
    PROVE  IInv'
  <1>1. CountsOK' /\ MoreFaults
    BY CountsRest DEF RetryDue
  <1>2. LoopOK'
    BY DEF RetryDue, IInv, LoopOK, front
  <1>. QED BY <1>1, <1>2, FleetRests DEF RetryDue, front, history

-----------------------------------------------------------------------------
(***************************************************************************)
(* The member.                                                             *)
(***************************************************************************)

(* Same destination, caller, source and config. *)
SameImport(i, j) ==
    j.to = i.to /\ j.from = i.from /\ j.gen = i.gen /\ j.src = i.src /\ j.cfg = i.cfg

(* An import moves on, or is gone with its caller. *)
LEMMA ImportMoves ==
    ASSUME IInv, NEW i \in imports, NEW x \in ImportState, SameImport(i, x),
           NEW S, S \subseteq {x}, imports' = (imports \ {i}) \cup S,
           UNCHANGED <<roster, autoSync, designated, pass>>
    PROVE  ImportsOK' /\ AwaitsOK' /\ PassesOK' /\ FrontOK'
  <1>1. i \in ImportState /\ Names(i.gen, i.src)
    BY DEF IInv, ImportsOK
  <1>2. ImportsOK'
    BY <1>1, FrontRests DEF IInv, ImportsOK, SameImport
  <1>3. Awaits(i) /\ (Awaits(x)' <=> Awaits(i))
    BY DEF IInv, AwaitsOK, Awaits, SameImport
  <1>4. \A j \in imports' : Awaits(j)'
    BY <1>3 DEF IInv, AwaitsOK, Awaits
  <1>5. \A j, k \in imports' : j.from \in Pass /\ j.from = k.from => j = k
    BY DEF IInv, AwaitsOK, SameImport
  <1>6. PassesOK'
    BY FrontRests DEF IInv, PassesOK, PassOK
  <1>. QED BY <1>2, <1>4, <1>5, <1>6, FrontRests DEF AwaitsOK

(* An import that owed its member no section may go, or end up one that    *)
(* owes none.                                                              *)
LEMMA OwesNothing ==
    ASSUME IInv, NEW i \in imports, i.st = "sent", NEW x, SameImport(i, x), x.live = i.live,
           NEW S, S \subseteq {x}, imports' = (imports \ {i}) \cup S,
           UNCHANGED <<config, taken>>, MoreFaults
    PROVE  LiveOK' /\ SectionsOK'
  <1>1. LiveOK'
    BY DEF IInv, LiveOK, SameImport
  <1>2. SectionsOK'
    <2>. SUFFICES ASSUME faults' = 0, NEW m \in Member, NEW s \in Section
                  PROVE  SectionOK(m, s)'
      BY DEF SectionsOK
    <2>1. SectionOK(m, s)
      BY DEF IInv, SectionsOK, MoreFaults
    <2>2. ASSUME NEW j \in imports, j.to = m, j.live, ToWrite(j, s)
          PROVE  j \in imports'
      BY <2>2 DEF ToWrite
    <2>. QED BY <2>1, <2>2 DEF SectionOK, ToWrite
  <1>. QED BY <1>1, <1>2

LEMMA ImportDiesKeeps ==
    ASSUME IInv, NEW i \in imports, ImportDies(i)
    PROVE  IInv'
  <1>1. CountsOK' /\ MoreFaults
    BY CountsRest DEF ImportDies
  <1>2. LoopOK' /\ MembersOK'
    BY LoopRests DEF ImportDies, front, history, IInv, MembersOK
  <1>3. i \in ImportState /\ SameImport(i, i) /\ i.st = "sent"
    BY DEF ImportDies, IInv, ImportsOK, SameImport
  <1>4. PICK S : S \subseteq {i} /\ imports' = (imports \ {i}) \cup S
    <2>1. {} \subseteq {i} /\ imports' = (imports \ {i}) \cup {}
      BY DEF ImportDies
    <2>. QED BY <2>1
  <1>5. ImportsOK' /\ AwaitsOK' /\ PassesOK' /\ FrontOK'
    BY <1>3, <1>4, ImportMoves DEF ImportDies, front, history
  <1>6. LiveOK' /\ SectionsOK'
    BY <1>1, <1>3, <1>4, OwesNothing DEF ImportDies, history
  <1>. QED BY <1>1, <1>2, <1>5, <1>6 DEF IInv

LEMMA ImportRefused ==
    ASSUME IInv, NEW i \in imports, ApplyImport(i), FenceRefuses(i)
    PROVE  IInv'
  <1>. DEFINE x == [i EXCEPT !.st = "answered", !.out = "stale"]
              S == IF i.from = "gone" THEN {} ELSE {x}
  <1>1. CountsOK' /\ MoreFaults
    BY CountsRest DEF ApplyImport
  <1>2. LoopOK' /\ MembersOK'
    BY LoopRests DEF ApplyImport, front, IInv, MembersOK
  <1>3. x \in ImportState /\ SameImport(i, x) /\ x.live = i.live
    BY DEF IInv, ImportsOK, ImportState, SameImport
  <1>4. imports' = (imports \ {i}) \cup S /\ S \subseteq {x}
    BY DEF ApplyImport
  <1>. HIDE DEF x, S
  <1>5. ImportsOK' /\ AwaitsOK' /\ PassesOK' /\ FrontOK'
    BY <1>3, <1>4, ImportMoves DEF ApplyImport, front
  <1>6. LiveOK' /\ SectionsOK'
    BY <1>1, <1>3, <1>4, OwesNothing DEF ApplyImport
  <1>. QED BY <1>1, <1>2, <1>5, <1>6 DEF IInv

(* A commit outdates every other import of its member and owes it the two  *)
(* sections that are written after it.                                     *)
LEMMA ImportCommits ==
    ASSUME IInv, NEW i \in imports, ApplyImport(i), ~FenceRefuses(i)
    PROVE  IInv'
  <1>. DEFINE x == [i EXCEPT !.st = "core", !.live = TRUE]
              D(j) == IF j.to = i.to THEN [j EXCEPT !.live = FALSE] ELSE j
  <1>1. CountsOK' /\ MoreFaults
    BY CountsRest DEF ApplyImport
  <1>2. LoopOK'
    BY LoopRests DEF ApplyImport, front
  <1>3. i \in ImportState /\ imports \subseteq ImportState
    BY DEF IInv, ImportsOK
  <1>4. x \in ImportState /\ SameImport(i, x) /\ x.live /\ x.st = "core"
    <2>1. ASSUME NEW b \in BOOLEAN, b
          PROVE  [i EXCEPT !.st = "core", !.live = b] \in ImportState
      BY <1>3 DEF ImportState
    <2>2. x \in ImportState
      BY <2>1
    <2>3. SameImport(i, x) /\ x.live /\ x.st = "core"
      BY <1>3 DEF ImportState, SameImport
    <2>. QED BY <2>2, <2>3
  <1>5. ASSUME NEW j \in imports
        PROVE  /\ D(j) \in ImportState /\ SameImport(j, D(j)) /\ D(j).st = j.st
               /\ j.to = i.to => ~D(j).live
               /\ j.to # i.to => D(j) = j
    <2>1. ASSUME NEW b \in BOOLEAN PROVE [j EXCEPT !.live = b] \in ImportState
      BY <1>3 DEF ImportState
    <2>2. D(j) \in ImportState
      BY <1>3, <2>1
    <2>3. SameImport(j, D(j)) /\ D(j).st = j.st /\ (j.to = i.to => ~D(j).live)
      BY <1>3 DEF ImportState, SameImport
    <2>. QED BY <2>2, <2>3
  <1>6. imports' = {D(j) : j \in imports \ {i}} \cup {x}
    BY DEF ApplyImport
  <1>. HIDE DEF x, D
  <1>7. ImportsOK'
    BY <1>3, <1>4, <1>5, <1>6, FrontRests DEF IInv, ImportsOK, SameImport, ApplyImport, front
  <1>8. AwaitsOK'
    <2>1. pass' = pass
      BY DEF ApplyImport
    <2>2. \A j \in imports' : Awaits(j)'
      BY <1>4, <1>5, <1>6, <2>1 DEF IInv, AwaitsOK, Awaits, SameImport
    <2>3. \A j \in imports' : \E k \in imports : j.from = k.from /\ j = IF k = i THEN x ELSE D(k)
      BY <1>4, <1>5, <1>6 DEF SameImport
    <2>4. \A j, k \in imports' : j.from \in Pass /\ j.from = k.from => j = k
      BY <2>3 DEF IInv, AwaitsOK
    <2>. QED BY <2>2, <2>4 DEF AwaitsOK
  <1>9. PassesOK' /\ FrontOK'
    BY FrontRests DEF IInv, PassesOK, PassOK, ApplyImport, front
  <1>10. MembersOK' /\ config'[i.to]["core"] = i.cfg["core"]
         /\ taken'[i.to].cfg = i.cfg
         /\ \A m \in Member : m # i.to => config'[m] = config[m] /\ taken'[m] = taken[m]
    <2>1. i.to \in Member /\ i.gen \in Gens /\ i.src \in Member /\ i.cfg \in Config
      BY <1>3 DEF ImportState
    <2>2. "core" \in Section /\ i.cfg["core"] \in 0..MaxEdit
      BY <2>1 DEF Section, Config
    <2>3. config' = [config EXCEPT ![i.to] = [config[i.to] EXCEPT !["core"] = i.cfg["core"]]]
      BY DEF ApplyImport
    <2>4. [config[i.to] EXCEPT !["core"] = i.cfg["core"]] \in Config
          /\ [config[i.to] EXCEPT !["core"] = i.cfg["core"]]["core"] = i.cfg["core"]
      BY <2>1, <2>2 DEF IInv, MembersOK, Config
    <2>5. [src |-> i.src, cfg |-> i.cfg] \in TakenState
      BY <2>1 DEF TakenState, Primaries
    <2>6. taken' = [taken EXCEPT ![i.to] = [src |-> i.src, cfg |-> i.cfg]]
          /\ fence' = [fence EXCEPT ![i.to] = i.gen]
      BY DEF ApplyImport
    <2>7. MembersOK'
      BY <2>1, <2>3, <2>4, <2>5, <2>6 DEF IInv, MembersOK
    <2>. QED BY <2>1, <2>3, <2>4, <2>6, <2>7 DEF IInv, MembersOK
  <1>11. LiveOK'
    BY <1>3, <1>4, <1>5, <1>6, <1>10 DEF IInv, LiveOK, SameImport, ImportState
  <1>12. SectionsOK'
    <2>. SUFFICES ASSUME faults' = 0, NEW m \in Member, NEW s \in Section
                  PROVE  SectionOK(m, s)'
      BY DEF SectionsOK
    <2>1. CASE m = i.to
      <3>1. CASE s = "core"
        BY <1>10, <2>1, <3>1 DEF SectionOK
      <3>2. CASE s # "core"
        <4>1. x \in imports' /\ x.to = m /\ x.live /\ ToWrite(x, s)
          BY <1>4, <1>6, <2>1, <3>2 DEF SameImport, ToWrite
        <4>. QED BY <4>1 DEF SectionOK, ToWrite
      <3>. QED BY <3>1, <3>2
    <2>2. CASE m # i.to
      <3>1. SectionOK(m, s) /\ config'[m] = config[m] /\ taken'[m] = taken[m]
        BY <1>1, <1>10, <2>2 DEF IInv, SectionsOK, MoreFaults
      <3>2. \A j \in imports : j.to = m => j \in imports'
        BY <1>5, <1>6, <2>2
      <3>. QED BY <3>1, <3>2 DEF SectionOK, ToWrite
    <2>. QED BY <2>1, <2>2
  <1>. QED BY <1>1, <1>2, <1>7, <1>8, <1>9, <1>10, <1>11, <1>12 DEF IInv

(* What a section leaves of its import. *)
LEMMA SectionMoves ==
    ASSUME NEW i \in ImportState, NEW out \in {"ok", "incomplete", "stale"}
    PROVE  \E x \in ImportState : /\ SameImport(i, x) /\ x.live = i.live
                                  /\ AfterSection(i, out) \subseteq {x}
                                  /\ i.st = "core" => x.st = "models" /\ AfterSection(i, out) = {x}
  <1>1. CASE i.st = "core"
    <2>. DEFINE x == [i EXCEPT !.st = "models", !.out = out]
    <2>1. x \in ImportState /\ SameImport(i, x) /\ x.live = i.live /\ x.st = "models"
      BY DEF ImportState, SameImport
    <2>2. AfterSection(i, out) = {x}
      BY <1>1 DEF AfterSection
    <2>. HIDE DEF x
    <2>. QED BY <2>1, <2>2
  <1>2. CASE i.st # "core"
    <2>. DEFINE x == [i EXCEPT !.st = "answered", !.out = out]
    <2>1. x \in ImportState /\ SameImport(i, x) /\ x.live = i.live
      BY DEF ImportState, SameImport
    <2>2. AfterSection(i, out) \subseteq {x}
      BY <1>2 DEF AfterSection
    <2>. HIDE DEF x
    <2>. QED BY <1>2, <2>1, <2>2
  <1>. QED BY <1>1, <1>2

LEMMA PostImportSectionKeeps ==
    ASSUME IInv, NEW i \in imports, PostImportSection(i)
    PROVE  IInv'
  <1>. DEFINE s == IF i.st = "core" THEN "models" ELSE "groups"
  <1>1. CountsOK' /\ MoreFaults
    BY CountsRest DEF PostImportSection
  <1>2. LoopOK'
    BY LoopRests DEF PostImportSection, front
  <1>3. i \in ImportState /\ i.out \in {"ok", "incomplete", "stale"} /\ i.to \in Member /\ i.cfg \in Config
    BY DEF IInv, ImportsOK, ImportState
  <1>4. PICK x \in ImportState : /\ SameImport(i, x) /\ x.live = i.live
                                 /\ AfterSection(i, i.out) \subseteq {x}
                                 /\ i.st = "core" => x.st = "models" /\ AfterSection(i, i.out) = {x}
    BY <1>3, SectionMoves
  <1>5. imports' = (imports \ {i}) \cup AfterSection(i, i.out)
    BY DEF PostImportSection
  <1>6. ImportsOK' /\ AwaitsOK' /\ PassesOK' /\ FrontOK'
    BY <1>4, <1>5, ImportMoves DEF PostImportSection, front, history
  <1>7. LiveOK'
    BY <1>4, <1>5 DEF IInv, LiveOK, SameImport, PostImportSection, history
  <1>8. s \in Section /\ s # "core" /\ i.st \in {"core", "models"}
        /\ \A t \in Section : ToWrite(i, t) => t = s \/ (i.st = "core" /\ t = "groups")
    BY DEF PostImportSection, Section, ToWrite
  <1>9. config' = IF i.live THEN [config EXCEPT ![i.to] = [config[i.to] EXCEPT ![s] = i.cfg[s]]]
                  ELSE config
    BY DEF PostImportSection, OwnsPostCommit
  <1>. HIDE DEF s
  <1>10. [config[i.to] EXCEPT ![s] = i.cfg[s]] \in Config
    BY <1>3, <1>8 DEF IInv, MembersOK, Config
  <1>11. MembersOK'
    BY <1>9, <1>10 DEF IInv, MembersOK, PostImportSection, history
  <1>12. \A m \in Member, t \in Section :
           config'[m][t] = IF i.live /\ m = i.to /\ t = s THEN i.cfg[s] ELSE config[m][t]
    BY <1>3, <1>8, <1>9 DEF IInv, MembersOK, Config
  <1>13. SectionsOK'
    <2>. SUFFICES ASSUME faults' = 0, NEW m \in Member, NEW t \in Section
                  PROVE  SectionOK(m, t)'
      BY DEF SectionsOK
    <2>1. SectionOK(m, t) /\ taken' = taken
      BY <1>1 DEF IInv, SectionsOK, MoreFaults, PostImportSection, history
    <2>2. CASE i.live /\ m = i.to /\ t = s
      <3>1. taken[m].cfg = None \/ taken[m].cfg = i.cfg
        BY <2>2 DEF IInv, LiveOK
      <3>2. config'[m][t] = i.cfg[t]
        BY <1>12, <2>2
      <3>. QED BY <2>1, <3>1, <3>2 DEF SectionOK
    <2>3. CASE ~(i.live /\ m = i.to /\ t = s)
      <3>1. config'[m][t] = config[m][t]
        BY <1>12, <2>3
      <3>2. ASSUME NEW j \in imports, j.to = m, j.live, ToWrite(j, t)
            PROVE  \E k \in imports' : k.to = m /\ k.live /\ ToWrite(k, t)
        <4>1. CASE j = i
          <5>1. i.st = "core" /\ t = "groups"
            BY <1>8, <2>3, <3>2, <4>1
          <5>2. x \in imports' /\ x.to = m /\ x.live /\ ToWrite(x, t)
            BY <1>4, <1>5, <3>2, <4>1, <5>1 DEF SameImport, ToWrite
          <5>. QED BY <5>2
        <4>2. CASE j # i
          BY <1>5, <3>2, <4>2
        <4>. QED BY <4>1, <4>2
      <3>. QED BY <2>1, <3>1, <3>2 DEF SectionOK, ToWrite
    <2>. QED BY <2>2, <2>3
  <1>. QED BY <1>1, <1>2, <1>6, <1>7, <1>11, <1>13 DEF IInv

LEMMA PostImportFailsKeeps ==
    ASSUME IInv, NEW i \in imports, PostImportFails(i)
    PROVE  IInv'
  <1>1. CountsOK' /\ MoreFaults /\ faults' # 0
    BY FaultCounts DEF PostImportFails
  <1>2. LoopOK' /\ MembersOK'
    BY LoopRests DEF PostImportFails, front, history, IInv, MembersOK
  <1>3. i \in ImportState
    BY DEF IInv, ImportsOK
  <1>4. PICK x \in ImportState : SameImport(i, x) /\ x.live = i.live
                                 /\ AfterSection(i, "incomplete") \subseteq {x}
    BY <1>3, SectionMoves
  <1>5. imports' = (imports \ {i}) \cup AfterSection(i, "incomplete")
    BY DEF PostImportFails
  <1>6. ImportsOK' /\ AwaitsOK' /\ PassesOK' /\ FrontOK'
    BY <1>4, <1>5, ImportMoves DEF PostImportFails, front, history
  <1>7. LiveOK' /\ SectionsOK'
    BY <1>1, <1>4, <1>5 DEF IInv, LiveOK, SectionsOK, SameImport, PostImportFails, history
  <1>. QED BY <1>1, <1>2, <1>6, <1>7 DEF IInv

LEMMA MemberCrashKeeps ==
    ASSUME IInv, NEW m \in Member, MemberCrash(m)
    PROVE  IInv'
  <1>1. CountsOK' /\ faults' # 0
    BY FaultCounts DEF MemberCrash
  <1>2. LoopOK' /\ MembersOK'
    BY LoopRests DEF MemberCrash, front, history, IInv, MembersOK
  <1>3. imports' = {i \in imports : i.to # m}
    BY DEF MemberCrash
  <1>4. FrontOK' /\ (\A g, s : Names(g, s)' <=> Names(g, s))
    BY FrontRests DEF MemberCrash, front, history
  <1>5. ASSUME NEW w \in Pass
        PROVE  PassOK(w, pass'[w]) /\ (pass[w].at # m => pass'[w] = pass[w])
    <2>1. pass'[w] = IF pass[w].pc = "await" /\ pass[w].at = m THEN Done(w) ELSE pass[w]
      BY DEF MemberCrash
    <2>2. PassOK(w, pass[w])
      BY PassFacts
    <2>3. pass[w].pc = "await" => PassOK(w, Done(w))
      BY <2>2, DonePass DEF Done
    <2>. QED BY <2>1, <2>2, <2>3
  <1>6. PassesOK'
    <2>1. pass' = [w \in Pass |-> pass'[w]]
      BY DEF MemberCrash
    <2>2. \A w \in Pass : PassOK(w, pass[w])'
      BY <1>4, <1>5 DEF PassOK
    <2>. QED BY <2>1, <2>2 DEF PassesOK, PassOK
  <1>7. ImportsOK' /\ AwaitsOK'
    BY <1>3, <1>4, <1>5 DEF IInv, ImportsOK, AwaitsOK, Awaits
  <1>8. LiveOK' /\ SectionsOK'
    BY <1>1, <1>3 DEF IInv, LiveOK, SectionsOK, MemberCrash, history
  <1>. QED BY <1>1, <1>2, <1>4, <1>6, <1>7, <1>8 DEF IInv

LEMMA FrontDeskCrashKeeps ==
    ASSUME IInv, FrontDeskCrash
    PROVE  IInv'
  <1>1. CountsOK' /\ faults' # 0
    BY FaultCounts DEF FrontDeskCrash
  <1>2. LoopOK'
    <2>1. ASSUME NEW b \in BOOLEAN PROVE [st |-> "off", pending |-> b] \in KickState
      BY DEF KickState
    <2>2. kick' \in KickState
      BY <2>1 DEF FrontDeskCrash
    <2>3. attempt' \in [Member -> {"zero", "recent", "due"}]
      BY DEF FrontDeskCrash
    <2>4. diverged' \in [Member -> BOOLEAN]
      BY DEF FrontDeskCrash
    <2>. QED BY <2>2, <2>3, <2>4 DEF FrontDeskCrash, LoopOK
  <1>3. MembersOK'
    BY DEF FrontDeskCrash, history, IInv, MembersOK
  <1>4. FrontOK' /\ (\A g, s : Names(g, s)' <=> Names(g, s))
    BY FrontRests DEF FrontDeskCrash, history
  <1>5. PassesOK'
    <2>1. pass' = [w \in Pass |-> Idle] /\ \A w \in Pass : PassOK(w, Idle)
      BY IdlePass DEF FrontDeskCrash
    <2>2. \A w \in Pass : PassOK(w, pass[w])'
      BY <1>4, <2>1 DEF PassOK
    <2>. QED BY <2>1, <2>2 DEF PassesOK, PassOK
  <1>6. ASSUME NEW i \in imports'
        PROVE  \E j \in imports : /\ i \in ImportState /\ i.from \notin Pass
                                  /\ i.to = j.to /\ i.gen = j.gen /\ i.src = j.src
                                  /\ i.cfg = j.cfg /\ i.live = j.live
    <2>1. PICK j \in imports : i = [j EXCEPT !.from = "gone"]
      BY <1>6 DEF FrontDeskCrash
    <2>. QED BY <2>1, GoneImport DEF IInv, ImportsOK
  <1>7. ImportsOK'
    BY <1>4, <1>6 DEF IInv, ImportsOK
  <1>8. AwaitsOK'
    BY <1>6 DEF AwaitsOK, Awaits
  <1>9. LiveOK' /\ SectionsOK'
    BY <1>1, <1>6 DEF IInv, LiveOK, SectionsOK, FrontDeskCrash, history
  <1>. QED BY <1>1, <1>2, <1>3, <1>4, <1>5, <1>7, <1>8, <1>9 DEF IInv

-----------------------------------------------------------------------------
(***************************************************************************)
(* The theorems.                                                           *)
(***************************************************************************)
LEMMA InitHolds == Init => IInv
  <1>. SUFFICES ASSUME Init PROVE IInv
    OBVIOUS
  <1>1. FrontOK
    <2>1. ASSUME NEW b \in BOOLEAN, NEW g \in Gens
          PROVE  [enabled |-> b, primary |-> None, gen |-> g] \in AutoState
      BY DEF AutoState, Primaries
    <2>2. 0 \in Gens /\ FALSE \in BOOLEAN
      BY BoundAssumption DEF Gens
    <2>3. autoSync \in AutoState
      BY <2>1, <2>2 DEF Init
    <2>4. autoSync.gen = 0 /\ autoSync.primary = None /\ ~autoSync.enabled
      BY DEF Init
    <2>5. 0..0 = {0}
      OBVIOUS
    <2>6. designated \in [0..autoSync.gen -> Primaries]
      BY <2>4, <2>5 DEF Init, Primaries
    <2>. QED BY <2>3, <2>4, <2>6 DEF Init, FrontOK
  <1>2. LoopOK
    <2>1. ASSUME NEW b \in BOOLEAN PROVE [st |-> "off", pending |-> b] \in KickState
      BY DEF KickState
    <2>2. kick \in KickState
      BY <2>1 DEF Init
    <2>. QED BY <2>2 DEF Init, LoopOK
  <1>3. CountsOK
    BY BoundAssumption DEF Init, CountsOK
  <1>4. MembersOK
    <2>1. [s \in Section |-> 0] \in Config
      BY BoundAssumption DEF Config
    <2>2. [src |-> None, cfg |-> None] \in TakenState
      BY DEF TakenState, Primaries
    <2>. QED BY <2>1, <2>2 DEF Init, MembersOK
  <1>5. PassesOK
    BY IdlePass DEF Init, PassesOK, PassOK
  <1>6. ImportsOK /\ AwaitsOK /\ LiveOK
    BY DEF Init, ImportsOK, AwaitsOK, LiveOK
  <1>7. SectionsOK
    <2>1. \A m \in Member : taken[m].cfg = None
      BY DEF Init
    <2>. QED BY <2>1 DEF SectionsOK, SectionOK
  <1>. QED BY <1>1, <1>2, <1>3, <1>4, <1>5, <1>6, <1>7 DEF IInv

LEMMA StepKeeps ==
    ASSUME IInv, [Next]_vars
    PROVE  IInv'
  <1>1. CASE Operator
    BY <1>1, EditConfigKeeps, EnrolMemberKeeps, DeleteMemberKeeps, PutAutoSyncKeeps DEF Operator
  <1>2. ASSUME NEW w \in Pass, PassStep(w)
        PROVE  IInv'
    <2>1. CASE AutoStep
      BY <2>1, PrimaryConfigHashKeeps, MeasureMemberKeeps DEF AutoStep
    <2>2. CASE WizardExport \/ \E m \in Member : WizardNext(m)
      BY <2>2, WizardExportKeeps, WizardNextKeeps
    <2>3. CASE PassEnds(w) \/ PushImport(w) \/ SkipMember(w)
      BY <2>3, PassEndsKeeps, PushImportKeeps, SkipMemberKeeps
    <2>4. CASE \E i \in imports : ImportAnswered(w, i) \/ ImportAbandoned(w, i)
      BY <2>4, ImportAnsweredKeeps, ImportAbandonedKeeps
    <2>. QED BY <1>2, <2>1, <2>2, <2>3, <2>4 DEF PassStep
  <1>3. CASE MemberStep
    BY <1>3, ImportRefused, ImportCommits, PostImportSectionKeeps DEF MemberStep
  <1>4. CASE PassFault
    BY <1>4, PrimaryUnreadKeeps, MeasureUnreadKeeps, ExportUnreadKeeps, MemberCrashKeeps, ImportLostKeeps,
       PostImportFailsKeeps, FrontDeskCrashKeeps DEF PassFault
  <1>5. CASE SignalRearm \/ AutoSyncOnce \/ ForceAutoSyncNow \/ RunConfigSync
    BY <1>5, SignalRearmKeeps, AutoSyncOnceKeeps, ForceAutoSyncNowKeeps, RunConfigSyncKeeps
  <1>6. CASE \/ \E w \in Pass : WatchRearm(w)
             \/ \E i \in imports : ImportDies(i)
             \/ \E m \in Member : RetryDue(m)
    BY <1>6, WatchRearmKeeps, ImportDiesKeeps, RetryDueKeeps
  <1>7. CASE UNCHANGED vars
    <2>1. LoopOK' /\ CountsOK' /\ MoreFaults
      BY <1>7, LoopRests, CountsRest DEF vars, front
    <2>. QED BY <1>7, <2>1, FleetRests DEF vars, front, history
  <1>. QED BY <1>1, <1>2, <1>3, <1>4, <1>5, <1>6, <1>7 DEF Next

(***************************************************************************)
(* The invariant holds throughout, for any hosts and any bounds.           *)
(***************************************************************************)
THEOREM Inductive == Spec => []IInv
  BY InitHolds, StepKeeps, PTL DEF Spec

(* Front Desk, its two passes, the imports under way and the members keep  *)
(* their types.                                                            *)
THEOREM TypeCorrect == Spec => []TypeOK
  <1>1. IInv => TypeOK
    BY DEF IInv, FrontOK, LoopOK, CountsOK, MembersOK, PassesOK, ImportsOK,
           AutoState, KickState, TakenState, TypeOK
  <1>. QED BY <1>1, Inductive, PTL

(* The sections an import writes after its commit never overwrite those of *)
(* a later import, whichever passes, timeouts and abandoned requests put   *)
(* them at the member together (lockFenceForPostCommit).                   *)
THEOREM LaterImportWins == Spec => []LastImportStands
  <1>1. ASSUME IInv PROVE LastImportStands
    <2>. SUFFICES ASSUME NEW m \in Member, faults = 0, taken[m].cfg # None,
                         \A i \in imports : i.to = m => i.st \in {"sent", "answered"}
                  PROVE  config[m] = taken[m].cfg
      BY DEF LastImportStands
    <2>1. config[m] \in Config /\ taken[m].cfg \in Config
      BY <1>1 DEF IInv, MembersOK, TakenState
    <2>2. \A s \in Section : config[m][s] = taken[m].cfg[s]
      BY <1>1 DEF IInv, SectionsOK, SectionOK, ToWrite
    <2>. QED BY <2>1, <2>2 DEF Config
  <1>. QED BY <1>1, Inductive, PTL

(* A step that touches neither the generation, nor a fence, nor what a     *)
(* member took, is a stutter of FleetSource.                               *)
LEMMA QuietStep ==
    ASSUME UNCHANGED <<autoSync, designated, fence, taken>>
    PROVE  UNCHANGED Source!vars
  BY DEF Source!vars

LEMMA IssueDesignates ==
    ASSUME NEW e, NEW p \in Primaries, Issue(e, p), UNCHANGED <<fence, taken>>
    PROVE  Source!Next
  <1>1. Source!Designate(p)
    BY DEF Source!Designate, Issue
  <1>. QED BY <1>1 DEF Source!Next, Primaries

LEMMA EditStutters ==
    ASSUME IInv, NEW m \in Member, EditConfig(m)
    PROVE  UNCHANGED Source!vars
  <1>1. \A n \in Member : taken'[n].src = taken[n].src
    BY DEF EditConfig, IInv, MembersOK, TakenState
  <1>. QED BY <1>1 DEF Source!vars, EditConfig, front

LEMMA DeleteStutters ==
    ASSUME IInv, NEW m \in Member, DeleteMember(m)
    PROVE  UNCHANGED Source!vars
  <1>1. autoSync'.gen = autoSync.gen
    BY DEF DeleteMember, IInv, FrontOK, AutoState
  <1>. QED BY <1>1 DEF Source!vars, DeleteMember, history

LEMMA CommitApplies ==
    ASSUME IInv, NEW i \in imports, ApplyImport(i)
    PROVE  Source!Next \/ UNCHANGED Source!vars
  <1>1. CASE FenceRefuses(i)
    BY <1>1, QuietStep DEF ApplyImport, front
  <1>2. CASE ~FenceRefuses(i)
    <2>1. i \in ImportState /\ i.to \in Member /\ i.gen \in Gens /\ Names(i.gen, i.src)
      BY DEF IInv, ImportsOK, ImportState
    <2>2. i.gen \in 0..autoSync.gen /\ designated[i.gen] = i.src /\ i.src # None
      BY <2>1, BoundAssumption, FleetAssumption DEF Names, Gens, IInv, FrontOK, AutoState
    <2>3. fence[i.to] <= i.gen
      BY <1>2, <2>1, BoundAssumption DEF FenceRefuses, IInv, MembersOK, Gens
    <2>4. \A m \in Member : /\ fence'[m] = IF m = i.to THEN i.gen ELSE fence[m]
                            /\ taken'[m].src = IF m = i.to THEN i.src ELSE taken[m].src
      BY <1>2, <2>1 DEF ApplyImport, IInv, MembersOK
    <2>5. Source!Apply(i.to, i.gen)
      BY <2>1, <2>2, <2>3, <2>4 DEF Source!Apply, ApplyImport, front
    <2>. QED BY <2>1, <2>2, <2>5 DEF Source!Next
  <1>. QED BY <1>1, <1>2

LEMMA StepRefines ==
    ASSUME IInv, [Next]_vars
    PROVE  Source!Next \/ UNCHANGED Source!vars
  <1>1. CASE Operator
    <2>1. ASSUME NEW e \in BOOLEAN, NEW p \in Primaries, PutAutoSync(e, p)
          PROVE  Source!Next
      BY <2>1, IssueDesignates DEF PutAutoSync
    <2>2. ASSUME NEW m \in Member, EnrolMember(m)
          PROVE  Source!Next
      BY <2>2, IssueDesignates DEF EnrolMember, IInv, FrontOK, AutoState
    <2>. QED BY <1>1, <2>1, <2>2, EditStutters, DeleteStutters DEF Operator
  <1>2. ASSUME NEW w \in Pass, PassStep(w)
        PROVE  UNCHANGED <<autoSync, designated, fence, taken>>
    <2>1. CASE AutoStep
      BY <2>1 DEF AutoStep, PrimaryConfigHash, MeasureMember, front, history
    <2>2. CASE WizardExport \/ \E m \in Member : WizardNext(m)
      BY <2>2 DEF WizardExport, WizardNext, front, history
    <2>3. CASE PassEnds(w) \/ PushImport(w) \/ SkipMember(w)
      BY <2>3 DEF PassEnds, PushImport, SkipMember, front, history
    <2>4. CASE \E i \in imports : ImportAnswered(w, i) \/ ImportAbandoned(w, i)
      BY <2>4 DEF ImportAnswered, ImportAbandoned, front, history
    <2>. QED BY <1>2, <2>1, <2>2, <2>3, <2>4 DEF PassStep
  <1>3. ASSUME NEW i \in imports, PostImportSection(i)
        PROVE  UNCHANGED <<autoSync, designated, fence, taken>>
    BY <1>3 DEF PostImportSection, front, history
  <1>4. CASE PassFault
    <2>1. UNCHANGED <<autoSync, designated, fence, taken>>
      BY <1>4 DEF PassFault, PrimaryUnread, MeasureUnread, ExportUnread, MemberCrash, ImportLost,
                  PostImportFails, FrontDeskCrash, front, history
    <2>. QED BY <2>1, QuietStep
  <1>5. CASE SignalRearm \/ AutoSyncOnce \/ ForceAutoSyncNow \/ RunConfigSync
    <2>1. UNCHANGED <<autoSync, designated, fence, taken>>
      BY <1>5 DEF SignalRearm, AutoSyncOnce, ForceAutoSyncNow, RunConfigSync, front, history
    <2>. QED BY <2>1, QuietStep
  <1>6. CASE \/ \E w \in Pass : WatchRearm(w)
             \/ \E i \in imports : ImportDies(i)
             \/ \E m \in Member : RetryDue(m)
    <2>1. UNCHANGED <<autoSync, designated, fence, taken>>
      BY <1>6 DEF WatchRearm, ImportDies, RetryDue, front, history
    <2>. QED BY <2>1, QuietStep
  <1>7. CASE UNCHANGED vars
    BY <1>7, QuietStep DEF vars, front, history
  <1>. QED BY <1>1, <1>2, <1>3, <1>4, <1>5, <1>6, <1>7, CommitApplies, QuietStep DEF Next, MemberStep

LEMMA InitRefines == Init => Source!Init
  BY DEF Init, Source!Init

(***************************************************************************)
(* Fleet config sync implements FleetSource: whatever is lost, delayed,    *)
(* cancelled or restarted, a generation names one source for good, and a   *)
(* member never goes back to an older generation's config nor takes one    *)
(* that was read from another source than its generation names.            *)
(***************************************************************************)
THEOREM SyncRefinesSource == Spec => SourceSpec
  <1>1. IInv /\ [Next]_vars => [Source!Next]_(Source!vars)
    BY StepRefines
  <1>. QED BY <1>1, Inductive, InitRefines, PTL DEF Spec, SourceSpec, Source!Spec
=============================================================================
