----------------------------- MODULE FleetSync -----------------------------
(***************************************************************************)
(* Fleet config sync: Front Desk (internal/frontdesk) reads the designated *)
(* primary's config and pushes it to the other members, whose import       *)
(* (internal/api/configsync_*.go) is fenced by the source generation.      *)
(*                                                                         *)
(* Two passes can be under way at once: the automatic one, a tick or a     *)
(* kick, whichever holds passMu, and the operator's wizard run, which      *)
(* takes no lock.  A pass reads the settings row once and then talks to    *)
(* one member at a time; meanwhile the operator may repoint the primary,   *)
(* enrol or release members and edit the primary's config.  A push whose   *)
(* caller timed out or was cancelled is still at the member: it may yet    *)
(* commit, or die with its request.                                        *)
(*                                                                         *)
(* A config is a number per section, so that two configs are equal when    *)
(* their hashes are.  Left out: holds for build skew, members without a    *)
(* token, and the events and stamps a push leaves; a pass passing a member *)
(* over for one of those is SkipMember.                                    *)
(***************************************************************************)
EXTENDS Integers, FiniteSets

CONSTANTS
    Member,     \* hosts that can be enrolled
    Released,   \* hosts the operator may remove from the fleet
    None,
    MaxGen,     \* generations issued stop here
    MaxEdit,    \* edits of a config stop here
    MaxFault,   \* calls lost, reads failed, crashes: at most so many
    MaxManual,  \* wizard runs started
    MaxUpset,   \* all of these together
    MaxReq      \* imports under way at members, abandoned ones included

ASSUME FleetAssumption == None \notin Member /\ IsFiniteSet(Member)
ASSUME BoundAssumption ==
    /\ Released \subseteq Member
    /\ MaxGen \in Nat /\ MaxEdit \in Nat /\ MaxFault \in Nat /\ MaxManual \in Nat
    /\ MaxUpset \in Nat /\ MaxReq \in Nat

Pass    == {"auto", "wizard"}
Section == {"core", "models", "groups"}
Config  == [Section -> 0..MaxEdit]

VARIABLES
    roster,     \* the members table
    autoSync,   \* the settings row: enabled, primary, gen
    signal,     \* a handler has written but not yet called signalRearm: "put",
                \* which goes on to kick, or "rearm"
    config,     \* per member, the config its tables hold
    fence,      \* per member, _fleet_last_source_gen, -1 when unset
    imports,    \* the imports under way at members
    pass,       \* per pass, where it is
    kick,       \* kickRunning, kickPending: "off", "wait" (for passMu), "run"
    prev,       \* the primary hash the tick loop carries
    attempt,    \* per member, lastAttempt: "zero", "recent", "due"
    diverged,   \* per member, incompleteState.diverged
    edits, faults, manual,  \* how often each has happened
    designated, \* history: per generation, the primary it was issued with
    taken       \* history: per member, whose export it committed last, and
                \* that config, None once its own operator edited it since

front    == <<roster, autoSync, signal>>
loop     == <<kick, prev, attempt, diverged>>
history  == <<designated, taken>>
counts   == <<edits, faults, manual>>
vars     == <<front, config, fence, imports, pass, loop, counts, history>>

Primaries == Member \cup {None}
Gens      == 0..MaxGen

(* at is the member a pass is working on; cancel is passCtx: "woken" when  *)
(* the rearm channel it captured is closed and its watcher has yet to run. *)
PassState ==
    [ pc : {"idle", "hash", "export", "next", "push", "await"},
      kind : {"tick", "kick", "wizard"}, gen : Gens, src : Primaries,
      hash : Config \cup {None}, export : Config \cup {None},
      todo : SUBSET Member, at : Primaries,
      cancel : {"no", "woken", "yes"} ]

(* live: no import has committed at that member since this one did, which  *)
(* is what comparing _fleet_import_seq with the import's own number says.  *)
ImportState ==
    [ to : Member, from : Pass \cup {"gone"}, gen : Gens, src : Member, cfg : Config,
      st : {"sent", "core", "models", "answered"},
      out : {"ok", "incomplete", "stale"}, live : BOOLEAN ]

TypeOK ==
    /\ roster \subseteq Member
    /\ autoSync \in [enabled : BOOLEAN, primary : Primaries, gen : Gens]
    /\ signal \in {"none", "put", "rearm"}
    /\ config \in [Member -> Config]
    /\ fence \in [Member -> Gens \cup {-1}]
    /\ imports \subseteq ImportState
    /\ pass \in [Pass -> PassState]
    /\ kick \in [st : {"off", "wait", "run"}, pending : BOOLEAN]
    /\ prev \in Config \cup {None}
    /\ attempt \in [Member -> {"zero", "recent", "due"}]
    /\ diverged \in [Member -> BOOLEAN]
    /\ edits \in 0..MaxEdit /\ faults \in 0..MaxFault /\ manual \in 0..MaxManual
    /\ designated \in [0..autoSync.gen -> Primaries]
    /\ taken \in [Member -> [src : Primaries, cfg : Config \cup {None}]]

Idle ==
    [ pc |-> "idle", kind |-> "tick", gen |-> 0, src |-> None, hash |-> None,
      export |-> None, todo |-> {}, at |-> None, cancel |-> "no" ]

(* Every host is enrolled, all alike, and none designated; generations are *)
(* counted from the last enrolment.                                        *)
Init ==
    /\ roster = Member
    /\ autoSync = [enabled |-> FALSE, primary |-> None, gen |-> 0]
    /\ signal = "none"
    /\ config = [m \in Member |-> [s \in Section |-> 0]]
    /\ fence = [m \in Member |-> -1]
    /\ imports = {}
    /\ pass = [w \in Pass |-> Idle]
    /\ kick = [st |-> "off", pending |-> FALSE]
    /\ prev = None
    /\ attempt = [m \in Member |-> "zero"]
    /\ diverged = [m \in Member |-> FALSE]
    /\ edits = 0 /\ faults = 0 /\ manual = 0
    /\ designated = [g \in {0} |-> None]
    /\ taken = [m \in Member |-> [src |-> None, cfg |-> None]]

(* What disturbs the fleet is bounded, each kind and all of them together. *)
Upset == autoSync.gen + edits + faults + manual < MaxUpset

Fault == Upset /\ faults < MaxFault /\ faults' = faults + 1

-----------------------------------------------------------------------------
(* The operator.                                                           *)

(* An edit on a host's own dashboard.  A managed member refuses one, but   *)
(* from a cached role: one that has just become a member still accepts it. *)
EditConfig(m) ==
    /\ Upset /\ edits < MaxEdit
    /\ edits' = edits + 1
    /\ config' = [config EXCEPT ![m] = [s \in Section |-> edits + 1]]
    /\ taken' = [taken EXCEPT ![m].cfg = None]
    /\ UNCHANGED <<front, fence, imports, pass, loop, faults, manual, designated>>

(* A generation is issued with the designation that goes with it. *)
Issue(enabled, p) ==
    /\ Upset /\ autoSync.gen < MaxGen
    /\ autoSync' = [enabled |-> enabled, primary |-> p, gen |-> autoSync.gen + 1]
    /\ designated' = [g \in 0..(autoSync.gen + 1) |->
                        IF g = autoSync.gen + 1 THEN p ELSE designated[g]]

(* putAutoSync up to SetAutoSyncGuarded's commit: clearing the primary     *)
(* turns auto-sync off, a true repoint keeps the stored switch.  The admin *)
(* token is taken as confirmed.                                            *)
PutAutoSync(enabled, p) ==
    /\ signal = "none" /\ signal' = "put"
    /\ p \in roster \/ (p = None /\ ~enabled)
    /\ p \in {None, autoSync.primary} \/ Cardinality(roster) >= 2
    /\ Issue(p # None /\ (IF autoSync.primary \in {None, p} THEN enabled ELSE autoSync.enabled), p)
    /\ UNCHANGED <<roster, config, fence, imports, pass, loop, counts, taken>>

(* createMember, or patchMember storing a token: rearmAutoSync. *)
EnrolMember(m) ==
    /\ signal = "none" /\ signal' = "rearm"
    /\ roster' = roster \cup {m}
    /\ Issue(autoSync.enabled, autoSync.primary)
    /\ UNCHANGED <<config, fence, imports, pass, loop, counts, taken>>

(* effectivePrimaryID refuses the designated primary.  With auto-sync off  *)
(* the last wizard run's marker outranks the designation, so a fleet of    *)
(* two can lose either host; which host the marker names is left open.     *)
Removable(m) ==
    m # autoSync.primary \/ (~autoSync.enabled /\ Cardinality(roster) <= 2)

(* Mutant: a disband drops the whole settings row. *)
DisbandResetsGen(m) ==
    /\ signal = "none"
    /\ m \in roster \cap Released /\ Removable(m)
    /\ LET disband == Cardinality(roster) <= 2
           gone    == IF disband THEN roster ELSE {m}
       IN  /\ roster' = roster \ gone
           /\ signal' = IF disband THEN "rearm" ELSE "none"
           /\ autoSync' = IF disband
                          THEN [autoSync EXCEPT !.enabled = FALSE, !.primary = None, !.gen = 0]
                          ELSE autoSync
           /\ attempt' = [n \in Member |-> IF n \in gone THEN "zero" ELSE attempt[n]]
           /\ diverged' = [n \in Member |-> diverged[n] /\ n \notin gone]
    /\ UNCHANGED <<config, fence, imports, pass, kick, prev, counts, history>>

(* deleteMember of a host that is not the effective primary.  A fleet of   *)
(* two disbands: auto-sync off, no primary, every row gone.  The           *)
(* generation stays, members fence on it.                                  *)
DeleteMember(m) ==
    /\ signal = "none"
    /\ m \in roster \cap Released /\ Removable(m)
    /\ LET disband == Cardinality(roster) <= 2
           gone    == IF disband THEN roster ELSE {m}
       IN  /\ roster' = roster \ gone
           /\ signal' = IF disband THEN "rearm" ELSE "none"
           /\ autoSync' = IF disband
                          THEN [autoSync EXCEPT !.enabled = FALSE, !.primary = None]
                          ELSE autoSync
           /\ attempt' = [n \in Member |-> IF n \in gone THEN "zero" ELSE attempt[n]]
           /\ diverged' = [n \in Member |-> diverged[n] /\ n \notin gone]
    /\ UNCHANGED <<config, fence, imports, pass, kick, prev, counts, history>>

(* The pass has captured the rearm channel. *)
Armed(w) == pass[w].pc \in {"next", "push", "await"}

(* signalRearm closes the channel every armed pass captured, and the PUT   *)
(* goes on to kick when auto-sync is left on; a kick that finds one        *)
(* running leaves it a follow-up.                                          *)
SignalRearm ==
    /\ signal # "none" /\ signal' = "none"
    /\ pass' = [w \in Pass |->
                  IF Armed(w) /\ pass[w].cancel = "no"
                  THEN [pass[w] EXCEPT !.cancel = "woken"] ELSE pass[w]]
    /\ kick' = IF signal = "rearm" \/ ~autoSync.enabled THEN kick
               ELSE IF kick.st = "off" THEN [kick EXCEPT !.st = "wait"]
                                       ELSE [kick EXCEPT !.pending = TRUE]
    /\ UNCHANGED <<roster, autoSync, config, fence, imports, prev, attempt, diverged,
                   counts, history>>

-----------------------------------------------------------------------------
(* A pass.  W(w, s) moves pass w to state s.                               *)

W(w, s) == pass' = [pass EXCEPT ![w] = s]

(* kickAutoSync after its pass: one more when a PUT left a follow-up. *)
KickEnds ==
    kick' = [st |-> IF kick.pending THEN "wait" ELSE "off", pending |-> FALSE]

(* A pass is over: its watcher is joined, passMu released, and the tick    *)
(* loop carries carry.                                                     *)
End(w, carry) ==
    /\ W(w, Idle)
    /\ prev' = IF pass[w].kind = "tick" THEN carry ELSE prev
    /\ IF pass[w].kind = "kick" THEN KickEnds ELSE UNCHANGED kick

Stale(w) == autoSync.gen # pass[w].gen

(* What the wizard rereads before each member (moved), and the automatic   *)
(* pass's stale().                                                         *)
Superseded(w) ==
    Stale(w) \/ (w = "wizard" /\ autoSync.primary # pass[w].src)

(* lockPass and GetAutoSync: one row, one scan. *)
Begin(kind) ==
    W("auto", [Idle EXCEPT !.pc = "hash", !.kind = kind,
                           !.gen = autoSync.gen, !.src = autoSync.primary])

(* autoSyncOnce takes passMu. *)
AutoSyncOnce ==
    /\ pass["auto"].pc = "idle"
    /\ IF autoSync.enabled
       THEN Begin("tick") /\ UNCHANGED <<kick, prev>>
       ELSE /\ prev # None /\ prev' = None     \* the verdict of an idle tick
            /\ UNCHANGED <<pass, kick>>
    /\ UNCHANGED <<front, config, fence, imports, attempt, diverged, counts, history>>

(* forceAutoSyncNow takes passMu. *)
ForceAutoSyncNow ==
    /\ kick.st = "wait" /\ pass["auto"].pc = "idle"
    /\ IF autoSync.enabled
       THEN Begin("kick") /\ kick' = [kick EXCEPT !.st = "run"]
       ELSE KickEnds /\ UNCHANGED pass
    /\ UNCHANGED <<front, config, fence, imports, prev, attempt, diverged, counts, history>>

(* rearmChan, startRearmWatch, ListMembers: the watcher's own first read   *)
(* of the generation catches a rearm the channel was captured too late for.*)
Arm(w, s) ==
    W(w, [s EXCEPT !.pc = "next", !.todo = roster \ {pass[w].src},
                   !.cancel = IF Stale(w) THEN "yes" ELSE "no"])

(* primaryConfigHash, the coalescing gate and the first stale().  A tick   *)
(* on which the primary moved only notes it and drops the retry timers, as *)
(* a kick does before it goes on.                                          *)
PrimaryConfigHash ==
    LET p == pass["auto"]
        h == config[p.src]
        moved == p.kind = "tick" /\ h # prev
        reset == moved \/ p.kind = "kick"
    IN  /\ p.pc = "hash"
        /\ attempt' = [m \in Member |-> IF reset THEN "zero" ELSE attempt[m]]
        /\ IF moved \/ Stale("auto")
           THEN End("auto", h)
           ELSE Arm("auto", [p EXCEPT !.hash = h]) /\ UNCHANGED <<kick, prev>>
        /\ UNCHANGED <<front, config, fence, imports, diverged, counts, history>>

(* The primary could not be read: the next tick starts over. *)
PrimaryUnread ==
    /\ pass["auto"].pc = "hash"
    /\ Fault
    /\ End("auto", None)
    /\ UNCHANGED <<front, config, fence, imports, attempt, diverged, edits, manual, history>>

(* runConfigSync: the designation guard and the generation, in one scan. *)
RunConfigSync ==
    /\ Upset /\ manual < MaxManual /\ manual' = manual + 1
    /\ pass["wizard"].pc = "idle"
    /\ autoSync.primary # None
    /\ W("wizard", [Idle EXCEPT !.pc = "export", !.kind = "wizard",
                                !.gen = autoSync.gen, !.src = autoSync.primary])
    /\ UNCHANGED <<front, config, fence, imports, loop, edits, faults, history>>

(* The wizard reads the primary's export before anything else. *)
WizardExport ==
    LET p == pass["wizard"]
    IN  /\ p.pc = "export"
        /\ Arm("wizard", [p EXCEPT !.export = config[p.src]])
        /\ UNCHANGED <<front, config, fence, imports, loop, counts, history>>

(* watchRearm: any wake cancels. *)
WatchRearm(w) ==
    /\ pass[w].cancel = "woken"
    /\ W(w, [pass[w] EXCEPT !.cancel = "yes"])
    /\ UNCHANGED <<front, config, fence, imports, loop, counts, history>>

Cancelled(w) == pass[w].cancel = "yes"

Done(w) == [pass[w] EXCEPT !.pc = "next", !.at = None, !.todo = @ \ {pass[w].at}]

(* Nobody left, a rearm seen at the top of the loop, or every further call *)
(* failing because passCtx is cancelled: the pass ends.                    *)
PassEnds(w) ==
    /\ \/ pass[w].pc = "next" /\ (pass[w].todo = {} \/ Superseded(w))
       \/ pass[w].pc \in {"next", "push"} /\ Cancelled(w)
    /\ End(w, pass[w].hash)
    /\ UNCHANGED <<front, config, fence, imports, attempt, diverged, counts, history>>

(* A member to push to; primaryExport is read for the first of a pass and  *)
(* kept for the others.                                                    *)
Chosen(p, m) ==
    [p EXCEPT !.pc = "push", !.at = m,
              !.export = IF @ = None THEN config[p.src] ELSE @]

(* measureMember: a match clears everything remembered about the member; a *)
(* mismatch flags one that has already had this config.  Within the retry  *)
(* interval it is passed over.                                             *)
MeasureMember(m) ==
    LET p == pass["auto"]
        converged == config[m] = p.hash
    IN  /\ p.pc = "next" /\ m \in p.todo /\ ~Superseded("auto")
        /\ attempt' = [attempt EXCEPT ![m] = IF converged THEN "zero" ELSE @]
        /\ diverged' = [diverged EXCEPT ![m] =
                          ~converged /\ (@ \/ attempt[m] # "zero")]
        /\ W("auto", IF converged \/ attempt[m] = "recent"
                     THEN [p EXCEPT !.todo = @ \ {m}]
                     ELSE Chosen(p, m))
        /\ UNCHANGED <<front, config, fence, imports, kick, prev, counts, history>>

(* The dry run's diff goes by presence: an entity that both sides have     *)
(* counts as one to update, so it may be empty only when the core matches, *)
(* which says nothing about the sections outside the core.                 *)
MayBeEmpty(m, export) == config[m]["core"] = export["core"]

(* One read that failed starts a member's unreadable clock; one of a       *)
(* series may find that it has run out, and flags the member.              *)
RecordUnreadableHash(m) ==
    \E flag \in BOOLEAN : diverged' = [diverged EXCEPT ![m] = @ \/ flag]

(* The member's hash does not read: its dry run alone says whether there   *)
(* is anything to push.                                                    *)
MeasureUnread(m) ==
    LET p == pass["auto"]
        c == Chosen(p, m)
        over(s) == [s EXCEPT !.pc = "next", !.at = None, !.todo = @ \ {m}]
    IN  /\ p.pc = "next" /\ m \in p.todo /\ ~Superseded("auto")
        /\ Fault
        /\ RecordUnreadableHash(m)
        /\ IF attempt[m] = "recent" THEN W("auto", over(p))
           ELSE \/ W("auto", c)
                \/ MayBeEmpty(m, c.export) /\ W("auto", over(c))
        /\ UNCHANGED <<front, config, fence, imports, kick, prev, attempt, edits, manual,
                       history>>

(* The export does not read when the first member needs it, one measured   *)
(* to differ or one whose hash did not read either: the pass is over.      *)
ExportUnread(m) ==
    LET p == pass["auto"]
    IN  /\ p.pc = "next" /\ m \in p.todo /\ ~Superseded("auto")
        /\ p.export = None /\ attempt[m] # "recent"
        /\ Fault
        /\ \/ /\ config[m] # p.hash
              /\ diverged' = [diverged EXCEPT ![m] = @ \/ attempt[m] # "zero"]
           \/ RecordUnreadableHash(m)
        /\ End("auto", p.hash)
        /\ UNCHANGED <<front, config, fence, imports, attempt, edits, manual, history>>

WizardNext(m) ==
    LET p == pass["wizard"]
    IN  /\ p.pc = "next" /\ m \in p.todo /\ ~Superseded("wizard")
        /\ W("wizard", [p EXCEPT !.at = m, !.pc = "push"])
        /\ UNCHANGED <<front, config, fence, imports, loop, counts, history>>

(* A member held for its build, without a token, or failing its dry run;   *)
(* for the wizard, also one whose dry run finds nothing to change.         *)
SkipMember(w) ==
    /\ pass[w].pc = "push"
    /\ W(w, Done(w))
    /\ \/ Fault
       \/ w = "wizard" /\ MayBeEmpty(pass[w].at, pass[w].export) /\ UNCHANGED faults
    /\ UNCHANGED <<front, config, fence, imports, loop, edits, manual, history>>

(* The gate tightest to the mutation, then applyMemberConfig's request. *)
PushImport(w) ==
    /\ pass[w].pc = "push" /\ ~Cancelled(w)
    /\ Cardinality(imports) < MaxReq
    /\ IF Superseded(w)
       THEN End(w, pass[w].hash) /\ UNCHANGED imports
       ELSE /\ imports' = imports \cup
                 {[ to |-> pass[w].at, from |-> w, gen |-> pass[w].gen, src |-> pass[w].src,
                    cfg |-> pass[w].export, st |-> "sent", out |-> "ok", live |-> FALSE ]}
            /\ W(w, [pass[w] EXCEPT !.pc = "await"])
            /\ UNCHANGED <<kick, prev>>
    /\ UNCHANGED <<front, config, fence, attempt, diverged, counts, history>>

(* recordSyncAttempt, by the automatic pass only. *)
RecordSyncAttempt(w, received) ==
    attempt' = IF w = "auto" /\ received
               THEN [attempt EXCEPT ![pass[w].at] = "recent"] ELSE attempt

(* The member answered. *)
ImportAnswered(w, i) ==
    /\ i.from = w /\ i.st = "answered"
    /\ imports' = imports \ {i}
    /\ RecordSyncAttempt(w, i.out # "stale")
    /\ W(w, Done(w))
    /\ UNCHANGED <<front, config, fence, kick, prev, diverged, counts, history>>

(* The caller is gone: the deadline expired or a proxy gave up, which      *)
(* counts as received; the connection broke or a proxy answered at once,   *)
(* which counts as a failure; or the watcher cancelled the request, which  *)
(* counts as nothing.                                                      *)
ImportAbandoned(w, i) ==
    /\ i.from = w
    /\ imports' = (imports \ {i}) \cup
                    (IF i.st = "answered" THEN {} ELSE {[i EXCEPT !.from = "gone"]})
    /\ \/ Fault /\ \E received \in BOOLEAN : RecordSyncAttempt(w, received)
       \/ Cancelled(w) /\ UNCHANGED <<faults, attempt>>
    /\ W(w, Done(w))
    /\ UNCHANGED <<front, config, fence, kick, prev, diverged, edits, manual, history>>

(* The member could not be reached. *)
ImportLost(w, i) ==
    /\ i.from = w /\ i.st = "sent"
    /\ Fault
    /\ imports' = imports \ {i}
    /\ W(w, Done(w))
    /\ UNCHANGED <<front, config, fence, loop, edits, manual, history>>

(* incompleteRetryInterval has passed. *)
RetryDue(m) ==
    /\ attempt[m] = "recent"
    /\ attempt' = [attempt EXCEPT ![m] = "due"]
    /\ UNCHANGED <<front, config, fence, imports, pass, kick, prev, diverged, counts, history>>

-----------------------------------------------------------------------------
(* The member.                                                             *)

(* Mutants: no fence; one that refuses a retry of the same generation. *)
NoFence(i)      == FALSE
FenceAtEqual(i) == i.gen <= fence[i.to]

(* enforceSourceGenFence: refuse what is older than what was applied. *)
FenceRefuses(i) == i.gen < fence[i.to]

(* apply, one transaction: the fence, the declarative replace, the new     *)
(* fence and the new import number, which outdates every earlier import.   *)
ApplyImport(i) ==
    /\ i.st = "sent"
    /\ IF FenceRefuses(i)
       THEN /\ imports' = (imports \ {i}) \cup
                 (IF i.from = "gone" THEN {} ELSE {[i EXCEPT !.st = "answered", !.out = "stale"]})
            /\ UNCHANGED <<config, fence, taken>>
       ELSE /\ imports' = {IF j.to = i.to THEN [j EXCEPT !.live = FALSE] ELSE j : j \in imports \ {i}}
                            \cup {[i EXCEPT !.st = "core", !.live = TRUE]}
            /\ config' = [config EXCEPT ![i.to]["core"] = i.cfg["core"]]
            /\ fence' = [fence EXCEPT ![i.to] = i.gen]
            /\ taken' = [taken EXCEPT ![i.to] = [src |-> i.src, cfg |-> i.cfg]]
    /\ UNCHANGED <<front, pass, loop, counts, designated>>

(* The request died with its caller before its transaction committed. *)
ImportDies(i) ==
    /\ i.st = "sent" /\ i.from = "gone"
    /\ imports' = imports \ {i}
    /\ UNCHANGED <<front, config, fence, pass, loop, counts, history>>

(* Mutant: ownership judged by the generation instead of the import. *)
GenOwnsPostCommit(i) == i.gen = fence[i.to]

(* lockFenceForPostCommit: under the fence lock, no later import committed. *)
OwnsPostCommit(i) == i.live

AfterSection(i, out) ==
    IF i.st = "core" THEN {[i EXCEPT !.st = "models", !.out = out]}
    ELSE IF i.from = "gone" THEN {}
         ELSE {[i EXCEPT !.st = "answered", !.out = out]}

(* applyDisabledModels and applyEnabledModels, then applyFailoverGroups:   *)
(* detached from the request, each in a transaction of its own.  A         *)
(* superseded section writes nothing and is no failure.  The two model     *)
(* transactions, one right after the other under the same ownership test,  *)
(* are one step.                                                           *)
PostImportSection(i) ==
    LET s == IF i.st = "core" THEN "models" ELSE "groups"
    IN  /\ i.st \in {"core", "models"}
        /\ imports' = (imports \ {i}) \cup AfterSection(i, i.out)
        /\ config' = IF OwnsPostCommit(i)
                     THEN [config EXCEPT ![i.to][s] = i.cfg[s]] ELSE config
        /\ UNCHANGED <<front, fence, pass, loop, counts, history>>

(* A section's transaction fails: the import answers incomplete. *)
PostImportFails(i) ==
    /\ i.st \in {"core", "models"}
    /\ Fault
    /\ imports' = (imports \ {i}) \cup AfterSection(i, "incomplete")
    /\ UNCHANGED <<front, config, fence, pass, loop, edits, manual, history>>

(* The member restarts: what it had under way is gone, what it committed   *)
(* stays.  Its callers see a lost answer.                                  *)
MemberCrash(m) ==
    /\ Fault
    /\ \E i \in imports : i.to = m
    /\ imports' = {i \in imports : i.to # m}
    /\ pass' = [w \in Pass |->
                  IF pass[w].pc = "await" /\ pass[w].at = m THEN Done(w) ELSE pass[w]]
    /\ UNCHANGED <<front, config, fence, loop, edits, manual, history>>

(* Front Desk restarts: the store stays, everything in memory is gone. *)
FrontDeskCrash ==
    /\ Fault
    /\ signal' = "none"
    /\ pass' = [w \in Pass |-> Idle]
    /\ imports' = {[i EXCEPT !.from = "gone"] : i \in {j \in imports : j.st # "answered"}}
    /\ kick' = [st |-> "off", pending |-> FALSE]
    /\ prev' = None
    /\ attempt' = [m \in Member |-> "zero"]
    /\ diverged' = [m \in Member |-> FALSE]
    /\ UNCHANGED <<roster, autoSync, config, fence, edits, manual, history>>

-----------------------------------------------------------------------------
Operator ==
    \/ \E m \in Member : EditConfig(m) \/ EnrolMember(m) \/ DeleteMember(m)
    \/ \E e \in BOOLEAN, p \in Primaries : PutAutoSync(e, p)

AutoStep ==
    \/ PrimaryConfigHash \/ \E m \in Member : MeasureMember(m)

PassStep(w) ==
    \/ w = "auto" /\ AutoStep
    \/ w = "wizard" /\ (WizardExport \/ \E m \in Member : WizardNext(m))
    \/ PassEnds(w) \/ PushImport(w) \/ SkipMember(w)
    \/ \E i \in imports : ImportAnswered(w, i) \/ ImportAbandoned(w, i)

PassFault ==
    \/ PrimaryUnread
    \/ \E m \in Member : MeasureUnread(m) \/ ExportUnread(m) \/ MemberCrash(m)
    \/ \E w \in Pass, i \in imports : ImportLost(w, i)
    \/ \E i \in imports : PostImportFails(i)
    \/ FrontDeskCrash

MemberStep == \E i \in imports : ApplyImport(i) \/ PostImportSection(i)

Next ==
    \/ Operator \/ SignalRearm
    \/ AutoSyncOnce \/ ForceAutoSyncNow \/ RunConfigSync
    \/ \E w \in Pass : PassStep(w) \/ WatchRearm(w)
    \/ MemberStep \/ \E i \in imports : ImportDies(i)
    \/ \E m \in Member : RetryDue(m)
    \/ PassFault

Spec == Init /\ [][Next]_vars

(* The tick loop runs for as long as Front Desk does; a handler that wrote *)
(* goes on to signal; a pass's calls have deadlines; a member's handler    *)
(* runs to its end; ten minutes pass.                                      *)
Fairness ==
    /\ WF_vars(SignalRearm) /\ WF_vars(AutoSyncOnce)
    /\ SF_vars(ForceAutoSyncNow)    \* sync.Mutex does not starve a waiter
    /\ \A w \in Pass : WF_vars(PassStep(w)) /\ WF_vars(WatchRearm(w))
    /\ WF_vars(MemberStep)
    /\ \A m \in Member : WF_vars(RetryDue(m))

FairSpec == Spec /\ Fairness
-----------------------------------------------------------------------------
(* Every generation names one source, and a member's applied generation    *)
(* never goes back: the fence, the one-scan read of the designation and    *)
(* its generation, and the generation that outlives a disband.             *)
Source == INSTANCE FleetSource WITH
    gen     <- autoSync.gen,
    source  <- designated,
    applied <- [m \in Member |-> [gen |-> fence[m], src |-> taken[m].src]]

SourceSpec == Source!Spec

(* The sections an import writes after its commit never overwrite those of *)
(* a later one: a member with nothing under way holds exactly what the     *)
(* last import to commit carried, unless its own operator edited it since. *)
(* Said of behaviours without a fault, in which no section fails or dies   *)
(* with its member; a push repeated after a lost answer is outside it.     *)
LastImportStands ==
    \A m \in Member :
        (/\ faults = 0
         /\ taken[m].cfg # None
         /\ \A i \in imports : i.to = m => i.st \in {"sent", "answered"})
        => config[m] = taken[m].cfg

(* Once the operator leaves an enabled fleet alone and the faults are      *)
(* over, every member comes to hold the primary's config, and no member    *)
(* but the primary stays flagged: a push that was lost, cancelled, refused *)
(* or cut short is made up for by a later pass.                            *)
Converged ==
    autoSync.enabled =>
        \A m \in roster : /\ config[m] = config[autoSync.primary]
                          /\ diverged[m] => m = autoSync.primary

FleetConverges == <>[]Converged

(* sync_incomplete is about the present: once the members hold the         *)
(* primary's config, none is left flagged, the primary included.           *)
NoFlagStays == <>[](autoSync.enabled => \A m \in roster : ~diverged[m])
=============================================================================
