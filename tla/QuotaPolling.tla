---------------------------- MODULE QuotaPolling ----------------------------
(***************************************************************************)
(* The quota poll loop, the advice it publishes and the pins it puts on    *)
(* open circuits (cmd/server/background.go, internal/api/quota_snapshot.go)*)
(* over the setting quota_refresh_interval_min of SettingsCache.           *)
(*                                                                         *)
(* The loop refreshes the advice on its timer.  A circuit that opens       *)
(* refreshes it too, in a goroutine of its own (NudgeQuotaPoll), and so    *)
(* does an edit of the provider: all of those are nudges here.  One        *)
(* provider; what its stored snapshot says is the environment's.  How a    *)
(* pin moves a circuit's deadline is CircuitBreaker's.                     *)
(***************************************************************************)
EXTENDS SettingsCache

CONSTANTS Nudge,      \* refreshes outside the loop; Reader is Nudge and Loop
          Loop,
          Readings,   \* what a stored snapshot may say
          MaxNudges

ASSUME PollAssumption ==
    /\ Reader = Nudge \cup {Loop} /\ Loop \notin Nudge /\ MaxNudges \in Nat
    /\ {"spent", "fine"} \subseteq Readings

VARIABLES
    loop,       \* settingsIntervalLoop: pc, its interval, disabledHandled
    refresh,    \* per refresher, its RefreshQuotaAdvice
    advice,     \* the published map advises on the provider
    pinned,     \* a quota pin stands on its open circuit
    reading     \* what the stored snapshot says

quota == <<loop, refresh, advice, pinned, reading, nudges>>
polling == <<store, quota>>

PollTypeOK ==
    /\ StoreTypeOK
    /\ loop \in [pc : {"boot", "advise", "read", "clear", "release", "wait", "poll"},
                 interval : 0..1, handled : BOOLEAN]
    /\ refresh \in [Reader -> [pc : {"idle", "snaps", "interval", "apply", "replace", "recover"},
                               reading : Readings, interval : 0..1]]
    /\ advice \in BOOLEAN /\ pinned \in BOOLEAN /\ reading \in Readings
    /\ nudges \in 0..MaxNudges

Rest == [pc |-> "idle", reading |-> "fine", interval |-> 0]

PollInit ==
    /\ StoreInit
    /\ loop = [pc |-> "boot", interval |-> 0, handled |-> FALSE]
    /\ refresh = [r \in Reader |-> Rest]
    /\ advice = FALSE /\ pinned = FALSE /\ reading \in Readings
    /\ nudges = 0

(* GetInt: an absent row and a failed read are the default, five minutes.  *)
GetInt(v) == IF v = "off" THEN 0 ELSE 1

-----------------------------------------------------------------------------
(* RefreshQuotaAdvice, by the loop or a nudge.                             *)

Refreshes(r, x) == refresh' = [refresh EXCEPT ![r] = x]

listSnapshots(r) ==
    /\ refresh[r].pc = "snaps"
    /\ Refreshes(r, [refresh[r] EXCEPT !.pc = "interval", !.reading = reading])
    /\ UNCHANGED <<store, loop, advice, pinned, reading, nudges>>

(* The interval is read through the cache.                                 *)
readRefreshInterval(r) ==
    /\ refresh[r].pc = "interval"
    /\ \/ beginRead(r) /\ UNCHANGED refresh
       \/ /\ reads[r].pc = "done" /\ Reads(r, NoRead)
          /\ Refreshes(r, [refresh[r] EXCEPT !.pc = "apply", !.interval = GetInt(reads[r].value)])
    /\ UNCHANGED <<row, cache, cacheGen, writers, events, lost, writes, dbFaults>>
    /\ UNCHANGED <<loop, advice, pinned, reading, nudges>>

(* Listing the snapshots or, past the interval, the providers fails: that  *)
(* drops the advice and leaves the pins alone.                             *)
refreshFails(r) ==
    /\ refresh[r].pc \in {"snaps", "apply"} /\ DBFault
    /\ Refreshes(r, Rest) /\ advice' = FALSE
    /\ UNCHANGED <<row, cache, cacheGen, reads, writers, events, lost, writes>>
    /\ UNCHANGED <<loop, pinned, reading, nudges>>

(* Without a poll cadence no snapshot's age can be trusted.  A reading     *)
(* that is too old, cannot be assessed or failed its last refresh neither  *)
(* pins nor releases.                                                      *)
buildQuotaAdvice(r) == refresh[r].reading = "spent" /\ refresh[r].interval > 0
Recovered(r)        == refresh[r].reading = "fine" /\ refresh[r].interval > 0

(* ApplyQuotaPins: the provider's circuit may be open.                     *)
applyPins(r) ==
    /\ refresh[r].pc = "apply"
    /\ Refreshes(r, [refresh[r] EXCEPT !.pc = "replace"])
    /\ pinned' \in {pinned, pinned \/ buildQuotaAdvice(r)}
    /\ UNCHANGED <<store, loop, advice, reading, nudges>>

replaceAdvice(r) ==
    /\ refresh[r].pc = "replace"
    /\ Refreshes(r, [refresh[r] EXCEPT !.pc = "recover"])
    /\ advice' = buildQuotaAdvice(r)
    /\ UNCHANGED <<store, loop, pinned, reading, nudges>>

releaseRecovered(r) ==
    /\ refresh[r].pc = "recover"
    /\ Refreshes(r, Rest)
    /\ pinned' = (pinned /\ ~Recovered(r))
    /\ UNCHANGED <<store, loop, advice, reading, nudges>>

RefreshStep(r) ==
    \/ listSnapshots(r) \/ readRefreshInterval(r) \/ refreshFails(r)
    \/ applyPins(r) \/ replaceAdvice(r) \/ releaseRecovered(r)

-----------------------------------------------------------------------------
(* quotaPollLoop and settingsIntervalLoop.                                 *)

StartRefresh(r) == Refreshes(r, [Rest EXCEPT !.pc = "snaps"])
LoopTo(x)       == loop' = x

(* The loop's read of the interval begins, or is done with n.              *)
LoopBegins == beginRead(Loop) /\ UNCHANGED <<loop, refresh>>
LoopHas(n) == reads[Loop].pc = "done" /\ n = GetInt(reads[Loop].value) /\ Reads(Loop, NoRead)

(* At boot the advice is rebuilt once from the stored snapshots, if        *)
(* polling is on (adviseNow).                                              *)
boot ==
    /\ loop.pc = "boot"
    /\ \/ LoopBegins
       \/ LoopHas(0) /\ LoopTo([loop EXCEPT !.pc = "advise"]) /\ UNCHANGED refresh
       \/ LoopHas(1) /\ LoopTo([loop EXCEPT !.pc = "advise"]) /\ StartRefresh(Loop)
    /\ UNCHANGED <<row, cache, cacheGen, writers, events, lost, writes, dbFaults>>
    /\ UNCHANGED <<advice, pinned, reading, nudges>>

(* Subscribe follows it: the loop hears of no event sent before.           *)
subscribe ==
    /\ loop.pc = "advise" /\ refresh[Loop].pc = "idle"
    /\ events' = 0 /\ LoopTo([loop EXCEPT !.pc = "read"])
    /\ UNCHANGED <<row, cache, cacheGen, reads, writers, lost, writes, dbFaults>>
    /\ UNCHANGED <<refresh, advice, pinned, reading, nudges>>

(* The interval is re-read after every event and every tick; onDisabled    *)
(* runs once per disabled span.                                            *)
readInterval ==
    /\ loop.pc = "read"
    /\ \/ LoopBegins
       \/ /\ LoopHas(0) /\ UNCHANGED refresh
          /\ LoopTo([loop EXCEPT !.interval = 0, !.pc = IF loop.handled THEN "wait" ELSE "clear"])
       \/ /\ LoopHas(1) /\ UNCHANGED refresh
          /\ LoopTo([pc |-> "wait", interval |-> 1, handled |-> FALSE])
    /\ UNCHANGED <<row, cache, cacheGen, writers, events, lost, writes, dbFaults>>
    /\ UNCHANGED <<advice, pinned, reading, nudges>>

(* DisableQuotaAdvice: the map, then the pins.                             *)
clearQuotaAdvice ==
    /\ loop.pc = "clear"
    /\ advice' = FALSE /\ LoopTo([loop EXCEPT !.pc = "release"])
    /\ UNCHANGED <<store, refresh, pinned, reading, nudges>>

releaseAllQuotaPins ==
    /\ loop.pc = "release"
    /\ pinned' = FALSE /\ LoopTo([loop EXCEPT !.pc = "wait", !.handled = TRUE])
    /\ UNCHANGED <<store, refresh, advice, reading, nudges>>

wakeOnEvent ==
    /\ loop.pc = "wait" /\ events > 0
    /\ events' = events - 1 /\ LoopTo([loop EXCEPT !.pc = "read"])
    /\ UNCHANGED <<row, cache, cacheGen, reads, writers, lost, writes, dbFaults>>
    /\ UNCHANGED <<refresh, advice, pinned, reading, nudges>>

(* The timer exists only while the interval is positive; its tick polls,   *)
(* which may store a new snapshot, and refreshes.  PollQuotasOnce drops the advice and returns when the    *)
(* providers cannot be listed.                                             *)
tick ==
    /\ loop.pc = "wait" /\ loop.interval > 0
    /\ \/ /\ LoopTo([loop EXCEPT !.pc = "poll"]) /\ StartRefresh(Loop)
          /\ reading' \in Readings /\ UNCHANGED <<dbFaults, advice>>
       \/ /\ DBFault /\ LoopTo([loop EXCEPT !.pc = "read"]) /\ advice' = FALSE
          /\ UNCHANGED <<refresh, reading>>
    /\ UNCHANGED <<row, cache, cacheGen, reads, writers, events, lost, writes>>
    /\ UNCHANGED <<pinned, nudges>>

pollDone ==
    /\ loop.pc = "poll" /\ refresh[Loop].pc = "idle"
    /\ LoopTo([loop EXCEPT !.pc = "read"])
    /\ UNCHANGED <<store, refresh, advice, pinned, reading, nudges>>

LoopStep ==
    \/ boot \/ subscribe \/ readInterval \/ clearQuotaAdvice
    \/ releaseAllQuotaPins \/ wakeOnEvent \/ tick \/ pollDone

(* A circuit opens, pinned if there is advice, and nudges: the provider is *)
(* polled and the advice refreshed.                                        *)
NudgeQuotaPoll(n) ==
    /\ refresh[n].pc = "idle" /\ Upset /\ nudges < MaxNudges
    /\ nudges' = nudges + 1
    /\ StartRefresh(n)
    /\ pinned' = (pinned \/ advice) /\ reading' \in Readings
    /\ UNCHANGED <<store, loop, advice>>

PollNext ==
    \/ StoreNext /\ UNCHANGED quota
    \/ \E r \in Reader : RefreshStep(r)
    \/ \E n \in Nudge : NudgeQuotaPoll(n)
    \/ LoopStep

PollSpec == PollInit /\ [][PollNext]_polling

(* Goroutines run, and queries return.                                     *)
FairPollSpec ==
    /\ PollSpec
    /\ \A c \in Reader : WF_polling(ReadStep(c) /\ UNCHANGED quota) /\ WF_polling(RefreshStep(c))
    /\ \A w \in Writer : WF_polling(WriteStep(w) /\ UNCHANGED quota)
    /\ WF_polling(LoopStep)

-----------------------------------------------------------------------------
(* Properties.                                                             *)

(* Whatever the order of writes, evictions, fills and events, and however  *)
(* many events a full channel drops, the loop ends up running at the       *)
(* interval the row holds, unless the last write was reported as failed    *)
(* (background.go:151, settings.go:280).                                   *)
LoopAdopts == <>[](loop.interval = GetInt(row) \/ lost # "none")

(* A loop that is switched off has no timer.  If the row says otherwise,   *)
(* something is on its way to wake it: an event, or a write that will send *)
(* one; the event is taken before the read and sent after the eviction, so *)
(* no event is spent on the old value (background.go:151, settings.go:280).*)
OffLoopIsWoken ==
    (loop.pc = "wait" /\ loop.interval = 0 /\ GetInt(row) > 0) =>
        \/ events > 0 \/ lost # "none"
        \/ \E w \in Writer : writers[w].pc \in {"evict", "lookup", "notify"}

(* Polling switched off for good leaves no advice behind: "the last        *)
(* computed quota advice map would otherwise be retained in memory for the *)
(* rest of the process lifetime" (background.go:297).                      *)
OffDropsAdvice == <>[](row = "off" /\ loop.handled) => <>[](~advice)

=============================================================================
