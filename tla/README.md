# Model Hotel: a TLA+ verification project

Model Hotel is a gateway in front of many LLM providers. A request names a model, a
group or a provider/model pair; the gateway resolves it to an ordered list of
candidates, walks them until one serves, and keeps, in memory and shared by every
request goroutine, what it has learned about providers and spending. The models here are
of that shared state: it is mutated from many goroutines, most of it under a mutex that
is let go in the middle of an operation, and its mistakes (a provider dark for a day, a
slot leaked for good, a spend that is forgotten) do not show up in unit tests.

## The system

| Component | State it keeps | Operations | Interacts with |
|---|---|---|---|
| Circuit breaker (`internal/failover`) | a circuit per provider and resolved model: state, pins, backoff, windows | `IsOpen`, `Record*`, `ApplyQuotaPins`, `Release*QuotaPins`, `Reset*` | asked and charged by the walk; pinned by the quota poller; reads settings |
| In-flight limiter (`internal/proxy/inflight.go`) | per provider a learned allowance, the attempts in flight, a notify channel | `tryAcquire`, `release`, `cut`, `hintFull`, `waitForSlot`, the slot and its body wrapper | every attempt of the walk and of a hedge |
| Failover walk (`internal/proxy/proxy_failover.go`, dispatch files) | a request's own state | one attempt per candidate, the wait for a slot, the verdict | breaker, limiter, logs |
| Budget limiter (`internal/budget`) | per key and user the spend of the period, flags, a reload in flight | `Admit`, `Spent`, `Charge`, `reload` | sums `request_logs`; charged when a request is priced |
| Hedged race (`hedging.go`) | launches, results, timer of one request | launch, win, lose, drain | limiter, breaker, attempt trail |
| Quota polling (`api/quota_snapshot.go`, `internal/quota`) | snapshots, the advisor's map | poll, refresh, disable | writes pins into the breaker |
| Retirement of gone models (`model_gone*.go`) | strikes and a probe claim per model | strike, success, claim, disable | walk, model table |
| Rate limiters (`internal/ratelimit`) | token buckets, cap memos | admit, debit, sweep | requests |
| Read-through caches (`settings`, `provider/cache.go`, `auth/key_cache.go`) | entries with a TTL, generations | read, install, invalidate | every reader of settings |
| Fleet config sync (`internal/frontdesk`, `api/configsync_apply.go`) | source generation per member, rearm generation | pass, rearm, import | members over HTTP |
| Everything else | | | translators of dialects, discovery, administration, authentication, events, logs, front ends |

The hard behaviours are these. *Interleavings*: locks dropped and taken again (`IsOpen`,
the budget's reads, `waitForSlot`, every read-through cache), outcomes of requests
admitted long ago, bodies closed from a watchdog's goroutine, a success that crosses a
disable. *Stale readings*: quota readings, settings, sums and whole configs that are
applied after what they were read from has moved on. *Messages*: a push between Front Desk
and a member that is lost, late, cancelled or answered to nobody, and processes that stop
between two transactions. *Timeouts*: probes for a first token, hedge timers, deadlines of
the wait, reads of the store. *Limits*: a full circuit map, ceilings of zero that mean
"none", counters that double, an event channel that drops. `PROJECT.json` lists each at its
line under "hazards", with the properties aimed at it. What makes each modelled component
correct is stated below with its runs. Except for fleet config sync, nothing modelled here
survives a restart: circuits, windows and figures start empty, which is `Init`.

## The modules

| Module | What it is |
|---|---|
| `CircuitBreaker` | the breaker of one provider (providers share only the settings) |
| `CircuitBreakerProofs` | its theorems |
| `MCCircuitBreaker` | settings and readings for its runs |
| `SlotPool` | abstract: who holds a slot of which provider, and how an allowance may move |
| `InflightLimiter` | the limiter, the walk and the life of an attempt's slot, shown to implement `SlotPool` |
| `InflightLimiterProofs` | its theorems, the refinement among them |
| `MCInflightLimiter` | ceilings and surfaces for its runs |
| `BudgetLimiter` | the spend figure of one subject and the store's sums |
| `BudgetLimiterProofs` | its theorems |
| `MCBudgetLimiter` | budgets for its violating run |
| `TPMLimiter` | the tokens-per-minute limiter: admission, debit, memo, sweep |
| `TPMLimiterProofs` | its theorems |
| `MCLimits` | EXTENDS both: the sum of `BudgetLimiter` and `TPMLimiter` |
| `RaceLedger` | abstract: the launches, the one answer, the records and the charges of a race |
| `HedgedRace` | the orchestrator and the probes of one hedged streaming request, shown to implement `RaceLedger` |
| `HedgedRaceProofs` | its theorems, the refinement among them |
| `ModelRetirement` | one model from its first "gone" answer to its retirement and back |
| `ModelRetirementProofs` | its theorems |
| `SettingsCache` | one key of the settings repository: row, cache, events |
| `QuotaPolling` | the quota poll loop, composed with `SettingsCache` (EXTENDS) |
| `QuotaPollingProofs` | the theorems of both |
| `MCGateway` | EXTENDS all four: the sum of `InflightLimiter`, `HedgedRace`, `ModelRetirement`, `QuotaPolling` |
| `FleetSource` | abstract: which source a member's config came from, and that it never goes back |
| `FleetSync` | Front Desk's passes and a member's import, shown to implement `FleetSource` |
| `FleetSyncProofs` | its theorems, the refinement among them |
| `MCFleetSync` | instances of `FleetSync` |

`MCGateway` and `MCLimits` are sums: a variable `part`, chosen by `Init` and never changed,
says which component moves, and the others rest in their initial states. A behaviour of the
sum is a behaviour of one component, so a property of the sum says exactly what it says of
the component, and the assumptions that the proofs make of a component's constants are
evaluated there. Components that do interact are composed for real: the poll loop with the
settings cache it reads through, Front Desk with the members, the walk with the limiter.

`PROJECT.json` "map" gives the source lines of each definition. Definitions marked
*Fault* or *Mutant* in a comment are wrong variants of the definition next to them, one plausible
slip each; no specification uses them. They are there so that every property can be
shown to fail when the code does ("mutants").

### CircuitBreaker

`circuits` maps every routed model, and the reserved key of a circuit seeded by a quota
reading, to a circuit record with the fields of the Go struct; `settings` is what the
operator chose, `advice` what the quota advisor holds, `asks` where each goroutine is in
`IsOpen`. Every operation runs under `cb.mu` and is one action with all it does; `IsOpen`
is two, because it lets go of the read lock before it takes the write lock. Outcomes may
land on any circuit at any time: direct provider/model requests never ask `IsOpen`, and a
slow request records long after it was admitted. A quota pass may carry any reading and
precede or follow any other step; jitter and probe seeds are arbitrary draws from their
range.

Instants are ages. No setting's ceiling exceeds `Horizon` (`HorizonAssumption`), so every
duration an age is compared with is below it, an age stops counting there and time needs no
bound. A pin or backoff is clamped when it is stamped and served as it stands afterwards,
so that a ceiling the operator lowers later, zero apart, does not cut a wait that is
running; `WaitBounded` is therefore said of the steps that stamp or lengthen a wait. Left out,
since no decision reads them: names, last verdicts, `lastSuccess`, logs and events (the
instability report is kept as its flag). Doubling is exact up to `MaxFailedProbes`.

### InflightLimiter

`windows` is `inflightWindow` per provider, `reqs` where each request is in its walk and
the state of its slot and body wrapper, `signalled` whether the notify channel a waiter
holds has been closed. The methods of the limiter are atomic, everything between them
interleaves: the settle before a cut and the cut itself are two steps, `waitForSlot`
takes the channel, checks its candidates one by one and then sleeps. A request asks for
one of four surfaces, which differ in who judges the answer and who settles the slot.

`SlotPool` is what all of this is for, without walks, wrappers or channels: a request holds
at most one slot, takes it where both limits have room counted in requests that really hold
one, and gives it back once to the pool it came from; an allowance begins or narrows only at
the load of the instant and widens only as a slot is given back. The mapping takes `held` to
the requests that hold a slot of the provider (from their own state, not from the counter)
and `allowance` to the learned limit.

Left out: the one-shot retry on the last candidate (one more attempt through the same
gate) and an edit of `max_in_flight` while requests are under way (`Ceiling` is constant).
The breaker filters the candidates when the list is resolved (`resolve.go`), before the
walk begins; here every request has the whole list. The hedged race is `HedgedRace`.

### BudgetLimiter

`entry` is the limiter's entry of one subject, `rows` the priced requests with arrival,
`created_at` and how far each got, `asks` and `reloads` the reads in flight. A read of
the store begins under the lock, takes its snapshot, and lands under the lock again: three
steps. The database is modelled by what `PGSource` asks of it, the priced rows created in
the period. Every row costs one dollar and the figure is kept as how often
it holds each row, which tells a charge counted twice from one missed. `accepted` is a
history variable: the charges the figure took in this period. `TimeoutAssumption`, that
two reads are over before a figure is stale again, holds of the constants (3 s and 60 s).

### TPMLimiter

`buckets` and `caps` are the two maps under `l.mu`, `req` where each request is between
its owner stage and the last chunk of its debit, `mark` is `lastGoodHorizon`. Admission
takes its entry under the lock and one token right after; the two are one step (`Stage`),
as nothing in between can tell. Each chunk of a debit is a read of the burst and a
reservation, with cap edits in between. The proxy's own read of `request_timeout` may
fall back to the default (`Serve`). A tick is the minute a
bucket refills in, levels are whole tokens and debt is negative; a request lives for at
most the timeout the proxy read. The cap a request carries is any of its bucket's caps,
which covers edits, the global default and a changing fleet share. `ledger` is a history
variable: the level a bucket would have had it never been swept, rebuilt or resized.
`rate.Limiter` is external: `Reserved` and `Restores` say what the code relies on. Left
out: the two kill switches, headers, `Retry-After` and the throttle log.

### HedgedRace

`race` is `runHedgedStreaming` (what it launched, who won, whom it has settled), `probe`
each launch with the state it shares with the orchestrator without a lock (context,
superseded and billed flags), `results` the channel, `trail` the attempt records and `owed`
the prompt charges, `drain` the background reader of late results. A probe's steps are
those at which another goroutine can tell the difference: admission, send, first token
against the deadline that closes the body, classification, commit, delivery. `trail` is the
race's own: when every launch failed on a full provider the request falls back to the walk,
whose retry keeps a record of its own.

`RaceLedger` has no probes, timers or channel: candidates are launched in order and none
after the decision, the client is answered once, and by then every launch has its one record
and no prompt is charged twice. The mapping takes `records` to `trail`, `charges` to `owed`
and the orchestrator's place to one of three stages.

### ModelRetirement

`streak` is `goneStreak`, `handler` the requests between their strike and the claim, `job`
the disable goroutine through its probe, the staged transaction, the confirmation and a
possible revert, `model` the model's row. Operator edits, discovery scans that list or miss
the model, pruning and restarts come at any step. A row that is pruned and listed again is
a new row in the code and the same one here, which allows more: a job that began before the
prune may still write to it. Time is two flags, the probe cooldown and
the strike window. What a model may be struck on (`Eligible`) is computed from its
modalities.

### SettingsCache and QuotaPolling

`row`, `cache` and `cacheGen` are one key's; a read is lookup, query, install, and a write
is query, eviction, event, each a step, since no lock is held over a query. Writes in a
caller's transaction evict after the commit. A write may take effect and be reported as
failed; the history variable `lost` says so until a later write's event makes up for it,
which it does only once no failed write has its eviction still to come. The loop
of `settingsIntervalLoop` waits on its timer or its channel, reads the
interval through the cache, and polls or, on zero, drops advice and pins; at boot it advises
from what is stored before it subscribes to changes. A stored reading is spent, fine or
unknown, and a tick's poll may change it. Refreshes by a nudge run beside the loop. The fence property compares what the cache holds with the row once
every eviction has happened.

### FleetSource and FleetSync

`FleetSource` has three variables: the newest generation, the source each generation names,
and what each member applied last. A member's generation never goes back and its config
comes from the source its generation names. `FleetSync` has the protocol: `autoSync` and
`roster` are Front Desk's store, `pass` the automatic pass (a tick or a kick, whichever
holds `passMu`) and the wizard's, `imports` the requests at members, `fence` and `config`
a member's store, the rest Front Desk's memory. An import is a fenced transaction followed
by two sections in transactions of their own, each of which checks that no later import
has committed; the per-model disables and pins, two transactions one after the other, are
one section. A caller that gave up leaves its import to commit or die. Either process may
stop between any two transactions. A config is a number per section. The refinement
mapping takes `fence` and the source of the last committed import to `applied`, and the
history variable `designated` to `source`.

Left out: holds for build skew, members without a token, schema and key checks, sync stamps
and events; a pass that passes a member over for one of those is `SkipMember`. A member
accepts an operator's edit at any time, since the managed role is cached and read fail-open.
Three things are coarser than the code or freer:

- `PutAutoSync` checks that the host is a member and commits in one step, where the handler
  reads the member first and the guarded write counts members only. With three hosts or
  more, one deleted in between can be designated, and passes then find no primary to read
  until the operator designates another. The runs have two hosts, where such a delete
  disbands and the write is refused. One handler at a time is between its write and its
  signal, and `EnrolMember` has its rearm in the same write; a second signal would only
  close a channel that is closed already.
- The dry run's diff goes by presence, so it can be empty only when the core matches and
  need not be then (`MayBeEmpty`). The unreadable clock of a member is a choice at each
  failed read of its hash (`RecordUnreadableHash`).
- The marker of the last wizard run is not state. It decides whom `deleteMember` refuses
  when auto-sync is off; `Removable` allows whatever some marker allows.

## What is checked

All bounds are named constants in the `.cfg` files or, for an instance of a sum, in its MC
module. Deadlock is checked except in `Gateway`, `QuotaOff`, `Fleet` and `FleetPromoted`: a
poll loop that is switched off and whose events were all read, a race that is over, and a
fleet whose auto-sync is off really do stop.

| Run | Instance | Shows |
|---|---|---|
| `BreakerPins` | 1 model and the seed, three settings (everything on; pin ceiling lowered; higher threshold, everything zeroed), readings spent, reserve-without-date, none | `TypeOK`; `NoResidue`: an episode that is over leaves no pin, backoff or streak; `SeedOnlyCarriesPin`; `WaitBounded`: a wait that is stamped or lengthened goes by the ceilings in force, however the settings were switched before; `AccountPinNeedsEvidence`: no circuit comes to speak for the account on an outdated reading |
| `BreakerSpan` | 2 models, room for 2 circuits, 1 caller in `IsOpen` | `DarkHolds` under eviction: nothing but time, a reset, a release or settings shortens a blackout; `RefusedHasRetry`: `BlockedUntil` agrees with every refusal |
| `BreakerLive` | 1 model and the seed, two opens to escalate in a window of two, fair time and passes | `NoPermanentDarkness`, `SeedRetired`, `ReportedOncePerWindow` |
| `BreakerRace` | 1 model, 1 caller | violates `AdmittedOnlyWhenUnblocked`, see Findings |
| `InflightWalk` | 2 requests (stream or pass-through, copied), 2 providers with a ceiling of one, fair waiters | `CeilingHolds`, `NoLostWakeup`, `RoomWakesWaiter` |
| `InflightPassthrough` | 1 pass-through request | violates `CleanMeansServed`, see Findings |
| `Limits`, budget | 1 row, 2 askers, 2 reloads, 1 re-run allowed, 2 days, fair | `NeverMisses`: a charge taken stays in the figure through reloads; `OneReload`; `Settles`: the figure becomes exact; `Answers` |
| `Limits`, tokens | a keyed request and a session's under one owner, 2 arrivals, caps edited between 1 and 2, costs of 3, timeouts of 1 and 3 ticks, 2 edits or reads without an answer | `DebitLands`: a debit is dropped only in the three cases the code gives up (the claim's read of `request_timeout` failed; it ran out of time before any had seen a timeout as long; the proxy read a longer one than the claim); `SpendCounted`: no sweep, rebuild, edit or chunk forgives spend that the idle cutoff pays off |
| `BudgetEdited` | 2 rows, a daily and a monthly budget | violates `NeverMisses`, see Findings |
| `Gateway`, hedge | 2 candidates, `ttft_timeout` on and off, a client that may hang up | `RaceLedgerSpec`: `HedgedRace` implements `RaceLedger`; `TrailNamesEveryLaunch`, `PromptChargedOnce`, `LosingIsNoFault`: being beaten is never charged to a provider; `WinnerUncut`: the stream served is not closed by the probe's deadline; `RaceReleases`: every launch ends and its slot is returned |
| `Gateway`, inflight | 2 chat requests, 1 provider, no ceiling | `PoolSpec`: `InflightLimiter` implements `SlotPool`; `SlotsAccounted`: each slot is returned exactly once; `CleanMeansServed`; `CutMatchesLoad`; `WidensOnEvidence` |
| `Gateway`, retire | 2 requests striking, threshold 3, 1 probe slot, 1 operator edit, 3 scans, 1 fault | `StandsOnEvidence`: a success between claim and decision keeps the model (said of an announced retirement, so not of a commit that landed and was reported as failed); `OperatorObeyed`; `ModelRetires`: a model that only refuses is retired |
| `Gateway`, quota | 2 writers (one in a transaction), the loop and a nudge, a channel of 1, readings spent and fine, 2 writes or faults | `CacheFresh`: no fill that began before a write survives it; `OffLoopIsWoken`: a loop that is off has an event ahead of it whenever the row says otherwise; `IntervalAdopted`: the loop comes to run at the saved interval although events are dropped |
| `Fleet` | 2 hosts, 2 generations, 1 edit, 1 wizard run, 1 fault, at most 3 of these together, 2 imports under way | `TypeOK`; `SourceSpec`: `FleetSync` implements `FleetSource`; `LastImportStands`: sections of an older import never overwrite a newer one's, as long as no call is lost and no section fails; `FleetConverges` |
| `FleetPromoted` | 2 hosts, 2 generations, 1 edit, no faults | violates `NoFlagStays`, see Findings |
| `QuotaOff` | `QuotaPolling` alone, 2 writes, 1 nudge, readings spent, fine and unknown, no faults | violates `OffDropsAdvice`, see Findings |

Why the bounds are enough. In the breaker each circuit evolves by itself except through
the span verdict, eviction and the seed, for which two models and two places suffice;
cooldown, backoff ceiling and pin ceiling are chosen distinct so that each comparison goes
both ways. In the limiter two requests give a holder and a waiter, or a cut and the load
it must not count. In the budget two asks give a charge before and one after a snapshot,
and a re-run bound of one reaches the case where the bound is exhausted. With the token
limiter's timeouts of 1 and 3 against an idle cutoff of 2 and a memo floor of 2, a request
can outlive its bucket, and a shorter request's claim would end before it. Two candidates
let one win while the other runs, waits in the channel or wins too; two requests at a
threshold of three let a strike and a success cross a claim. Two writers make a fill race
two evictions, and a channel of one drops. Two generations with one late import give an
old push that arrives after a new one, and a disband with one generation left re-enrols
over an old fence; three upsets in all let any two faults or edits meet a repoint. Symmetry
is used only in runs without liveness properties.

Fairness. `BreakerLive`: time passes, a goroutine waiting for a mutex gets it (Go's
mutexes do not starve), and the quota loop, a ticker in `cmd/server`, keeps passing.
`InflightWalk`: only that a runnable goroutine in `waitForSlot` runs; no request is
assumed to finish and the deadline is not assumed to fire. `Limits`, budget: time passes,
requests keep asking (the limiter does nothing on its own), a read ends by answer or by
`sourceTimeout`, and the store does not fail every reload for ever (strong fairness, an
assumption on the environment); tokens has none. `Gateway`: a runnable goroutine runs, a
probe's call ends because it has a deadline, and, for `ModelRetires`, an enabled model is
asked for again and the cooldown passes. `Fleet`: the tick loop runs while Front Desk does,
calls and handlers end by their deadlines, ten minutes pass, and the mutex a kick waits for
does not starve it; faults, edits and designations have none.

## What is proved

TLAPS proves the theorems below for every value of the constants that meets the `ASSUME`s
of the module: for any number of models, callers, providers, requests, candidates, rows,
buckets or hosts, and for any settings and bounds. The `ASSUME`s say that bounds are
numbers and that the reserved values (`None`, `Seed`) are not elements of the sets they
stand beside, that the goroutines that read and write settings are different ones and that an
event channel has room for one at least; those that say more are `HorizonAssumption` (ages stop counting past every
duration they are compared with) and `TimeoutAssumption` (two reads of the store are over
before a figure is stale again: 3 s and 60 s in the code). TLC evaluates all of them in the
runs. Each proof has one lemma per helper of the code or per kind of step (a step that
moves one request, one that uses one bucket, one that leaves the store alone), then one per
action. Each inductive invariant was checked by TLC before it was proved.

Some theorems have a hypothesis, and each is one the code needs:

- `Forward` (`BudgetLimiterProofs`, of the behaviour): no step rolls the entry to an earlier
  period start. Without it `NeverMisses` is false, which is what `BudgetEdited` shows; with
  it every edit of the budget is covered, as one from a month to a day that no request with
  the old period follows. `OnePeriod`, that edits change the amount and not the period,
  is a condition on the constants that implies it (`OnePeriodMovesForward`) and gives the
  corollaries `NoChargeLost` and `ReloadsAreSingle`.
- `OnlyChat` (`InflightLimiterProofs`): every request is a chat completion. Without it
  `CleanMeansServed` is false, which is what `InflightPassthrough` shows. It is needed for
  the corollary `OnlyServedIsClean` alone: `ChatCleanAlwaysServed` says the same of every
  chat attempt beside any other surfaces.
- `WithinCeiling` (`TPMLimiterProofs`): no request lives past the ceiling of a memo, which
  is a year, "far past any request_timeout a gateway can be run on" (`tpm_limiter.go:137`).

| Module | Theorems | Property |
|---|---|---|
| `CircuitBreakerProofs` | `TypeCorrect`, `NothingLeftBehind`, `SeedAlwaysCarriesPin`, `WaitAlwaysBounded` | `TypeOK`, `NoResidue`, `SeedOnlyCarriesPin`, `WaitBounded` |
| | `WithinUnloweredCeilings`: while no ceiling is lowered, no circuit waits beyond those in force | |
| | `DarknessNeverShortened`, `AccountPinsHaveEvidence`, `ReportsOnlyOnce`, `RefusalAlwaysDated` (action properties) | `DarkHolds`, `AccountPinNeedsEvidence`, `ReportedOncePerWindow`, `RefusedHasRetry` |
| `InflightLimiterProofs` | `TypeCorrect`, `SlotsNeverLeak`, `CeilingNeverExceeded`, `WakeupNeverLost`, `OnlyServedIsClean` | `TypeOK`, `SlotsAccounted`, `CeilingHolds`, `NoLostWakeup`, `CleanMeansServed` |
| | `ChatCleanAlwaysServed` | `ChatCleanIsServed`, its part for chats |
| | `CutNeverExceedsLoad`, `WideningNeedsEvidence` (action properties) | `CutMatchesLoad`, `WidensOnEvidence` |
| | `LimiterRefinesPool` (refinement) | `PoolSpec` |
| `BudgetLimiterProofs` | `TypeCorrect`, `ForwardLosesNoCharge` and `NoChargeLost`, `ForwardReloadsAreSingle` and `ReloadsAreSingle` | `TypeOK`, `NeverMisses`, `OneReload` |
| | `OnePeriodMovesForward` (action property) | `Forward` |
| `TPMLimiterProofs` | `TypeCorrect`, `NothingForgiven`, `AdmittedIsCharged` | `TokenTypeOK`, `SpendCounted`, `DebitLands` |
| `HedgedRaceProofs` | `TypeCorrect`, `OneRecordPerLaunch`, `ChargedOnce`, `LosersBlameless`, `WinnerHandedOver` | `RaceTypeOK`, `TrailNamesEveryLaunch`, `PromptChargedOnce`, `LosingIsNoFault`, `WinnerUncut` |
| | `RaceRefinesLedger` (refinement) | `RaceLedgerSpec` |
| `ModelRetirementProofs` | `TypeCorrect`, `OperatorHasLastWord`, `RetirementStands` (action property) | `RetireTypeOK`, `OperatorObeyed`, `StandsOnEvidence` |
| `QuotaPollingProofs` | `TypeCorrect`, `CacheNeverStale`, `OffNeverOverslept` | `PollTypeOK`, `CacheFresh`, `OffLoopIsWoken` |
| | `OffSpoiltByNudgesOnly` (action property) | `LateAdviceIsANudges` |
| `FleetSyncProofs` | `TypeCorrect`, `LaterImportWins`, `SyncRefinesSource` (refinement) | `TypeOK`, `LastImportStands`, `SourceSpec` |

Each module also has `Inductive`, that its `IInv` always holds (the budget's under `Forward`). What each `IInv` adds to the
property, and why:

- **Breaker.** That a wait goes by the ceilings in force is shown step by step from the
  clamps, and that it stays under them while none is lowered from the stamped values, bounded
  even while the settings ignore them (`WaitsOK`); that a seed carries a pin needs that no
  caller ever probes it (`AsksOK`); both need `NoResidueOf` for every circuit, tracked or
  not. `DarkHolds` rests on lemmas that outcomes, eviction and seeding pass a dark circuit
  by and that a re-target only lengthens it; `ReportedOncePerWindow` on every report having
  a window it was made in (`ReportsOK`); `RefusedHasRetry` on the least of the wakings of
  the circuits that block being one of theirs.
- **In-flight limiter.** That a count equals the number of holders needs that only attempts
  between send and settlement hold a slot (`ReqOK`, `SettledOK`). That no wakeup is lost
  needs, for a waiter half-way through its checks, that the candidates it has looked at have
  had no room since unless its channel was closed (`WaiterOK`). That only what was served is
  clean needs that while a chat answer is read nothing but its verdict can settle its slot
  (`VerdictOK`); that windows widen on evidence needs which states carry the clean flag
  (`CleanOK`). The refinement rests on the same invariant: a window's counter is the number
  of holders, so an admission judged by the counter is one judged by the holders, and an
  action that moves no slot and no allowance is a stutter.
- **Budget.** A charge that the figure took is lost only if a reload that missed it installs
  its sum, so what a running reload's sum misses must have been counted since it began
  (`ReloadOK`). That needs one reload at a time, and so that a reload which the period left
  behind is over before the new figure can be stale (`LeftBehind`, by its age), and that
  periods only move forward (`PeriodsOK`), which is where `Forward` comes in.
- **Token limiter.** A swept bucket comes back full, so it must have been whole: a ledger
  that did not owe more than the cutoff pays off has been paid back for every idle tick
  (`BookOK`, whose bound is a product of idle ticks and cap), and no bucket is idle while a
  request is busy with it (`BusyOK`). `DebitLands` needs that the memos of a request
  outlive what is left of its life, from the claim through the proxy's own read to the last
  chunk (`MemoOK`), and that the high-water mark covers the longest timeout ever read.
- **Hedged race.** The trail and the charges are about what is settled, waits in the channel
  or is still out, so a result waits there once and unsettled (`ResultsOK`), and every
  launch before `next` has started (`ProbesOK`). That losing is no fault needs that every
  loser is flagged before anything cancels it (`CancelOK`), and that the winner is not cut,
  that a win in hand stays uncut from the probe through the channel to the end
  (`ProbeOK`, `WinnerOK`). For the refinement it takes one thing more (`Unserved`): until it
  serves, the race has no record for its winner.
- **Retirement.** That the operator is obeyed needs what a lock on the row preserves
  (`LockOK`) and the marks an edit leaves in it (`OperatorOK`). That a retirement stands
  needs that the cooldown outlives the job, so that no second claim wipes its tombstone, and
  that the streak counts no refusal older than the last answer (`EvidenceOK`).
- **Settings cache.** A fill whose generation still lets it in carries the row as it is, or
  an eviction to come undoes it (`FillOK`). That a loop which is off is woken (`WakeOK`)
  needs a sharper form of it, in which that eviction is one of a write the loop will hear of
  (`SharpOK`), where the loop reads (`WhereOK`), and that an "off" it has read or runs by is
  the row's unless something is on its way to it (`OffOK`).
- **Fleet sync.** Every pass and every import carries a generation together with the source
  that it names (`PassOK`, `ImportsOK`), though the fleet may have been repointed or
  disbanded since; a member's sections are those of the last import to commit or still to be
  written by it (`SectionOK`), because only that import is live (`LiveOK`) and each pass
  awaits one (`AwaitsOK`). With that every step of `FleetSync` is a step of `FleetSource`
  or a stutter.

Only model-checked:

- the liveness properties (`NoPermanentDarkness`, `SeedRetired`, `RoomWakesWaiter`,
  `Settles`, `Answers`, `RaceReleases`, `ModelRetires`, `IntervalAdopted`,
  `FleetConverges`): fairness and `ENABLED` are outside the prover's reach. `OffLoopIsWoken`
  is the safety half of `IntervalAdopted`, and is proved;
- the properties the five violating runs refute.

The type invariants of the limiters, the race, the retirement and the poll loop are proved
and not in a run: `TypeCorrect` says all that TLC would.

The proofs made the model more precise in a few places: overlapping guards of a `CASE`,
which leave the value open, became `IF`s (`FleetSync`, `ModelRetirement`, `TPMLimiter`);
the order in which `cancelExcept` reaches the losers, a fixed `CHOOSE` before, is any order;
and types that were left implicit are stated (`TokenEntry`, `CapMemo`, `Attempt`). The attempt
to prove `OffLoopIsWoken` found `lost` cleared too early: with three upsets a write's event
could clear it while a failed write's late eviction was still to come.

## Findings

1. `failover/circuitbreaker.go:264`. A circuit that another goroutine probes and re-opens
   while `IsOpen` is between its locks is not seen by the write-locked half, which answers
   with the provider-wide verdict alone. The comment of `IsOpen` promises the model's own
   circuit too. One extra request gets through; it is recorded as any other.
2. `proxy/multimodal.go:331`, `proxy/multimodal_attempt.go:221`. On the last candidate a
   pass-through answer judged empty or an error is charged to the breaker, but its slot
   is settled clean by the close of the body, which the comment at `multimodal.go:235`
   sets out to prevent: the provider's window may widen on a failure.
3. `budget/limiter.go:293`. A reload recognises its period by the start date only. If the
   budget's period is edited while requests that carry the old one are under way, the
   entry can roll away and back under a reload, and the figure it installs misses a
   charge, which the comment at `limiter.go:281` excludes. It needs overlapping charges
   past the re-run bound within one read, and the next reload corrects it. Rolling back is
   the whole of it: `ForwardLosesNoCharge` proves that no other edit loses a charge.
4. `frontdesk/autosync.go:524`. A pass that meets the primary goes on to the next member
   without dropping what `syncIncomplete` remembers about it. A replica flagged diverged
   and then designated primary stays flagged, and the fleet degraded (`fleetstate.go:305`),
   until Front Desk restarts.
5. `api/quota_snapshot.go:307`. A nudge's refresh that read a positive interval before the
   operator saved 0 publishes its advice after the loop has cleared it. The loop clears
   once, so it stays until polling is switched on again.
   Only a nudge brings advice back: `OffSpoiltByNudgesOnly`.

Seen while modelling, without a run of their own:

- With two periods in play a first-sight read may be repeated each time the other period's
  requests roll the entry (`limiter.go:235`); `Answers` is claimed, and checked, for one
  period.
- The comment of `signalRearm` (`frontdesk/server_settings.go:469`) says the watcher
  confirms that the generation moved before it cancels; `watchRearm`
  (`autosync_rearm.go:60`) cancels on any wake. It costs a pass, which the next makes up.
- The idle sweep of the token limiter forgives a debt that takes more than ten minutes to
  pay off, which `SpendCounted` excludes (`deep`), as after a response of more than eleven
  minutes' budget or a cap lowered far below what is owed.
- A token handed back after a refusal is not restored when a later reservation on the same
  owner bucket counts on it (`Restores`), so that concurrent refusals may each cost the
  owner a token.

## Not modelled

Coverage is a choice here. The repository is large, and most of it is sequential code over
one request or one row, which its tests reach: dialect translation, discovery, the
administration handlers (one transaction each), authentication and sessions
(cryptography and database reads), streaming transforms (bytes in, bytes out), request
logs, metrics, events and alerts (best effort by design), configuration and the front ends.
A model of those would restate the code without an interleaving, a fault or an ordering to
check. Of the parts that do have one, these are left:

- the request-rate and address limiters (`ratelimit/limiter.go`, `ip_limiter.go`): the
  admission half of `TPMLimiter` with no completion half;
- the provider and key caches, which have the generation fence of `SettingsCache`;
- holds for build skew and the members' announcements in fleet sync;
- the one-shot retry of the last candidate, and the classification of upstream answers.

## Plan

Every safety invariant, safety action property and refinement that a passing run checks has
a theorem. What is left for the proofs is to shorten them (the lemmas that a step moves one
request are alike in `InflightLimiterProofs`, `HedgedRaceProofs` and `TPMLimiterProofs`).
For the models it is the parts listed above that have an interleaving of their own:
the provider and key caches on the fence of `SettingsCache`, and the holds of fleet sync.
Liveness, `ENABLED` and whatever is defined by recursion stay with TLC.
