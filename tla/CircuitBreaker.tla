--------------------------- MODULE CircuitBreaker ---------------------------
(***************************************************************************)
(* The circuit breaker of internal/failover for one provider: a circuit    *)
(* per resolved upstream model, the provider-wide verdict derived from     *)
(* them, probe backoff, quota pins and the circuit a quota reading seeds.  *)
(* Providers share nothing but the settings, so one provider is the whole  *)
(* breaker.                                                                *)
(*                                                                         *)
(* Every operation runs under cb.mu and is one action, except IsOpen,      *)
(* which drops the read lock before it takes the write lock and so is two. *)
(*                                                                         *)
(* Instants are kept as ages.  openAge is time.Since(openedAt), the two    *)
(* windows are the ages of their starts, an advice is the time left to its *)
(* reset.  Every duration the code compares an age with is at most         *)
(* Horizon, so an age is not counted past it, and the passage of time      *)
(* needs no bound.                                                         *)
(*                                                                         *)
(* Left out, because no decision of the breaker reads them: the last       *)
(* verdict of a circuit (lastCause, lastStatus, lastAt), the names map and *)
(* lastSuccess, which only the caller's classification of a 429 reads      *)
(* (here any outcome may follow any other).                                *)
(***************************************************************************)
EXTENDS Integers, FiniteSets

CONSTANTS
    Models,        \* resolved upstream model ids requests are routed to
    Seed,          \* the reserved key "(account quota)", never routed to
    Callers,       \* request goroutines asking IsOpen
    Configs,       \* the settings the operator may choose between
    Hints,         \* pinHint of an exhausted answer; 0 is no hint
    Readings,      \* what a quota pass may have found for the provider
    Jitters,       \* draws of rand.Int64N, cut to the spread allowed
    Spread,        \* a pin is spread by up to 1/Spread of itself (20)
    SeedSteps,     \* a probeSeed is one of the fractions i/SeedSteps
    MaxCircuits,   \* maxModelCircuitsPerProvider (256)
    ReopenWindow,  \* reopenWindow (24h)
    OpensBeforeEscalation,  \* opensBeforeEscalation (3)
    HalfOpenMaxProbes,      \* HalfOpenMaxProbes (1)
    Horizon,       \* no wait reaches beyond it; ages stop counting here
    MaxFailedProbes         \* failedProbes stops counting here

Keys == Models \cup {Seed}

(***************************************************************************)
(* The settings the breaker reads.  A ceiling or an interval of zero       *)
(* switches its feature off.                                               *)
(***************************************************************************)
Config ==
    [ threshold  : Nat \ {0},   \* circuit_breaker_threshold
      span       : Nat \ {0},   \* circuit_breaker_span_models
      cooldown   : Nat \ {0},   \* circuit_breaker_cooldown
      backoffMax : Nat,         \* circuit_breaker_backoff_max
      pinMax     : Nat,         \* circuit_breaker_quota_pin_max
      pinProbe   : Nat ]        \* circuit_breaker_pin_probe_interval

(* The advisor's entry: whether there is one, the time left to the reset   *)
(* (0 once it is past, or when the reading had no date) and whether the    *)
(* operator's reserve drew the line rather than the window's cap.          *)
Advice == [known : BOOLEAN, resetsIn : Nat, reserved : BOOLEAN]
NoAdvice == [known |-> FALSE, resetsIn |-> 0, reserved |-> FALSE]
AdviceFor(resetsIn, reserved) ==
    [known |-> TRUE, resetsIn |-> resetsIn, reserved |-> reserved]

ASSUME KeysAssumption == Seed \notin Models /\ IsFiniteSet(Models)

ASSUME ConfigsAssumption == Configs \subseteq Config /\ Configs # {}

ASSUME BoundsAssumption ==
    /\ Hints \subseteq Nat /\ Readings \subseteq Advice
    /\ Jitters \subseteq Nat /\ Jitters # {}
    /\ Spread \in Nat \ {0} /\ SeedSteps \in Nat \ {0}
    /\ MaxCircuits \in Nat \ {0} /\ ReopenWindow \in Nat
    /\ OpensBeforeEscalation \in Nat \ {0}
    /\ HalfOpenMaxProbes \in Nat \ {0}
    /\ MaxFailedProbes \in Nat \ {0}

Smaller(a, b) == IF a <= b THEN a ELSE b
Larger(a, b)  == IF a >= b THEN a ELSE b

(* The longest wait settings allow when it is stamped: the cooldown, the   *)
(* backoff ceiling, or the pin ceiling with its jitter on top.             *)
Ceiling(s) ==
    Larger(s.cooldown, Larger(s.backoffMax, s.pinMax + (s.pinMax \div Spread)))

(* Horizon is beyond every wait the settings allow. *)
ASSUME HorizonAssumption ==
    Horizon \in Nat /\ \A s \in Configs : Ceiling(s) <= Horizon

VARIABLES
    circuits,  \* cb.circuits[provider]: a circuit, or Untracked, per key
    settings,  \* the settings in force
    advice,    \* what the quota advisor holds for the provider
    asks       \* per caller, where it is in IsOpen and what it was told

vars == <<circuits, settings, advice, asks>>

(* "none" is the empty string. *)
PinSources == {"none", "advisor", "reserve", "response", "account"}
NoWindow   == -1

Circuit ==
    [ state            : {"untracked", "closed", "open", "half-open"},
      consecutiveFails : Nat,
      openAge          : 0..Horizon,
      halfOpenProbes   : Nat,
      cooldownOverride : Nat,
      pinSource        : PinSources,
      probeSeed        : 0..(SeedSteps - 1),
      failedProbes     : 0..MaxFailedProbes,
      cooldownBackoff  : Nat,
      opens429Streak   : 0..OpensBeforeEscalation,
      open429Window    : NoWindow..(ReopenWindow + 1),
      opens            : 0..OpensBeforeEscalation,
      openWindow       : NoWindow..(ReopenWindow + 1),
      unstableReported : BOOLEAN ]

(* The zero circuit of getOrCreate, and the absence of one. *)
Fresh ==
    [ state |-> "closed", consecutiveFails |-> 0, openAge |-> 0,
      halfOpenProbes |-> 0, cooldownOverride |-> 0, pinSource |-> "none",
      probeSeed |-> 0, failedProbes |-> 0, cooldownBackoff |-> 0,
      opens429Streak |-> 0, open429Window |-> NoWindow,
      opens |-> 0, openWindow |-> NoWindow, unstableReported |-> FALSE ]
Untracked == [Fresh EXCEPT !.state = "untracked"]

Idle    == [pc |-> "idle", model |-> Seed]
AskType == [pc : {"idle", "relock", "admitted", "refused"}, model : Keys]

CountTo(n, bound) == IF n < bound THEN n + 1 ELSE bound

-----------------------------------------------------------------------------
(***************************************************************************)
(* Cooldowns.  s is the walk's reading of the settings (cooldownReads).    *)
(***************************************************************************)
PinProbes(source)           == source \in {"response", "account"}
PinSpeaksForAccount(source) == source \in {"advisor", "reserve", "account"}
(* Fault: the reserve pin is stamped with a name nothing recognises. *)
MisnamedSource(reserved) == IF reserved THEN "reserved" ELSE "advisor"
AdvisorPinSource(reserved)  == IF reserved THEN "reserve" ELSE "advisor"

BackedOff(c, s)   == c.cooldownBackoff > s.cooldown /\ s.backoffMax > 0
QuotaPinned(c, s) == c.cooldownOverride > 0 /\ s.pinMax > 0

UnpinnedCooldown(c, s) ==
    IF BackedOff(c, s) THEN c.cooldownBackoff ELSE s.cooldown

(* How far into the interval this circuit's own seed pushes its probe. *)
ProbeOffset(c, s) == (c.probeSeed * s.pinProbe) \div (SeedSteps * Spread)

EffectiveCooldown(c, s) ==
    LET unpinned == UnpinnedCooldown(c, s)
        pinned   == c.cooldownOverride
    IN  IF ~QuotaPinned(c, s) \/ pinned <= unpinned THEN unpinned
        ELSE IF PinProbes(c.pinSource) /\ s.pinProbe > 0
        THEN Smaller(pinned, Larger(s.pinProbe, unpinned) + ProbeOffset(c, s))
        ELSE pinned

StillDark(c, s) == c.openAge < EffectiveCooldown(c, s)
Blocking(c, s)  == c.state = "open" /\ StillDark(c, s)

-----------------------------------------------------------------------------
(***************************************************************************)
(* The provider-wide verdict.                                              *)
(***************************************************************************)
Tracked(cs)     == {k \in Keys : cs[k].state # "untracked"}
Blocked(cs, s)  == {k \in Keys : Blocking(cs[k], s)}

AccountPinned(cs, s) ==
    \E k \in Blocked(cs, s) :
        QuotaPinned(cs[k], s) /\ PinSpeaksForAccount(cs[k].pinSource)

ProviderOpen(cs, s) ==
    AccountPinned(cs, s) \/ Cardinality(Blocked(cs, s)) >= s.span

(* BlockedUntil: the time left until the pair may be let through, or       *)
(* NotBlocked.                                                             *)
NotBlocked == -1
WaitOf(c, s) == EffectiveCooldown(c, s) - c.openAge

(* Fault: the pin arm of the provider verdict is forgotten. *)
BlockedUntilBySpan(cs, s, m) ==
    IF Blocking(cs[m], s) THEN WaitOf(cs[m], s)
    ELSE IF Cardinality(Blocked(cs, s)) < s.span THEN NotBlocked ELSE 1

BlockedUntil(cs, s, m) ==
    IF Blocking(cs[m], s) THEN WaitOf(cs[m], s)
    ELSE IF ~ProviderOpen(cs, s) THEN NotBlocked
    ELSE LET waits == {WaitOf(cs[k], s) : k \in Blocked(cs, s)}
         IN  CHOOSE w \in waits : \A v \in waits : w <= v

-----------------------------------------------------------------------------
(***************************************************************************)
(* What the operations do to one circuit.                                  *)
(***************************************************************************)

(* probeIfCooldownElapsed.  The age of an open that is over is forgotten:  *)
(* nothing reads it again.                                                 *)
ProbeIfCooldownElapsed(c, s) ==
    IF c.state = "open" /\ ~StillDark(c, s)
    THEN [c EXCEPT !.state = "half-open", !.halfOpenProbes = 0, !.openAge = 0]
    ELSE c

(* Fault: a report clears the window instead of marking it. *)
ReportClearsWindow(c) ==
    IF c.openWindow \notin 0..ReopenWindow \/ c.unstableReported
    THEN [c EXCEPT !.openWindow = 0, !.opens = 1, !.unstableReported = FALSE]
    ELSE LET n == CountTo(c.opens, OpensBeforeEscalation)
         IN  [c EXCEPT !.opens = n, !.unstableReported = n >= OpensBeforeEscalation]

(* noteOpen: three opens inside one window are reported, once.  The count  *)
(* stops at the third, beyond which only the report flag matters.          *)
NoteOpen(c) ==
    IF c.openWindow \notin 0..ReopenWindow
    THEN [c EXCEPT !.openWindow = 0, !.opens = 1, !.unstableReported = FALSE]
    ELSE LET n == CountTo(c.opens, OpensBeforeEscalation)
         IN  [c EXCEPT !.opens = n,
                       !.unstableReported = @ \/ n >= OpensBeforeEscalation]

Clear429Escalation(c) ==
    [c EXCEPT !.opens429Streak = 0, !.open429Window = NoWindow]

Note429Open(c, by429) ==
    IF ~by429 THEN Clear429Escalation(c)
    ELSE IF c.open429Window \notin 0..ReopenWindow
    THEN [c EXCEPT !.open429Window = 0, !.opens429Streak = 1]
    ELSE [c EXCEPT !.opens429Streak = CountTo(@, OpensBeforeEscalation)]

ExhaustedEscalated(c) == c.opens429Streak >= OpensBeforeEscalation

(* The loop of applyBackoff doubles the base once per failed probe and     *)
(* stops at the ceiling.                                                   *)
ApplyBackoff(c, s) ==
    LET ceiling == IF ExhaustedEscalated(c)
                   THEN Larger(s.backoffMax, s.pinMax) ELSE s.backoffMax
        doubled == s.cooldown * 2^c.failedProbes
        stamped == c.failedProbes # 0 /\ s.backoffMax > 0 /\ ceiling > s.cooldown
    IN  [c EXCEPT !.cooldownBackoff =
            IF ~stamped THEN 0
            ELSE IF doubled \in 1..ceiling THEN doubled ELSE ceiling]

(* Fault: the ceiling is not applied. *)
UncappedPin(d, ceiling, floor, jitter) ==
    IF d <= floor THEN 0 ELSE d + Smaller(jitter, d \div Spread)

(* clampPin: ceiling, floor, then the jitter.  Zero is a rejected pin. *)
ClampPin(d, ceiling, floor, jitter) ==
    LET capped == Smaller(d, ceiling)
    IN  IF capped <= floor THEN 0
        ELSE capped + Smaller(jitter, capped \div Spread)

(* applyQuotaPin: a datable future reading of the advisor beats the hint   *)
(* of the refusal itself.                                                  *)
ApplyQuotaPin(c, s, adv, hint, account, jitter, seed) ==
    LET measured == adv.known /\ adv.resetsIn > 0
        source == IF measured THEN AdvisorPinSource(adv.reserved)
                  ELSE IF account THEN "account" ELSE "response"
        pin == ClampPin(IF measured THEN adv.resetsIn ELSE hint,
                        s.pinMax, UnpinnedCooldown(c, s), jitter)
    IN  IF s.pinMax > 0 /\ pin > 0
        THEN [c EXCEPT !.cooldownOverride = pin, !.pinSource = source,
                       !.probeSeed = seed]
        ELSE [c EXCEPT !.cooldownOverride = 0, !.pinSource = "none"]

(* openCircuit: the streak before the backoff, because the open that       *)
(* earns the escalation gets its ceiling; the backoff before the pin,      *)
(* which it floors.                                                        *)
OpenCircuit(c, s, adv, by429, hint, account, jitter, seed) ==
    LET opened == Note429Open([c EXCEPT !.state = "open", !.openAge = 0], by429)
    IN  NoteOpen(ApplyQuotaPin(ApplyBackoff(opened, s),
                               s, adv, hint, account, jitter, seed))

FailProbe(c, s) ==
    [c EXCEPT !.consecutiveFails = s.threshold,
              !.failedProbes = CountTo(@, MaxFailedProbes)]

(* recordFailure, past probeIfCooldownElapsed. *)
Failed(c, s, adv, by429, jitter, seed) ==
    LET charged == [c EXCEPT !.consecutiveFails = @ + 1]
    IN  IF c.state = "open" THEN c
        ELSE IF c.state = "half-open"
        THEN OpenCircuit(FailProbe(c, s), s, adv, by429, 0, FALSE, jitter, seed)
        ELSE IF c.consecutiveFails + 1 >= s.threshold
        THEN OpenCircuit(charged, s, adv, by429, 0, FALSE, jitter, seed)
        ELSE charged

(* recordExhausted, past probeIfCooldownElapsed.  A refused probe that the *)
(* interval of a response pin let through is not counted.                  *)
Exhausted(c, s, adv, by429, hint, account, jitter, seed) ==
    LET paced   == PinProbes(c.pinSource) /\ s.pinProbe > 0
        charged == IF c.state = "half-open" /\ ~paced THEN FailProbe(c, s)
                   ELSE [c EXCEPT !.consecutiveFails = s.threshold]
    IN  IF c.state = "open" THEN c
        ELSE OpenCircuit(charged, s, adv, by429, hint, account, jitter, seed)

(* Fault: a succeeded probe leaves the failed ones counted. *)
CloseKeepsFailedProbes(c) ==
    [c EXCEPT !.state = "closed", !.consecutiveFails = 0, !.halfOpenProbes = 0,
              !.cooldownOverride = 0, !.pinSource = "none", !.cooldownBackoff = 0,
              !.opens429Streak = 0, !.open429Window = NoWindow]

(* recordSuccess, past probeIfCooldownElapsed. *)
CloseCircuit(c) ==
    Clear429Escalation(
        [c EXCEPT !.state = "closed", !.consecutiveFails = 0,
                  !.halfOpenProbes = 0, !.cooldownOverride = 0,
                  !.pinSource = "none", !.failedProbes = 0, !.cooldownBackoff = 0])

Succeeded(c) ==
    IF c.state = "open" THEN c
    ELSE IF c.state = "closed" THEN [c EXCEPT !.consecutiveFails = 0]
    ELSE IF c.halfOpenProbes + 1 >= HalfOpenMaxProbes THEN CloseCircuit(c)
    ELSE [c EXCEPT !.halfOpenProbes = @ + 1]

ReleasePin(c) == [c EXCEPT !.cooldownOverride = 0, !.pinSource = "none"]

(* Fault: a reading that changes no wait renames any pin, not only a       *)
(* measured one.                                                           *)
RetargetRenamesAny(c, s, adv, jitter) ==
    LET pin == ClampPin(adv.resetsIn + c.openAge, s.pinMax,
                        EffectiveCooldown(c, s), jitter)
        source == AdvisorPinSource(adv.reserved)
    IN  IF ~Blocking(c, s) \/ c.cooldownOverride + pin = 0 THEN c
        ELSE IF pin > 0
        THEN [c EXCEPT !.cooldownOverride = pin, !.pinSource = source]
        ELSE [c EXCEPT !.pinSource = source]

(* Fault: the ceiling is measured from now, the pin from openedAt. *)
RetargetCapFromNow(c, s, adv, jitter) ==
    LET pin == ClampPin(adv.resetsIn + c.openAge, s.pinMax + c.openAge,
                        EffectiveCooldown(c, s), jitter)
    IN  IF Blocking(c, s) /\ pin > 0
        THEN [c EXCEPT !.cooldownOverride = pin,
                       !.pinSource = AdvisorPinSource(adv.reserved)] ELSE c

(* The body of ApplyQuotaPins' inner loop for a circuit open right now.    *)
(* The new pin is measured from openedAt, like the cooldown it replaces.   *)
Retarget(c, s, adv, jitter) ==
    LET pin == ClampPin(adv.resetsIn + c.openAge, s.pinMax,
                        EffectiveCooldown(c, s), jitter)
        source == AdvisorPinSource(adv.reserved)
        measured == c.cooldownOverride > 0 /\ c.pinSource \in {"advisor", "reserve"}
    IN  IF ~Blocking(c, s) THEN c
        ELSE IF pin > 0 THEN [c EXCEPT !.cooldownOverride = pin, !.pinSource = source]
        ELSE IF measured THEN [c EXCEPT !.pinSource = source] ELSE c

-----------------------------------------------------------------------------
(***************************************************************************)
(* What they do to the provider's map.                                     *)
(***************************************************************************)

(* Fault: any circuit may be evicted, an open one included. *)
EvictsAny(cs, k) ==
    IF cs[k].state # "untracked" THEN {cs}
    ELSE IF Cardinality(Tracked(cs)) >= MaxCircuits
    THEN {[cs EXCEPT ![v] = Untracked, ![k] = Fresh] : v \in Tracked(cs)}
    ELSE {[cs EXCEPT ![k] = Fresh]}

(* getOrCreate with evictIfFull, as the set of maps it may leave.  Only a  *)
(* closed circuit makes room.  The code drops the least recently charged   *)
(* one; here any of them.                                                  *)
GetOrCreate(cs, k) ==
    LET closed == {j \in Keys : cs[j].state = "closed"}
        full   == Cardinality(Tracked(cs)) >= MaxCircuits
    IN  IF cs[k].state # "untracked" THEN {cs}
        ELSE IF full /\ closed # {}
        THEN {[cs EXCEPT ![v] = Untracked, ![k] = Fresh] : v \in closed}
        ELSE {[cs EXCEPT ![k] = Fresh]}

(* Fault: the seeded circuit is released but not retired. *)
ReleasedUnretired(cs, lifted) ==
    [k \in Keys |-> IF k \in lifted THEN ReleasePin(cs[k]) ELSE cs[k]]

(* releasePin on every circuit whose pin is lifted, and retireIfSeeded: a  *)
(* seeded circuit does not outlive its pin.                                *)
Released(cs, lifted) ==
    [k \in Keys |-> IF k \notin lifted THEN cs[k]
                    ELSE IF k = Seed THEN Untracked ELSE ReleasePin(cs[k])]

SweepExpiredSeeds(cs, s) ==
    IF cs[Seed].state # "untracked" /\ ~Blocking(cs[Seed], s)
    THEN [cs EXCEPT ![Seed] = Untracked] ELSE cs

(* seedQuotaPin, as the set of maps it may leave. *)
SeedQuotaPin(cs, s, adv, jitter, seed) ==
    LET pin == ClampPin(adv.resetsIn, s.pinMax, s.cooldown, jitter)
    IN  IF AccountPinned(cs, s) \/ pin = 0 THEN {cs}
        ELSE {[room EXCEPT ![Seed] =
                 [@ EXCEPT !.state = "open", !.openAge = 0,
                           !.consecutiveFails = s.threshold,
                           !.cooldownOverride = pin,
                           !.pinSource = AdvisorPinSource(adv.reserved),
                           !.probeSeed = seed]] : room \in GetOrCreate(cs, Seed)}

-----------------------------------------------------------------------------
Init ==
    /\ circuits = [k \in Keys |-> Untracked]
    /\ settings \in Configs
    /\ advice = NoAdvice
    /\ asks = [a \in Callers |-> Idle]

(***************************************************************************)
(* IsOpen.  IsOpenRead is the read-locked half: it answers, or finds an    *)
(* open circuit whose cooldown has elapsed and goes for the write lock.    *)
(* IsOpenWrite is the write-locked half: it reads the circuit again,       *)
(* starts the probe if it is still due, and answers with the provider-wide *)
(* verdict alone.                                                          *)
(***************************************************************************)
Answer(m, open) == [pc |-> IF open THEN "refused" ELSE "admitted", model |-> m]

IsOpenRead(a, m) ==
    LET c == circuits[m]
    IN  /\ asks[a].pc # "relock"
        /\ asks' = [asks EXCEPT ![a] =
               IF c.state # "open" THEN Answer(m, ProviderOpen(circuits, settings))
               ELSE IF StillDark(c, settings) THEN Answer(m, TRUE)
               ELSE [pc |-> "relock", model |-> m]]
        /\ UNCHANGED <<circuits, settings, advice>>

IsOpenWrite(a) ==
    LET m == asks[a].model
        cs == [circuits EXCEPT ![m] = ProbeIfCooldownElapsed(@, settings)]
    IN  /\ asks[a].pc = "relock"
        /\ circuits' = cs
        /\ asks' = [asks EXCEPT ![a] = Answer(m, ProviderOpen(cs, settings))]
        /\ UNCHANGED <<settings, advice>>

(***************************************************************************)
(* The outcomes of requests.  A direct provider/model request records one  *)
(* without asking IsOpen first, and a slow one records it long after, so   *)
(* any outcome may land on any circuit at any time.                        *)
(***************************************************************************)
RecordFailure(m, by429) ==
    /\ \E cs \in GetOrCreate(circuits, m), j \in Jitters, x \in 0..(SeedSteps - 1) :
          circuits' = [cs EXCEPT ![m] =
              Failed(ProbeIfCooldownElapsed(@, settings), settings, advice, by429, j, x)]
    /\ UNCHANGED <<settings, advice, asks>>

RecordExhausted(m, by429, hint, account) ==
    /\ \E cs \in GetOrCreate(circuits, m), j \in Jitters, x \in 0..(SeedSteps - 1) :
          circuits' = [cs EXCEPT ![m] =
              Exhausted(ProbeIfCooldownElapsed(@, settings), settings, advice,
                        by429, hint, account, j, x)]
    /\ UNCHANGED <<settings, advice, asks>>

RecordSaturated(m) ==
    /\ \E cs \in GetOrCreate(circuits, m) :
          circuits' = [cs EXCEPT ![m] = ProbeIfCooldownElapsed(@, settings)]
    /\ UNCHANGED <<settings, advice, asks>>

RecordSuccess(m) ==
    /\ \E cs \in GetOrCreate(circuits, m) :
          circuits' = [cs EXCEPT ![m] = Succeeded(ProbeIfCooldownElapsed(@, settings))]
    /\ UNCHANGED <<settings, advice, asks>>

(* Fault: nothing is swept, and a seed that is there is taken for a pin.   *)
SeedsOnce(adv) ==
    /\ IF ~adv.known \/ settings.pinMax = 0 THEN circuits' = circuits
       ELSE \E j \in [Keys -> Jitters], x \in 0..(SeedSteps - 1) :
              LET pinned == [k \in Keys |-> Retarget(circuits[k], settings, adv, j[k])]
              IN  circuits' \in IF pinned[Seed].state # "untracked" THEN {pinned}
                                ELSE SeedQuotaPin(pinned, settings, adv, j[Seed], x)
    /\ UNCHANGED <<settings, advice, asks>>

(***************************************************************************)
(* The quota poller.  adv is the provider's entry in the map it built.     *)
(***************************************************************************)
ApplyQuotaPins(adv) ==
    /\ LET swept == SweepExpiredSeeds(circuits, settings)
       IN  IF ~adv.known \/ settings.pinMax = 0 THEN circuits' = swept
           ELSE \E j \in [Keys -> Jitters], x \in 0..(SeedSteps - 1) :
                  LET pinned == [k \in Keys |-> Retarget(swept[k], settings, adv, j[k])]
                  IN  circuits' \in SeedQuotaPin(pinned, settings, adv, j[Seed], x)
    /\ UNCHANGED <<settings, advice, asks>>

ReplaceAdvice(adv) ==
    /\ advice' = adv
    /\ UNCHANGED <<circuits, settings, asks>>

(* A recovered reading lifts the pins that speak for the account and the   *)
(* 429 escalation of every circuit.                                        *)
ReleaseQuotaPins ==
    /\ LET cleared == [k \in Keys |-> Clear429Escalation(circuits[k])]
       IN  circuits' = Released(cleared, {k \in Keys :
                           /\ circuits[k].cooldownOverride # 0
                           /\ PinSpeaksForAccount(circuits[k].pinSource)})
    /\ UNCHANGED <<settings, advice, asks>>

ReleaseAllQuotaPins ==
    /\ circuits' = Released(circuits, {k \in Keys : circuits[k].cooldownOverride # 0})
    /\ UNCHANGED <<settings, advice, asks>>

(***************************************************************************)
(* The operator: manual resets and settings.                               *)
(***************************************************************************)
ResetModel(k) ==
    /\ circuits' = [circuits EXCEPT ![k] = Untracked]
    /\ UNCHANGED <<settings, advice, asks>>

Reset ==
    /\ circuits' = [k \in Keys |-> Untracked]
    /\ UNCHANGED <<settings, advice, asks>>

ChangeSettings(s) ==
    /\ settings' = s
    /\ UNCHANGED <<circuits, advice, asks>>

(***************************************************************************)
(* The passage of one unit of time.                                        *)
(***************************************************************************)
Older(window) ==
    IF window = NoWindow THEN NoWindow ELSE CountTo(window, ReopenWindow + 1)

Aged(c) ==
    [c EXCEPT !.openAge = IF c.state = "open" THEN CountTo(@, Horizon) ELSE @,
              !.open429Window = Older(@), !.openWindow = Older(@)]

Tick ==
    /\ circuits' = [k \in Keys |-> Aged(circuits[k])]
    /\ advice' = [advice EXCEPT !.resetsIn = IF @ > 0 THEN @ - 1 ELSE 0]
    /\ UNCHANGED <<settings, asks>>

Next ==
    \/ \E a \in Callers, m \in Models : IsOpenRead(a, m)
    \/ \E a \in Callers : IsOpenWrite(a)
    \/ \E m \in Models, by429 \in BOOLEAN : RecordFailure(m, by429)
    \/ \E m \in Models, by429, account \in BOOLEAN, hint \in Hints :
           RecordExhausted(m, by429, hint, account)
    \/ \E m \in Models : RecordSaturated(m) \/ RecordSuccess(m)
    \/ \E adv \in Readings : ApplyQuotaPins(adv) \/ ReplaceAdvice(adv)
    \/ ReleaseQuotaPins \/ ReleaseAllQuotaPins
    \/ \E k \in Keys : ResetModel(k)
    \/ Reset
    \/ \E s \in Configs : ChangeSettings(s)
    \/ Tick

(* Time passes, a goroutine waiting for the write lock gets it, and the    *)
(* quota loop keeps making passes.                                         *)
Fairness ==
    /\ WF_vars(Tick)
    /\ \A a \in Callers : WF_vars(IsOpenWrite(a))
    /\ WF_vars(\E adv \in Readings : ApplyQuotaPins(adv))

Spec == Init /\ [][Next]_vars
FairSpec == Spec /\ Fairness

-----------------------------------------------------------------------------
(***************************************************************************)
(* Properties.                                                             *)
(***************************************************************************)

TypeOK ==
    /\ circuits \in [Keys -> Circuit]
    /\ settings \in Configs
    /\ advice \in Advice
    /\ asks \in [Callers -> AskType]

(* A circuit that closes, or is forgotten, keeps nothing of the incident:  *)
(* no pin, no backoff, no failed probes, no 429 streak, so the next open   *)
(* starts from the configured cooldown.  A pin always has a source and a   *)
(* source a pin, and a backoff always has a failed probe behind it         *)
(* (recordSuccess, releasePin, applyQuotaPin, applyBackoff).               *)
NoResidueOf(c) ==
    /\ c.state = "untracked" => c = Untracked
    /\ c.state = "closed" =>
          /\ c.cooldownOverride = 0 /\ c.cooldownBackoff = 0
          /\ c.failedProbes = 0 /\ c.opens429Streak = 0
    /\ c.cooldownOverride = 0 <=> c.pinSource = "none"
    /\ c.cooldownBackoff > 0 => c.failedProbes > 0
NoResidue == \A k \in Keys : NoResidueOf(circuits[k])

(* The circuit a quota reading seeds exists only to carry the advisor's    *)
(* pin: it is open under a measured pin or it is not there, never closed,  *)
(* half-open or bare, states no request would ever move it out of          *)
(* (retireIfSeeded, sweepExpiredSeeds).                                    *)
SeedOnlyCarriesPin ==
    \/ circuits[Seed] = Untracked
    \/ /\ circuits[Seed].state = "open"
       /\ circuits[Seed].cooldownOverride > 0
       /\ circuits[Seed].pinSource \in {"advisor", "reserve"}
       /\ circuits[Seed].failedProbes = 0

(* A wait that begins, or that a quota reading lengthens, is within the    *)
(* ceilings in force at that moment, whatever failed probes, pins and      *)
(* settings came before (applyBackoff, clampPin, ApplyQuotaPins).  It is   *)
(* said of the step that stamps the wait: a stamped pin or backoff is not  *)
(* clamped again, so a ceiling lowered later, but not to zero, leaves the  *)
(* waits under way as they are (effectiveCooldownForWith).                 *)
WaitGrows(d, c, s) ==
    /\ d.state = "open"
    /\ \/ c.state # "open"
       \/ d.openAge < c.openAge
       \/ EffectiveCooldown(d, s) > EffectiveCooldown(c, s)
WaitBounded ==
    [][\A k \in Keys : WaitGrows(circuits'[k], circuits[k], settings) =>
          EffectiveCooldown(circuits'[k], settings) <= Ceiling(settings)]_vars

(* A circuit inside its cooldown stays dark at least as long as it was     *)
(* going to: no outcome, late or early, no eviction, no quota reading and  *)
(* no question of IsOpen shortens the wait.  Only time, a reset, a release *)
(* or the operator's settings do.                                          *)
Lifting ==
    \/ Tick \/ Reset \/ ReleaseQuotaPins \/ ReleaseAllQuotaPins
    \/ \E k \in Keys : ResetModel(k)
    \/ \E s \in Configs : ChangeSettings(s)
DarkHolds ==
    [][Lifting \/ \A k \in Keys :
          Blocking(circuits[k], settings) =>
              /\ Blocking(circuits'[k], settings)
              /\ WaitOf(circuits'[k], settings) >= WaitOf(circuits[k], settings)]_vars

(* A circuit comes to speak for the whole account only on evidence about   *)
(* the account: a refusal of the account, or a reading whose reset is      *)
(* still ahead.  A model's own refusal is never promoted by a reading that *)
(* is out of date (applyQuotaPin, ApplyQuotaPins).                         *)
Speaks(c) == PinSpeaksForAccount(c.pinSource)
AccountPinNeedsEvidence ==
    [][(\E k \in Keys : Speaks(circuits'[k]) /\ ~Speaks(circuits[k])) =>
          \/ advice.known /\ advice.resetsIn > 0
          \/ \E m \in Models, by429 \in BOOLEAN, hint \in Hints :
                 RecordExhausted(m, by429, hint, TRUE)
          \/ \E adv \in Readings : adv.resetsIn > 0 /\ ApplyQuotaPins(adv)]_vars

(* A model that keeps reopening is reported once per window: the report    *)
(* flag is cleared only by a window that has run out, or with the circuit  *)
(* itself, however often the circuit closes and opens again (noteOpen).    *)
ReportedOncePerWindow ==
    [][\A k \in Keys :
          (circuits[k].unstableReported /\ ~circuits'[k].unstableReported) =>
              circuits'[k].state = "untracked" \/ circuits[k].openWindow > ReopenWindow]_vars

(* A caller refused by IsOpen always has a retry instant to report:        *)
(* BlockedUntil answers for the same rule as IsOpen, although IsOpen has   *)
(* let go of the lock between its two halves.                              *)
Told(a, pc) == asks'[a] # asks[a] /\ asks'[a].pc = pc
RefusedHasRetry ==
    [][\A a \in Callers : Told(a, "refused") =>
          BlockedUntil(circuits', settings', asks'[a].model) > 0]_vars

(* IsOpen's contract: it returns true if the model's own circuit is open,  *)
(* or the provider-wide verdict is.  So nobody is admitted to a pair that  *)
(* is blocked at that very step.                                           *)
AdmittedOnlyWhenUnblocked ==
    [][\A a \in Callers : Told(a, "admitted") =>
          BlockedUntil(circuits', settings', asks'[a].model) = NotBlocked]_vars

(* No blackout no verdict can end: whatever readings keep arriving, every  *)
(* blocked circuit is owed a probe again (effectiveCooldownForWith,        *)
(* ApplyQuotaPins measures from openedAt).                                 *)
NoPermanentDarkness ==
    \A k \in Keys : Blocking(circuits[k], settings) ~> ~Blocking(circuits[k], settings)

(* A seeded circuit whose pin ran out is retired by a later poll pass even *)
(* if the provider never again appears in a reading (sweepExpiredSeeds).   *)
SeedExpired == circuits[Seed].state = "open" /\ ~Blocking(circuits[Seed], settings)
SeedRetired == SeedExpired ~> ~SeedExpired
=============================================================================
