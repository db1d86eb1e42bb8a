------------------------ MODULE CircuitBreakerProofs ------------------------
(***************************************************************************)
(* The circuit breaker keeps its circuits whole for any number of models   *)
(* and callers and any settings: types, nothing left of an incident that   *)
(* is over, no wait stamped beyond the ceilings in force, and a seeded     *)
(* circuit that exists only to carry its pin.                              *)
(***************************************************************************)
EXTENDS CircuitBreaker, FiniteSetTheorems, WellFoundedInduction, TLAPS

(* What holds of every circuit; WaitsOK is what bounds its cooldown. *)
WaitsOK(c)   == c.cooldownOverride <= Horizon /\ c.cooldownBackoff <= Horizon
CircuitOK(c) == c \in Circuit /\ NoResidueOf(c) /\ WaitsOK(c)

(* The seeded circuit, when there is one. *)
CarriesPin(c) ==
    /\ c.state = "open" /\ c.cooldownOverride > 0
    /\ c.pinSource \in {"advisor", "reserve"} /\ c.failedProbes = 0

(* The provider's map of circuits. *)
MapOK(cs) ==
    /\ cs \in [Keys -> Circuit]
    /\ \A k \in Keys : CircuitOK(cs[k])
    /\ cs[Seed] = Untracked \/ CarriesPin(cs[Seed])

(* Only a model that was asked about is probed. *)
AsksOK == \A a \in Callers : asks[a].pc = "relock" => asks[a].model \in Models

(* The inductive invariant. *)
IInv == TypeOK /\ MapOK(circuits) /\ AsksOK

-----------------------------------------------------------------------------
(***************************************************************************)
(* Cooldowns.                                                              *)
(***************************************************************************)

(* A circuit with one field replaced is a circuit. *)
LEMMA CircuitFields ==
    ASSUME NEW c \in Circuit
    PROVE  /\ \A v \in {"untracked", "closed", "open", "half-open"} :
                 [c EXCEPT !.state = v] \in Circuit
           /\ \A v \in Nat : [c EXCEPT !.consecutiveFails = v] \in Circuit
           /\ \A v \in 0..Horizon : [c EXCEPT !.openAge = v] \in Circuit
           /\ \A v \in Nat : [c EXCEPT !.halfOpenProbes = v] \in Circuit
           /\ \A v \in Nat : [c EXCEPT !.cooldownOverride = v] \in Circuit
           /\ \A v \in PinSources : [c EXCEPT !.pinSource = v] \in Circuit
           /\ \A v \in 0..(SeedSteps - 1) : [c EXCEPT !.probeSeed = v] \in Circuit
           /\ \A v \in 0..MaxFailedProbes : [c EXCEPT !.failedProbes = v] \in Circuit
           /\ \A v \in Nat : [c EXCEPT !.cooldownBackoff = v] \in Circuit
           /\ \A v \in 0..OpensBeforeEscalation : [c EXCEPT !.opens429Streak = v] \in Circuit
           /\ \A v \in NoWindow..(ReopenWindow + 1) : [c EXCEPT !.open429Window = v] \in Circuit
           /\ \A v \in 0..OpensBeforeEscalation : [c EXCEPT !.opens = v] \in Circuit
           /\ \A v \in NoWindow..(ReopenWindow + 1) : [c EXCEPT !.openWindow = v] \in Circuit
           /\ \A v \in BOOLEAN : [c EXCEPT !.unstableReported = v] \in Circuit
  BY DEF Circuit

(* The parts of an integer division, and that it is monotonic. *)
LEMMA DivParts ==
    ASSUME NEW n \in Nat, NEW k \in Nat \ {0}
    PROVE  n \div k \in Nat /\ n = k * (n \div k) + (n % k) /\ n % k \in Nat /\ n % k < k
  OBVIOUS

LEMMA DivMonotone ==
    ASSUME NEW d \in Nat, NEW p \in Nat, NEW k \in Nat \ {0}, d <= p
    PROVE  d \div k <= p \div k
  <1>. DEFINE a == d \div k
              b == p \div k
              q == d % k
              r == p % k
  <1>1. /\ a \in Nat /\ b \in Nat /\ r \in Nat /\ q \in Nat /\ r < k /\ q < k
        /\ d = k * a + q /\ p = k * b + r
    BY DivParts
  <1>. HIDE DEF a, b, r, q
  <1>2. ASSUME b < a PROVE FALSE
    <2>1. PICK e \in Nat : a = b + 1 + e
      <3>1. a - b - 1 \in Nat /\ a = b + 1 + (a - b - 1)
        BY <1>1, <1>2
      <3>. QED BY <3>1
    <2>2. k * a = k * b + k + k * e /\ k * b \in Nat /\ k * e \in Nat /\ k * a \in Nat
      BY <1>1, <2>1
    <2>. QED BY <1>1, <2>2
  <1>3. a <= b
    BY <1>1, <1>2
  <1>. QED BY <1>3 DEF a, b

(* The settings are natural numbers within their ceiling, which is within  *)
(* the horizon.                                                            *)
LEMMA ConfigTypes ==
    ASSUME NEW s \in Configs
    PROVE  /\ s.threshold \in Nat \ {0} /\ s.span \in Nat \ {0} /\ s.cooldown \in Nat \ {0}
           /\ s.backoffMax \in Nat /\ s.pinMax \in Nat /\ s.pinProbe \in Nat
           /\ Ceiling(s) \in Nat /\ Horizon \in Nat /\ Ceiling(s) <= Horizon
           /\ s.cooldown <= Ceiling(s) /\ s.backoffMax <= Ceiling(s) /\ s.pinMax <= Ceiling(s)
           /\ s.pinMax + (s.pinMax \div Spread) <= Ceiling(s)
  <1>1. /\ s.threshold \in Nat \ {0} /\ s.span \in Nat \ {0} /\ s.cooldown \in Nat \ {0}
        /\ s.backoffMax \in Nat /\ s.pinMax \in Nat /\ s.pinProbe \in Nat
    BY ConfigsAssumption DEF Config
  <1>. DEFINE jittered == s.pinMax + (s.pinMax \div Spread)
  <1>2. jittered \in Nat /\ s.pinMax <= jittered
    BY <1>1, DivParts, BoundsAssumption
  <1>. HIDE DEF jittered
  <1>3. Ceiling(s) = Larger(s.cooldown, Larger(s.backoffMax, jittered))
    BY DEF Ceiling, jittered
  <1>4. /\ Ceiling(s) \in Nat /\ s.cooldown <= Ceiling(s) /\ s.backoffMax <= Ceiling(s)
        /\ jittered <= Ceiling(s)
    BY <1>1, <1>2, <1>3 DEF Larger
  <1>. QED BY <1>1, <1>2, <1>4, HorizonAssumption DEF jittered

(* A clamped pin is a wait above the floor, or none, and within the        *)
(* ceiling when it was clamped to the operator's.                          *)
LEMMA ClampedPin ==
    ASSUME NEW s \in Configs, NEW d \in Nat, NEW floor \in Nat, NEW j \in Nat
    PROVE  /\ ClampPin(d, s.pinMax, floor, j) \in Nat
           /\ ClampPin(d, s.pinMax, floor, j) <= Ceiling(s)
           /\ ClampPin(d, s.pinMax, floor, j) # 0 => ClampPin(d, s.pinMax, floor, j) > floor
  <1>. DEFINE capped == Smaller(d, s.pinMax)
              part == capped \div Spread
  <1>1. capped \in 0..s.pinMax /\ s.pinMax \in Nat
    BY ConfigTypes DEF Smaller
  <1>2. part \in Nat
    BY <1>1, BoundsAssumption
  <1>3. capped + part <= Ceiling(s) /\ Ceiling(s) \in Nat
    <2>1. part <= s.pinMax \div Spread /\ s.pinMax \div Spread \in Nat
      BY <1>1, DivMonotone, DivParts, BoundsAssumption
    <2>. HIDE DEF part, capped
    <2>2. s.pinMax + (s.pinMax \div Spread) <= Ceiling(s) /\ Ceiling(s) \in Nat
      BY ConfigTypes
    <2>. QED BY <1>1, <1>2, <2>1, <2>2
  <1>. HIDE DEF capped, part
  <1>4. Smaller(j, part) \in 0..part
    BY <1>2 DEF Smaller
  <1>5. ClampPin(d, s.pinMax, floor, j) = IF capped <= floor THEN 0 ELSE capped + Smaller(j, part)
    BY DEF ClampPin, capped, part
  <1>. QED BY <1>1, <1>2, <1>3, <1>4, <1>5

(* The cooldown in force is never below the unpinned one, which is never   *)
(* below the configured one, and never beyond what bounds the configured   *)
(* one and both stamps.                                                    *)
LEMMA CooldownWithin ==
    ASSUME NEW s \in Configs, NEW c \in Circuit, NEW bound \in Nat, s.cooldown <= bound,
           c.cooldownOverride <= bound, c.cooldownBackoff <= bound
    PROVE  /\ UnpinnedCooldown(c, s) \in Nat /\ EffectiveCooldown(c, s) \in Nat
           /\ UnpinnedCooldown(c, s) <= EffectiveCooldown(c, s)
           /\ EffectiveCooldown(c, s) <= bound
  <1>1. /\ c.cooldownOverride \in Nat /\ c.cooldownBackoff \in Nat
        /\ c.probeSeed \in Nat
    BY BoundsAssumption DEF Circuit
  <1>2. ProbeOffset(c, s) \in Nat
    <2>. DEFINE num == c.probeSeed * s.pinProbe
                den == SeedSteps * Spread
    <2>1. num \in Nat
      BY <1>1, ConfigTypes
    <2>2. den \in Nat \ {0}
      BY BoundsAssumption
    <2>. HIDE DEF num, den
    <2>3. num \div den \in Nat
      BY <2>1, <2>2
    <2>. QED BY <2>3 DEF ProbeOffset, num, den
  <1>. DEFINE unpinned == UnpinnedCooldown(c, s)
              paced == Smaller(c.cooldownOverride, Larger(s.pinProbe, unpinned) + ProbeOffset(c, s))
  <1>3. unpinned \in Nat /\ unpinned <= bound
    BY <1>1, ConfigTypes DEF UnpinnedCooldown, BackedOff
  <1>. HIDE DEF unpinned
  <1>4. c.cooldownOverride > unpinned =>
            paced \in Nat /\ unpinned <= paced /\ paced <= c.cooldownOverride
    BY <1>1, <1>2, <1>3, ConfigTypes DEF Smaller, Larger
  <1>. HIDE DEF paced
  <1>5. EffectiveCooldown(c, s) =
            IF ~QuotaPinned(c, s) \/ c.cooldownOverride <= unpinned THEN unpinned
            ELSE IF PinProbes(c.pinSource) /\ s.pinProbe > 0 THEN paced ELSE c.cooldownOverride
    BY DEF EffectiveCooldown, unpinned, paced
  <1>6. /\ EffectiveCooldown(c, s) \in Nat /\ unpinned <= EffectiveCooldown(c, s)
        /\ EffectiveCooldown(c, s) <= bound
    BY <1>1, <1>3, <1>4, <1>5
  <1>. QED BY <1>3, <1>6 DEF unpinned

LEMMA CooldownBounds ==
    ASSUME NEW s \in Configs, NEW c \in Circuit, WaitsOK(c)
    PROVE  /\ UnpinnedCooldown(c, s) \in Nat /\ EffectiveCooldown(c, s) \in Nat
           /\ UnpinnedCooldown(c, s) <= EffectiveCooldown(c, s)
           /\ EffectiveCooldown(c, s) <= Horizon
  <1>1. Horizon \in Nat /\ s.cooldown <= Horizon
    BY ConfigTypes
  <1>. QED BY <1>1, CooldownWithin DEF WaitsOK

-----------------------------------------------------------------------------
(***************************************************************************)
(* Opening a circuit.                                                      *)
(***************************************************************************)
LEMMA Constants ==
    /\ 0 \in Nat /\ 0 \in 0..Horizon /\ 0 \in 0..MaxFailedProbes
    /\ 0 \in 0..OpensBeforeEscalation /\ 1 \in 0..OpensBeforeEscalation
    /\ NoWindow \in NoWindow..(ReopenWindow + 1) /\ 0 \in NoWindow..(ReopenWindow + 1)
    /\ "none" \in PinSources /\ TRUE \in BOOLEAN /\ FALSE \in BOOLEAN
    /\ "closed" \in {"untracked", "closed", "open", "half-open"}
    /\ "open" \in {"untracked", "closed", "open", "half-open"}
    /\ "half-open" \in {"untracked", "closed", "open", "half-open"}
  BY BoundsAssumption, HorizonAssumption DEF NoWindow, PinSources

(* Fields that the operations of one open leave alone. *)
SameOpen(d, c) == d.state = c.state /\ d.failedProbes = c.failedProbes
SamePin(d, c)  == d.cooldownOverride = c.cooldownOverride /\ d.pinSource = c.pinSource

LEMMA Cleared ==
    ASSUME NEW c \in Circuit
    PROVE  LET d == Clear429Escalation(c)
           IN  /\ d \in Circuit /\ SameOpen(d, c) /\ SamePin(d, c)
               /\ d.cooldownBackoff = c.cooldownBackoff /\ d.opens429Streak = 0
  <1>1. Clear429Escalation(c) \in Circuit
    <2>1. [c EXCEPT !.opens429Streak = 0] \in Circuit
      BY Constants, CircuitFields, Zenon
    <2>. QED BY <2>1, Constants, CircuitFields, Zenon DEF Clear429Escalation
  <1>. QED BY <1>1 DEF Clear429Escalation, Circuit, SameOpen, SamePin

LEMMA Noted429 ==
    ASSUME NEW c \in Circuit, NEW by429 \in BOOLEAN
    PROVE  LET d == Note429Open(c, by429)
           IN  d \in Circuit /\ SameOpen(d, c)
  <1>. DEFINE n == IF c.opens429Streak < OpensBeforeEscalation THEN c.opens429Streak + 1
                   ELSE OpensBeforeEscalation
              first == [c EXCEPT !.open429Window = 0, !.opens429Streak = 1]
              again == [c EXCEPT !.opens429Streak = n]
  <1>1. n \in 0..OpensBeforeEscalation
    BY BoundsAssumption DEF Circuit
  <1>. HIDE DEF n
  <1>2. first \in Circuit /\ again \in Circuit
    <2>1. [c EXCEPT !.open429Window = 0] \in Circuit
      BY Constants, CircuitFields, Zenon
    <2>. QED BY <1>1, <2>1, Constants, CircuitFields, Zenon
  <1>3. SameOpen(first, c) /\ SameOpen(again, c)
    BY DEF Circuit, SameOpen
  <1>4. Note429Open(c, by429) \in {Clear429Escalation(c), first, again}
    BY Zenon DEF Note429Open, CountTo, n
  <1>. HIDE DEF first, again
  <1>. QED BY <1>2, <1>3, <1>4, Cleared

(* A backoff is within the ceiling and has a failed probe behind it. *)
LEMMA BackoffApplied ==
    ASSUME NEW c \in Circuit, NEW s \in Configs
    PROVE  LET d == ApplyBackoff(c, s)
           IN  /\ d \in Circuit /\ SameOpen(d, c) /\ d.cooldownBackoff <= Ceiling(s)
               /\ d.cooldownBackoff > 0 => d.failedProbes > 0
  <1>. DEFINE ceiling == IF ExhaustedEscalated(c) THEN Larger(s.backoffMax, s.pinMax) ELSE s.backoffMax
              doubled == s.cooldown * 2^c.failedProbes
              stamped == c.failedProbes # 0 /\ s.backoffMax > 0 /\ ceiling > s.cooldown
              backoff == IF ~stamped THEN 0
                         ELSE IF doubled \in 1..ceiling THEN doubled ELSE ceiling
  <1>1. ceiling \in Nat /\ ceiling <= Ceiling(s)
    BY ConfigTypes DEF Larger
  <1>. HIDE DEF doubled, ceiling
  <1>2. backoff \in Nat /\ backoff <= Ceiling(s)
    BY <1>1, ConfigTypes
  <1>3. backoff > 0 => c.failedProbes > 0
    BY DEF Circuit
  <1>4. ApplyBackoff(c, s) = [c EXCEPT !.cooldownBackoff = backoff]
    BY DEF ApplyBackoff, ceiling, doubled
  <1>. HIDE DEF backoff
  <1>. QED BY <1>2, <1>3, <1>4 DEF Circuit, SameOpen

(* A pin has a source, is within the ceiling, and is stamped whatever was  *)
(* there before.                                                           *)
LEMMA PinApplied ==
    ASSUME NEW c \in Circuit, NEW s \in Configs, NEW adv \in Advice, NEW hint \in Nat,
           NEW account \in BOOLEAN, NEW j \in Nat, NEW x \in 0..(SeedSteps - 1),
           c.cooldownBackoff <= Ceiling(s)
    PROVE  LET d == ApplyQuotaPin(c, s, adv, hint, account, j, x)
           IN  /\ d \in Circuit /\ SameOpen(d, c) /\ d.cooldownBackoff = c.cooldownBackoff
               /\ d.cooldownOverride <= Ceiling(s)
               /\ d.cooldownOverride = 0 <=> d.pinSource = "none"
  <1>. DEFINE measured == adv.known /\ adv.resetsIn > 0
              source == IF measured THEN AdvisorPinSource(adv.reserved)
                        ELSE IF account THEN "account" ELSE "response"
              length == IF measured THEN adv.resetsIn ELSE hint
              floor == UnpinnedCooldown(c, s)
              pin == ClampPin(length, s.pinMax, floor, j)
              pinned == [c EXCEPT !.cooldownOverride = pin, !.pinSource = source, !.probeSeed = x]
              bare == [c EXCEPT !.cooldownOverride = 0, !.pinSource = "none"]
  <1>1. source \in PinSources /\ source # "none" /\ length \in Nat /\ floor \in Nat
    BY ConfigTypes
       DEF PinSources, AdvisorPinSource, Advice, UnpinnedCooldown, BackedOff, Circuit
  <1>. HIDE DEF source, length, floor
  <1>2. pin \in Nat /\ pin <= Ceiling(s)
    BY <1>1, ClampedPin
  <1>. HIDE DEF pin
  <1>3. pinned \in Circuit /\ bare \in Circuit
    <2>1. [c EXCEPT !.cooldownOverride = pin] \in Circuit /\ [c EXCEPT !.cooldownOverride = 0] \in Circuit
      BY <1>2, Constants, CircuitFields, Zenon
    <2>2. [c EXCEPT !.cooldownOverride = pin, !.pinSource = source] \in Circuit
      BY <1>1, <2>1, CircuitFields, Zenon
    <2>. QED BY <2>1, <2>2, Constants, CircuitFields, Zenon
  <1>4. /\ SameOpen(pinned, c) /\ pinned.cooldownBackoff = c.cooldownBackoff
        /\ pinned.cooldownOverride = pin /\ pinned.pinSource = source
        /\ SameOpen(bare, c) /\ bare.cooldownBackoff = c.cooldownBackoff
        /\ bare.cooldownOverride = 0 /\ bare.pinSource = "none"
    BY DEF Circuit, SameOpen
  <1>5. ApplyQuotaPin(c, s, adv, hint, account, j, x) = IF s.pinMax > 0 /\ pin > 0 THEN pinned ELSE bare
    BY DEF ApplyQuotaPin, pin, source, length, floor
  <1>. HIDE DEF pinned, bare
  <1>6. CASE s.pinMax > 0 /\ pin > 0
    <2>1. ApplyQuotaPin(c, s, adv, hint, account, j, x) = pinned
      BY <1>5, <1>6, Zenon
    <2>2. pinned.cooldownOverride <= Ceiling(s) /\ pinned.cooldownOverride # 0 /\ pinned.pinSource # "none"
      BY <1>1, <1>2, <1>4, <1>6 DEF SameOpen
    <2>. QED BY <1>3, <1>4, <2>1, <2>2, Zenon
  <1>7. CASE ~(s.pinMax > 0 /\ pin > 0)
    <2>1. ApplyQuotaPin(c, s, adv, hint, account, j, x) = bare
      BY <1>5, <1>7, Zenon
    <2>2. bare.cooldownOverride <= Ceiling(s)
      BY <1>4, ConfigTypes DEF SameOpen
    <2>. QED BY <1>3, <1>4, <2>1, <2>2, Zenon
  <1>. QED BY <1>6, <1>7, Zenon

LEMMA NotedOpen ==
    ASSUME NEW c \in Circuit
    PROVE  LET d == NoteOpen(c)
           IN  /\ d \in Circuit /\ SameOpen(d, c) /\ SamePin(d, c)
               /\ d.cooldownBackoff = c.cooldownBackoff
  <1>. DEFINE n == IF c.opens < OpensBeforeEscalation THEN c.opens + 1 ELSE OpensBeforeEscalation
              told == c.unstableReported \/ n >= OpensBeforeEscalation
              first == [c EXCEPT !.openWindow = 0, !.opens = 1, !.unstableReported = FALSE]
              again == [c EXCEPT !.opens = n, !.unstableReported = told]
  <1>1. n \in 0..OpensBeforeEscalation /\ told \in BOOLEAN
    BY BoundsAssumption DEF Circuit
  <1>4. NoteOpen(c) = IF c.openWindow \notin 0..ReopenWindow THEN first ELSE again
    BY DEF NoteOpen, CountTo
  <1>. HIDE DEF n, told
  <1>2. first \in Circuit /\ again \in Circuit
    <2>1. [c EXCEPT !.openWindow = 0] \in Circuit /\ [c EXCEPT !.opens = n] \in Circuit
      BY <1>1, Constants, CircuitFields, Zenon
    <2>2. [c EXCEPT !.openWindow = 0, !.opens = 1] \in Circuit
      BY <2>1, Constants, CircuitFields, Zenon
    <2>. QED BY <1>1, <2>1, <2>2, Constants, CircuitFields, Zenon
  <1>3. /\ SameOpen(first, c) /\ SamePin(first, c) /\ first.cooldownBackoff = c.cooldownBackoff
        /\ SameOpen(again, c) /\ SamePin(again, c) /\ again.cooldownBackoff = c.cooldownBackoff
    BY DEF Circuit, SameOpen, SamePin
  <1>. HIDE DEF first, again
  <1>. QED BY <1>2, <1>3, <1>4

(* However a circuit comes to open, it opens whole and within the ceiling. *)
LEMMA Opened ==
    ASSUME NEW c \in Circuit, NEW s \in Configs, NEW adv \in Advice, NEW by429 \in BOOLEAN,
           NEW hint \in Nat, NEW account \in BOOLEAN, NEW j \in Nat, NEW x \in 0..(SeedSteps - 1)
    PROVE  LET d == OpenCircuit(c, s, adv, by429, hint, account, j, x)
           IN  /\ CircuitOK(d) /\ d.state = "open"
               /\ d.cooldownOverride <= Ceiling(s) /\ d.cooldownBackoff <= Ceiling(s)
  <1>. DEFINE c0 == [c EXCEPT !.state = "open", !.openAge = 0]
              c1 == Note429Open(c0, by429)
              c2 == ApplyBackoff(c1, s)
              c3 == ApplyQuotaPin(c2, s, adv, hint, account, j, x)
              c4 == NoteOpen(c3)
  <1>1. c0 \in Circuit /\ c0.state = "open"
    BY Constants DEF Circuit
  <1>. HIDE DEF c0
  <1>2. c1 \in Circuit /\ c1.state = "open"
    BY <1>1, Noted429 DEF SameOpen
  <1>. HIDE DEF c1
  <1>3. /\ c2 \in Circuit /\ c2.state = "open" /\ c2.cooldownBackoff <= Ceiling(s)
        /\ c2.cooldownBackoff > 0 => c2.failedProbes > 0
    BY <1>2, BackoffApplied DEF SameOpen
  <1>. HIDE DEF c2
  <1>4. /\ c3 \in Circuit /\ c3.state = "open" /\ c3.cooldownBackoff <= Ceiling(s)
        /\ c3.cooldownBackoff > 0 => c3.failedProbes > 0
        /\ c3.cooldownOverride <= Ceiling(s)
        /\ c3.cooldownOverride = 0 <=> c3.pinSource = "none"
    <2>1. /\ c3 \in Circuit /\ SameOpen(c3, c2) /\ c3.cooldownBackoff = c2.cooldownBackoff
          /\ c3.cooldownOverride <= Ceiling(s)
          /\ c3.cooldownOverride = 0 <=> c3.pinSource = "none"
      BY <1>3, PinApplied DEF SameOpen
    <2>. HIDE DEF c3
    <2>. QED BY <1>3, <2>1 DEF SameOpen
  <1>. HIDE DEF c3
  <1>5. /\ c4 \in Circuit /\ c4.state = "open" /\ c4.cooldownBackoff <= Ceiling(s)
        /\ c4.cooldownBackoff > 0 => c4.failedProbes > 0
        /\ c4.cooldownOverride <= Ceiling(s)
        /\ c4.cooldownOverride = 0 <=> c4.pinSource = "none"
    BY <1>4, NotedOpen DEF SameOpen, SamePin
  <1>. HIDE DEF c4
  <1>6. CircuitOK(c4)
    <2>1. c4.cooldownOverride <= Horizon /\ c4.cooldownBackoff <= Horizon
      BY <1>5, ConfigTypes DEF Circuit
    <2>. QED BY <1>5, <2>1 DEF CircuitOK, NoResidueOf, WaitsOK
  <1>7. OpenCircuit(c, s, adv, by429, hint, account, j, x) = c4
    BY DEF OpenCircuit, c0, c1, c2, c3, c4
  <1>. QED BY <1>5, <1>6, <1>7

-----------------------------------------------------------------------------
(***************************************************************************)
(* The other operations on a circuit.                                      *)
(***************************************************************************)

(* No circuit, and a new one. *)
LEMMA NewCircuits ==
    /\ CircuitOK(Untracked) /\ Untracked.state = "untracked"
    /\ Untracked.cooldownOverride = 0
    /\ CircuitOK(Fresh) /\ Fresh.state = "closed" /\ Fresh.failedProbes = 0
  <1>1. Fresh \in Circuit /\ Untracked \in Circuit
    <2>1. Fresh \in Circuit
      BY BoundsAssumption, HorizonAssumption DEF Fresh, Circuit, NoWindow, PinSources
    <2>. QED BY <2>1, CircuitFields, Zenon DEF Untracked
  <1>2. /\ Fresh.state = "closed" /\ Fresh.cooldownOverride = 0 /\ Fresh.pinSource = "none"
        /\ Fresh.cooldownBackoff = 0 /\ Fresh.failedProbes = 0 /\ Fresh.opens429Streak = 0
    BY DEF Fresh
  <1>3. /\ Untracked.state = "untracked" /\ Untracked.cooldownOverride = 0
        /\ Untracked.pinSource = "none" /\ Untracked.cooldownBackoff = 0
    BY DEF Untracked, Fresh
  <1>4. Horizon \in Nat
    BY HorizonAssumption
  <1>5. CircuitOK(Fresh)
    BY <1>1, <1>2, <1>4 DEF CircuitOK, NoResidueOf, WaitsOK
  <1>6. CircuitOK(Untracked)
    BY <1>1, <1>3, <1>4 DEF CircuitOK, NoResidueOf, WaitsOK
  <1>. QED BY <1>2, <1>3, <1>5, <1>6

(* A circuit neither closed nor untracked stays whole when only its type,  *)
(* its state and its failed probes could have changed.                     *)
LEMMA KeptWhole ==
    ASSUME NEW c, CircuitOK(c), NEW d \in Circuit, SamePin(d, c),
           d.cooldownBackoff = c.cooldownBackoff, d.failedProbes = c.failedProbes,
           d.state \in {"open", "half-open"}
    PROVE  CircuitOK(d)
  BY DEF CircuitOK, NoResidueOf, WaitsOK, SamePin

LEMMA Probed ==
    ASSUME NEW c, CircuitOK(c), NEW s \in Configs
    PROVE  LET d == ProbeIfCooldownElapsed(c, s)
           IN  CircuitOK(d) /\ (c.state # "untracked" => d.state # "untracked")
  <1>. DEFINE d == [c EXCEPT !.state = "half-open", !.halfOpenProbes = 0, !.openAge = 0]
  <1>1. d \in Circuit
    <2>1. c \in Circuit
      BY DEF CircuitOK
    <2>2. [c EXCEPT !.state = "half-open"] \in Circuit
      BY <2>1, Constants, CircuitFields, Zenon
    <2>3. [c EXCEPT !.state = "half-open", !.halfOpenProbes = 0] \in Circuit
      BY <2>2, Constants, CircuitFields, Zenon
    <2>. QED BY <2>3, Constants, CircuitFields, Zenon
  <1>2. /\ SamePin(d, c) /\ d.cooldownBackoff = c.cooldownBackoff
        /\ d.failedProbes = c.failedProbes /\ d.state = "half-open"
    BY DEF CircuitOK, Circuit, SamePin
  <1>3. ProbeIfCooldownElapsed(c, s) = IF c.state = "open" /\ ~StillDark(c, s) THEN d ELSE c
    BY DEF ProbeIfCooldownElapsed
  <1>. HIDE DEF d
  <1>4. CircuitOK(d)
    BY <1>1, <1>2, KeptWhole
  <1>. QED BY <1>2, <1>3, <1>4

(* Charging a failed probe, or a refusal. *)
LEMMA Charged ==
    ASSUME NEW c \in Circuit, NEW s \in Configs
    PROVE  /\ FailProbe(c, s) \in Circuit
           /\ [c EXCEPT !.consecutiveFails = s.threshold] \in Circuit
           /\ [c EXCEPT !.consecutiveFails = @ + 1] \in Circuit
  <1>. DEFINE d == [c EXCEPT !.consecutiveFails = s.threshold]
              n == CountTo(d.failedProbes, MaxFailedProbes)
  <1>1. s.threshold \in Nat /\ c.consecutiveFails + 1 \in Nat
    BY ConfigTypes DEF Circuit
  <1>2. d \in Circuit /\ [c EXCEPT !.consecutiveFails = @ + 1] \in Circuit
    BY <1>1, CircuitFields, Zenon
  <1>3. n \in 0..MaxFailedProbes
    <2>. HIDE DEF d
    <2>. QED BY <1>2, BoundsAssumption DEF Circuit, CountTo
  <1>4. FailProbe(c, s) = [d EXCEPT !.failedProbes = n]
    BY DEF FailProbe
  <1>5. FailProbe(c, s) \in Circuit
    <2>1. \A v \in 0..MaxFailedProbes : [d EXCEPT !.failedProbes = v] \in Circuit
      <3>. HIDE DEF d
      <3>. QED BY <1>2, CircuitFields, Zenon
    <2>. HIDE DEF d, n
    <2>. QED BY <1>3, <1>4, <2>1
  <1>. QED BY <1>2, <1>5

LEMMA FailedWhole ==
    ASSUME NEW c, CircuitOK(c), c.state # "untracked", NEW s \in Configs, NEW adv \in Advice,
           NEW by429 \in BOOLEAN, NEW j \in Nat, NEW x \in 0..(SeedSteps - 1)
    PROVE  CircuitOK(Failed(c, s, adv, by429, j, x))
  <1>. DEFINE charged == [c EXCEPT !.consecutiveFails = @ + 1]
              a == OpenCircuit(FailProbe(c, s), s, adv, by429, 0, FALSE, j, x)
              b == OpenCircuit(charged, s, adv, by429, 0, FALSE, j, x)
  <1>1. c \in Circuit /\ charged \in Circuit /\ FailProbe(c, s) \in Circuit
    BY Charged DEF CircuitOK
  <1>2. 0 \in Nat /\ FALSE \in BOOLEAN
    OBVIOUS
  <1>3. CircuitOK(a)
    BY <1>1, <1>2, Opened, Zenon
  <1>4. CircuitOK(b)
    <2>. HIDE DEF charged
    <2>. QED BY <1>1, <1>2, Opened
  <1>5. c.state = "closed" => CircuitOK(charged)
    <2>1. /\ charged.state = c.state /\ SamePin(charged, c) /\ charged.failedProbes = c.failedProbes
          /\ charged.cooldownBackoff = c.cooldownBackoff /\ charged.opens429Streak = c.opens429Streak
      BY <1>1 DEF Circuit, SamePin
    <2>. HIDE DEF charged
    <2>. QED BY <1>1, <2>1 DEF CircuitOK, NoResidueOf, WaitsOK, SamePin
  <1>6. c.state \in {"closed", "open", "half-open"}
    BY <1>1 DEF Circuit
  <1>7. Failed(c, s, adv, by429, j, x) =
            IF c.state = "open" THEN c ELSE IF c.state = "half-open" THEN a
            ELSE IF c.consecutiveFails + 1 >= s.threshold THEN b ELSE charged
    BY DEF Failed
  <1>. HIDE DEF charged, a, b
  <1>. QED BY <1>3, <1>4, <1>5, <1>6, <1>7

LEMMA ExhaustedWhole ==
    ASSUME NEW c, CircuitOK(c), c.state # "untracked", NEW s \in Configs, NEW adv \in Advice,
           NEW by429 \in BOOLEAN, NEW hint \in Nat, NEW account \in BOOLEAN,
           NEW j \in Nat, NEW x \in 0..(SeedSteps - 1)
    PROVE  CircuitOK(Exhausted(c, s, adv, by429, hint, account, j, x))
  <1>. DEFINE paced   == PinProbes(c.pinSource) /\ s.pinProbe > 0
              charged == IF c.state = "half-open" /\ ~paced THEN FailProbe(c, s)
                         ELSE [c EXCEPT !.consecutiveFails = s.threshold]
              a == OpenCircuit(charged, s, adv, by429, hint, account, j, x)
  <1>1. c \in Circuit /\ charged \in Circuit
    BY Charged DEF CircuitOK
  <1>2. Exhausted(c, s, adv, by429, hint, account, j, x) = IF c.state = "open" THEN c ELSE a
    BY DEF Exhausted
  <1>. HIDE DEF charged
  <1>3. CircuitOK(a)
    BY <1>1, Opened
  <1>. HIDE DEF a
  <1>. QED BY <1>2, <1>3

LEMMA SucceededWhole ==
    ASSUME NEW c, CircuitOK(c), c.state # "untracked"
    PROVE  CircuitOK(Succeeded(c))
  <1>. DEFINE closed == [c EXCEPT !.consecutiveFails = 0]
              probe  == [c EXCEPT !.halfOpenProbes = @ + 1]
              emptied == [c EXCEPT !.state = "closed", !.consecutiveFails = 0,
                            !.halfOpenProbes = 0, !.cooldownOverride = 0,
                            !.pinSource = "none", !.failedProbes = 0, !.cooldownBackoff = 0]
  <1>1. c \in Circuit /\ c.state \in {"closed", "open", "half-open"} /\ c.halfOpenProbes + 1 \in Nat
    BY DEF CircuitOK, Circuit
  <1>2. closed \in Circuit /\ probe \in Circuit
    BY <1>1, Constants, CircuitFields, Zenon
  <1>3. emptied \in Circuit
    <2>1. [c EXCEPT !.state = "closed"] \in Circuit
      BY <1>1, Constants, CircuitFields, Zenon
    <2>2. [c EXCEPT !.state = "closed", !.consecutiveFails = 0] \in Circuit
      BY <2>1, Constants, CircuitFields, Zenon
    <2>3. [c EXCEPT !.state = "closed", !.consecutiveFails = 0, !.halfOpenProbes = 0] \in Circuit
      BY <2>2, Constants, CircuitFields, Zenon
    <2>4. [c EXCEPT !.state = "closed", !.consecutiveFails = 0, !.halfOpenProbes = 0,
                    !.cooldownOverride = 0] \in Circuit
      BY <2>3, Constants, CircuitFields, Zenon
    <2>5. [c EXCEPT !.state = "closed", !.consecutiveFails = 0, !.halfOpenProbes = 0,
                    !.cooldownOverride = 0, !.pinSource = "none"] \in Circuit
      BY <2>4, Constants, CircuitFields, Zenon
    <2>6. [c EXCEPT !.state = "closed", !.consecutiveFails = 0, !.halfOpenProbes = 0,
                    !.cooldownOverride = 0, !.pinSource = "none", !.failedProbes = 0] \in Circuit
      BY <2>5, Constants, CircuitFields, Zenon
    <2>. QED BY <2>6, Constants, CircuitFields, Zenon
  <1>4. /\ emptied.state = "closed" /\ emptied.cooldownOverride = 0
        /\ emptied.pinSource = "none" /\ emptied.failedProbes = 0 /\ emptied.cooldownBackoff = 0
    BY <1>1 DEF Circuit
  <1>5. /\ SamePin(closed, c) /\ closed.cooldownBackoff = c.cooldownBackoff
        /\ closed.failedProbes = c.failedProbes /\ closed.state = c.state
        /\ closed.opens429Streak = c.opens429Streak
        /\ SamePin(probe, c) /\ probe.cooldownBackoff = c.cooldownBackoff
        /\ probe.failedProbes = c.failedProbes /\ probe.state = c.state
    BY <1>1 DEF Circuit, SamePin
  <1>6. Succeeded(c) =
            IF c.state = "open" THEN c ELSE IF c.state = "closed" THEN closed
            ELSE IF c.halfOpenProbes + 1 >= HalfOpenMaxProbes THEN Clear429Escalation(emptied)
            ELSE probe
    BY DEF Succeeded, CloseCircuit
  <1>. HIDE DEF closed, probe, emptied
  <1>7. CircuitOK(Clear429Escalation(emptied))
    <2>. DEFINE d == Clear429Escalation(emptied)
    <2>1. /\ d \in Circuit /\ SameOpen(d, emptied) /\ SamePin(d, emptied)
          /\ d.cooldownBackoff = emptied.cooldownBackoff /\ d.opens429Streak = 0
      BY <1>3, Cleared
    <2>. HIDE DEF d
    <2>2. CircuitOK(d)
      BY <1>4, <2>1, HorizonAssumption DEF CircuitOK, NoResidueOf, WaitsOK, SameOpen, SamePin
    <2>. QED BY <2>2 DEF d
  <1>8. c.state = "closed" => CircuitOK(closed)
    BY <1>2, <1>5 DEF CircuitOK, NoResidueOf, WaitsOK, SamePin
  <1>9. c.state = "half-open" => CircuitOK(probe)
    BY <1>2, <1>5, KeptWhole
  <1>. QED BY <1>1, <1>6, <1>7, <1>8, <1>9

(* A pin that is lifted was on an open or half-open circuit. *)
LEMMA ReleasedWhole ==
    ASSUME NEW c, CircuitOK(c), c.cooldownOverride # 0
    PROVE  CircuitOK(ReleasePin(c))
  <1>. DEFINE d == [c EXCEPT !.cooldownOverride = 0, !.pinSource = "none"]
  <1>1. c \in Circuit /\ c.state \in {"open", "half-open"}
    <2>1. c.state # "untracked"
      BY NewCircuits DEF CircuitOK, NoResidueOf
    <2>. QED BY <2>1 DEF CircuitOK, NoResidueOf, Circuit
  <1>2. d \in Circuit
    <2>1. [c EXCEPT !.cooldownOverride = 0] \in Circuit
      BY <1>1, Constants, CircuitFields, Zenon
    <2>. QED BY <2>1, Constants, CircuitFields, Zenon
  <1>3. /\ d.cooldownOverride = 0 /\ d.pinSource = "none" /\ d.state = c.state
        /\ d.cooldownBackoff = c.cooldownBackoff /\ d.failedProbes = c.failedProbes
    BY <1>1 DEF Circuit
  <1>. HIDE DEF d
  <1>4. CircuitOK(d)
    BY <1>1, <1>2, <1>3, HorizonAssumption DEF CircuitOK, NoResidueOf, WaitsOK
  <1>. QED BY <1>4 DEF ReleasePin, d

(* Lifting the escalation changes nothing else, and nothing of no circuit. *)
LEMMA ClearedWhole ==
    ASSUME NEW c, CircuitOK(c)
    PROVE  LET d == Clear429Escalation(c)
           IN  /\ CircuitOK(d) /\ SamePin(d, c) /\ (CarriesPin(c) => CarriesPin(d))
               /\ c = Untracked => d = Untracked
  <1>. DEFINE d == Clear429Escalation(c)
  <1>1. /\ d \in Circuit /\ SameOpen(d, c) /\ SamePin(d, c)
        /\ d.cooldownBackoff = c.cooldownBackoff /\ d.opens429Streak = 0
    BY Cleared DEF CircuitOK
  <1>2. c = Untracked => d = Untracked
    BY DEF Clear429Escalation, Untracked, Fresh
  <1>. HIDE DEF d
  <1>3. CircuitOK(d) /\ (CarriesPin(c) => CarriesPin(d))
    BY <1>1, <1>2 DEF CircuitOK, NoResidueOf, WaitsOK, SameOpen, SamePin, CarriesPin
  <1>. QED BY <1>1, <1>2, <1>3 DEF d

(* A reading retargets or renames the pin of an open circuit. *)
LEMMA RetargetedWhole ==
    ASSUME NEW c, CircuitOK(c), NEW s \in Configs, NEW adv \in Advice, NEW j \in Nat
    PROVE  LET d == Retarget(c, s, adv, j)
           IN  /\ CircuitOK(d) /\ (CarriesPin(c) => CarriesPin(d))
               /\ c = Untracked => d = Untracked
  <1>. DEFINE floor == EffectiveCooldown(c, s)
              length == adv.resetsIn + c.openAge
              pin == ClampPin(length, s.pinMax, floor, j)
              source == AdvisorPinSource(adv.reserved)
              measured == c.cooldownOverride > 0 /\ c.pinSource \in {"advisor", "reserve"}
              a == [c EXCEPT !.cooldownOverride = pin, !.pinSource = source]
              b == [c EXCEPT !.pinSource = source]
  <1>1. c \in Circuit /\ c.cooldownOverride \in Nat
    BY DEF CircuitOK, Circuit
  <1>2. source \in {"advisor", "reserve"} /\ source \in PinSources
    BY DEF AdvisorPinSource, PinSources
  <1>3. floor \in Nat /\ length \in Nat
    <2>1. length \in Nat
      BY <1>1, HorizonAssumption DEF Advice, Circuit
    <2>. QED BY <1>1, <2>1, CooldownBounds DEF CircuitOK
  <1>. HIDE DEF floor, length, source
  <1>4. pin \in Nat /\ pin <= Horizon
    <2>1. pin \in Nat /\ pin <= Ceiling(s)
      BY <1>3, ClampedPin
    <2>. HIDE DEF pin
    <2>. QED BY <2>1, ConfigTypes
  <1>5. Retarget(c, s, adv, j) =
            IF ~Blocking(c, s) THEN c ELSE IF pin > 0 THEN a ELSE IF measured THEN b ELSE c
    BY DEF Retarget, floor, length, source
  <1>. HIDE DEF pin
  <1>6. a \in Circuit /\ b \in Circuit
    <2>1. [c EXCEPT !.cooldownOverride = pin] \in Circuit
      BY <1>1, <1>4, CircuitFields, Zenon
    <2>. QED BY <1>1, <1>2, <2>1, CircuitFields, Zenon
  <1>7. /\ a.state = c.state /\ a.cooldownOverride = pin /\ a.pinSource = source
        /\ a.cooldownBackoff = c.cooldownBackoff /\ a.failedProbes = c.failedProbes
        /\ b.state = c.state /\ b.cooldownOverride = c.cooldownOverride /\ b.pinSource = source
        /\ b.cooldownBackoff = c.cooldownBackoff /\ b.failedProbes = c.failedProbes
    BY <1>1 DEF Circuit
  <1>. HIDE DEF a, b
  <1>8. (Blocking(c, s) /\ pin > 0) => CircuitOK(a) /\ (CarriesPin(c) => CarriesPin(a))
    BY <1>2, <1>4, <1>6, <1>7 DEF CircuitOK, NoResidueOf, WaitsOK, CarriesPin, Blocking
  <1>9. (Blocking(c, s) /\ measured) => CircuitOK(b) /\ (CarriesPin(c) => CarriesPin(b))
    BY <1>1, <1>2, <1>6, <1>7 DEF CircuitOK, NoResidueOf, WaitsOK, CarriesPin, Blocking
  <1>10. c = Untracked => ~Blocking(c, s)
    BY NewCircuits DEF Blocking
  <1>. HIDE DEF measured
  <1>. QED BY <1>5, <1>8, <1>9, <1>10

(* Time ages an open circuit and the windows, and nothing of no circuit. *)
LEMMA AgedWhole ==
    ASSUME NEW c, CircuitOK(c)
    PROVE  LET d == Aged(c)
           IN  CircuitOK(d) /\ (CarriesPin(c) => CarriesPin(d)) /\ (c = Untracked => d = Untracked)
  <1>. DEFINE age == IF c.state = "open" THEN CountTo(c.openAge, Horizon) ELSE c.openAge
              w429 == Older(c.open429Window)
              w == Older(c.openWindow)
              d == [c EXCEPT !.openAge = age, !.open429Window = w429, !.openWindow = w]
  <1>1. c \in Circuit
    BY DEF CircuitOK
  <1>2. /\ age \in 0..Horizon /\ w429 \in NoWindow..(ReopenWindow + 1)
        /\ w \in NoWindow..(ReopenWindow + 1)
    BY <1>1, BoundsAssumption, HorizonAssumption DEF Circuit, Older, CountTo, NoWindow
  <1>3. c = Untracked => age = c.openAge /\ w429 = c.open429Window /\ w = c.openWindow
    BY DEF Untracked, Fresh, Older
  <1>4. Aged(c) = d
    BY <1>1 DEF Aged, Circuit
  <1>. HIDE DEF age, w429, w
  <1>5. d \in Circuit
    <2>1. [c EXCEPT !.openAge = age] \in Circuit
      BY <1>1, <1>2, CircuitFields, Zenon
    <2>2. [c EXCEPT !.openAge = age, !.open429Window = w429] \in Circuit
      BY <1>2, <2>1, CircuitFields, Zenon
    <2>. QED BY <1>2, <2>2, CircuitFields, Zenon
  <1>6. /\ SameOpen(d, c) /\ SamePin(d, c) /\ d.cooldownBackoff = c.cooldownBackoff
        /\ d.opens429Streak = c.opens429Streak
    BY <1>1 DEF Circuit, SameOpen, SamePin
  <1>7. c = Untracked => d = c
    BY <1>1, <1>3 DEF Circuit
  <1>. HIDE DEF d
  <1>8. CircuitOK(d) /\ (CarriesPin(c) => CarriesPin(d))
    <2>1. c.state = "untracked" => c = Untracked
      BY DEF CircuitOK, NoResidueOf
    <2>. QED BY <1>5, <1>6, <1>7, <2>1
         DEF CircuitOK, NoResidueOf, WaitsOK, SameOpen, SamePin, CarriesPin
  <1>. QED BY <1>4, <1>7, <1>8

-----------------------------------------------------------------------------
(***************************************************************************)
(* The map of circuits.                                                    *)
(***************************************************************************)

(* Only a closed circuit is evicted, so the seeded one never is. *)
LEMMA GotOrCreated ==
    ASSUME NEW cs, MapOK(cs), NEW k \in Keys, NEW ds \in GetOrCreate(cs, k)
    PROVE  /\ ds \in [Keys -> Circuit] /\ \A i \in Keys : CircuitOK(ds[i])
           /\ ds[k].state # "untracked"
           /\ k # Seed => ds[Seed] = cs[Seed]
           /\ k = Seed => ds[Seed].failedProbes = 0
  <1>. USE NewCircuits
  <1>1. /\ cs \in [Keys -> Circuit] /\ \A i \in Keys : CircuitOK(cs[i])
        /\ cs[Seed] = Untracked \/ CarriesPin(cs[Seed])
        /\ Seed \in Keys
    BY DEF MapOK, Keys
  <1>2. Untracked \in Circuit /\ Fresh \in Circuit
    BY DEF CircuitOK
  <1>3. CASE cs[k].state # "untracked" /\ ds = cs
    BY <1>1, <1>3 DEF CarriesPin
  <1>4. CASE ds = [cs EXCEPT ![k] = Fresh]
    BY <1>1, <1>2, <1>4
  <1>5. ASSUME NEW v \in Keys, cs[v].state = "closed", cs[k].state = "untracked",
               ds = [cs EXCEPT ![v] = Untracked, ![k] = Fresh]
        PROVE  /\ ds \in [Keys -> Circuit] /\ \A i \in Keys : CircuitOK(ds[i])
               /\ ds[k].state # "untracked"
               /\ k # Seed => ds[Seed] = cs[Seed]
               /\ k = Seed => ds[Seed].failedProbes = 0
    <2>1. v # Seed
      BY <1>1, <1>5 DEF CarriesPin
    <2>2. ds = [[cs EXCEPT ![v] = Untracked] EXCEPT ![k] = Fresh]
      BY <1>5
    <2>3. [cs EXCEPT ![v] = Untracked] \in [Keys -> Circuit]
      BY <1>1, <1>2
    <2>4. \A i \in Keys : ds[i] = IF i = k THEN Fresh ELSE IF i = v THEN Untracked ELSE cs[i]
      BY <1>1, <2>2
    <2>5. ds \in [Keys -> Circuit]
      BY <1>2, <2>2, <2>3
    <2>. QED BY <1>1, <2>1, <2>4, <2>5
  <1>6. \/ cs[k].state # "untracked" /\ ds = cs
        \/ ds = [cs EXCEPT ![k] = Fresh]
        \/ /\ cs[k].state = "untracked"
           /\ \E v \in Keys : cs[v].state = "closed" /\ ds = [cs EXCEPT ![v] = Untracked, ![k] = Fresh]
    BY DEF GetOrCreate
  <1>. QED BY <1>3, <1>4, <1>5, <1>6

(* A routed model's circuit is replaced by a whole one. *)
LEMMA Updated ==
    ASSUME NEW ds \in [Keys -> Circuit], \A i \in Keys : CircuitOK(ds[i]),
           ds[Seed] = Untracked \/ CarriesPin(ds[Seed]),
           NEW m \in Models, NEW d, CircuitOK(d)
    PROVE  MapOK([ds EXCEPT ![m] = d])
  <1>1. m # Seed /\ m \in Keys /\ Seed \in Keys /\ d \in Circuit
    BY KeysAssumption DEF Keys, CircuitOK
  <1>2. [ds EXCEPT ![m] = d] \in [Keys -> Circuit]
    BY <1>1
  <1>3. \A i \in Keys : [ds EXCEPT ![m] = d][i] = IF i = m THEN d ELSE ds[i]
    BY <1>1
  <1>. QED BY <1>1, <1>2, <1>3 DEF MapOK

(* A circuit-by-circuit change that keeps circuits whole and the seeded    *)
(* one a carrier keeps the map.                                            *)
LEMMA Mapped ==
    ASSUME NEW cs, MapOK(cs), NEW ds, ds = [k \in Keys |-> ds[k]],
           \A k \in Keys : CircuitOK(ds[k]),
           \/ ds[Seed] = Untracked
           \/ (CarriesPin(cs[Seed]) => CarriesPin(ds[Seed])) /\ (cs[Seed] = Untracked => ds[Seed] = Untracked)
    PROVE  MapOK(ds)
  BY DEF MapOK, CircuitOK

LEMMA RetargetedMap ==
    ASSUME NEW cs, MapOK(cs), NEW s \in Configs, NEW adv \in Advice, NEW j \in [Keys -> Jitters]
    PROVE  MapOK([k \in Keys |-> Retarget(cs[k], s, adv, j[k])])
  <1>. DEFINE ds == [k \in Keys |-> Retarget(cs[k], s, adv, j[k])]
  <1>1. \A k \in Keys :
           /\ CircuitOK(ds[k]) /\ (CarriesPin(cs[k]) => CarriesPin(ds[k]))
           /\ cs[k] = Untracked => ds[k] = Untracked
    <2>. SUFFICES ASSUME NEW k \in Keys
                  PROVE  /\ CircuitOK(ds[k]) /\ (CarriesPin(cs[k]) => CarriesPin(ds[k]))
                         /\ cs[k] = Untracked => ds[k] = Untracked
      OBVIOUS
    <2>1. CircuitOK(cs[k]) /\ j[k] \in Nat /\ ds[k] = Retarget(cs[k], s, adv, j[k])
      BY BoundsAssumption DEF MapOK
    <2>. HIDE DEF ds
    <2>. QED BY <2>1, RetargetedWhole
  <1>2. ds = [k \in Keys |-> ds[k]] /\ Seed \in Keys
    BY DEF Keys
  <1>. HIDE DEF ds
  <1>3. MapOK(ds)
    BY <1>1, <1>2, Mapped
  <1>. QED BY <1>3 DEF ds

LEMMA Swept ==
    ASSUME NEW cs, MapOK(cs), NEW s
    PROVE  MapOK(SweepExpiredSeeds(cs, s))
  <1>. DEFINE ds == [cs EXCEPT ![Seed] = Untracked]
  <1>1. cs \in [Keys -> Circuit] /\ Seed \in Keys /\ CircuitOK(Untracked) /\ Untracked \in Circuit
    BY NewCircuits DEF MapOK, Keys, CircuitOK
  <1>2. ds \in [Keys -> Circuit] /\ \A k \in Keys : ds[k] = IF k = Seed THEN Untracked ELSE cs[k]
    BY <1>1
  <1>. HIDE DEF ds
  <1>3. MapOK(ds)
    BY <1>1, <1>2 DEF MapOK
  <1>. QED BY <1>3 DEF SweepExpiredSeeds, ds

LEMMA ReleasedMap ==
    ASSUME NEW cs, MapOK(cs), NEW lifted, \A k \in lifted : k \in Keys /\ cs[k].cooldownOverride # 0
    PROVE  MapOK(Released(cs, lifted))
  <1>. DEFINE ds == Released(cs, lifted)
  <1>1. ds = [k \in Keys |-> ds[k]]
    BY DEF Released
  <1>2. \A k \in Keys : ds[k] = IF k \notin lifted THEN cs[k]
                                ELSE IF k = Seed THEN Untracked ELSE ReleasePin(cs[k])
    BY DEF Released
  <1>. HIDE DEF ds
  <1>3. \A k \in Keys : CircuitOK(ds[k])
    <2>1. \A k \in lifted : CircuitOK(ReleasePin(cs[k]))
      BY ReleasedWhole DEF MapOK
    <2>. QED BY <1>2, <2>1, NewCircuits DEF MapOK
  <1>4. ds[Seed] = Untracked \/ ds[Seed] = cs[Seed]
    BY <1>2 DEF Keys
  <1>5. MapOK(ds)
    BY <1>1, <1>3, <1>4, Mapped
  <1>. QED BY <1>5 DEF ds

(* The seed is opened under a pin above the configured cooldown. *)
LEMMA Seeded ==
    ASSUME NEW cs, MapOK(cs), NEW s \in Configs, NEW adv \in Advice, NEW j \in Nat,
           NEW x \in 0..(SeedSteps - 1), NEW ds \in SeedQuotaPin(cs, s, adv, j, x)
    PROVE  MapOK(ds)
  <1>. DEFINE pin == ClampPin(adv.resetsIn, s.pinMax, s.cooldown, j)
              source == AdvisorPinSource(adv.reserved)
  <1>1. pin \in Nat /\ pin <= Horizon
    <2>1. adv.resetsIn \in Nat /\ s.cooldown \in Nat
      BY ConfigTypes DEF Advice
    <2>2. pin \in Nat /\ pin <= Ceiling(s)
      BY <2>1, ClampedPin
    <2>. HIDE DEF pin
    <2>. QED BY <2>2, ConfigTypes
  <1>2. source \in {"advisor", "reserve"} /\ source \in PinSources
    BY DEF AdvisorPinSource, PinSources
  <1>3. CASE ds = cs
    BY <1>3
  <1>4. CASE pin # 0 /\ ds # cs
    <2>1. PICK room \in GetOrCreate(cs, Seed) :
             ds = [room EXCEPT ![Seed] =
                     [@ EXCEPT !.state = "open", !.openAge = 0, !.consecutiveFails = s.threshold,
                               !.cooldownOverride = pin, !.pinSource = source, !.probeSeed = x]]
      BY <1>4 DEF SeedQuotaPin
    <2>. DEFINE c == room[Seed]
                d == [c EXCEPT !.state = "open", !.openAge = 0, !.consecutiveFails = s.threshold,
                               !.cooldownOverride = pin, !.pinSource = source, !.probeSeed = x]
    <2>2. Seed \in Keys
      BY DEF Keys
    <2>3. /\ room \in [Keys -> Circuit] /\ \A i \in Keys : CircuitOK(room[i])
          /\ room[Seed].failedProbes = 0
      BY <2>2, GotOrCreated
    <2>4. ds = [room EXCEPT ![Seed] = d]
      BY <2>1, <2>2, <2>3
    <2>5. c \in Circuit /\ CircuitOK(c) /\ s.threshold \in Nat
      BY <2>2, <2>3, ConfigTypes
    <2>. HIDE DEF pin, source
    <2>6. d \in Circuit
      <3>. HIDE DEF c
      <3>1. [c EXCEPT !.state = "open"] \in Circuit
        BY <2>5, Constants, CircuitFields, Zenon
      <3>2. [c EXCEPT !.state = "open", !.openAge = 0] \in Circuit
        BY <3>1, Constants, CircuitFields, Zenon
      <3>3. [c EXCEPT !.state = "open", !.openAge = 0, !.consecutiveFails = s.threshold] \in Circuit
        BY <2>5, <3>2, CircuitFields, Zenon
      <3>4. [c EXCEPT !.state = "open", !.openAge = 0, !.consecutiveFails = s.threshold,
                      !.cooldownOverride = pin] \in Circuit
        BY <1>1, <3>3, CircuitFields, Zenon
      <3>5. [c EXCEPT !.state = "open", !.openAge = 0, !.consecutiveFails = s.threshold,
                      !.cooldownOverride = pin, !.pinSource = source] \in Circuit
        BY <1>2, <3>4, CircuitFields, Zenon
      <3>. QED BY <3>5, CircuitFields, Zenon
    <2>7. /\ d.state = "open" /\ d.cooldownOverride = pin /\ d.pinSource = source
          /\ d.failedProbes = c.failedProbes /\ d.cooldownBackoff = c.cooldownBackoff
      BY <2>5 DEF Circuit
    <2>8. c.failedProbes = 0 /\ c.cooldownBackoff \in Nat
      BY <2>3, <2>5 DEF Circuit
    <2>. HIDE DEF c, d
    <2>9. CircuitOK(d) /\ CarriesPin(d)
      BY <1>1, <1>2, <1>4, <2>5, <2>6, <2>7, <2>8 DEF CircuitOK, NoResidueOf, WaitsOK, CarriesPin
    <2>10. ds \in [Keys -> Circuit] /\ \A i \in Keys : ds[i] = IF i = Seed THEN d ELSE room[i]
      BY <2>2, <2>3, <2>4, <2>6
    <2>. QED BY <2>2, <2>3, <2>9, <2>10 DEF MapOK
  <1>5. ds = cs \/ pin # 0
    BY DEF SeedQuotaPin
  <1>. QED BY <1>3, <1>4, <1>5

-----------------------------------------------------------------------------
(***************************************************************************)
(* The steps.                                                              *)
(***************************************************************************)

(* A step that changes only the circuits. *)
LEMMA CircuitsStep ==
    ASSUME IInv, MapOK(circuits'), UNCHANGED <<settings, advice, asks>>
    PROVE  IInv'
  BY DEF IInv, TypeOK, MapOK, AsksOK

(* An outcome of a request, on the circuit it gets or creates. *)
LEMMA OutcomeStep ==
    ASSUME IInv, NEW m \in Models, NEW ds \in GetOrCreate(circuits, m), NEW d, CircuitOK(d),
           circuits' = [ds EXCEPT ![m] = d], UNCHANGED <<settings, advice, asks>>
    PROVE  IInv'
  <1>1. m \in Keys /\ m # Seed /\ MapOK(circuits)
    BY KeysAssumption DEF Keys, IInv
  <1>2. /\ ds \in [Keys -> Circuit] /\ \A i \in Keys : CircuitOK(ds[i])
        /\ ds[Seed] = circuits[Seed]
    BY <1>1, GotOrCreated
  <1>3. ds[Seed] = Untracked \/ CarriesPin(ds[Seed])
    BY <1>1, <1>2 DEF MapOK
  <1>4. MapOK(circuits')
    BY <1>2, <1>3, Updated
  <1>. QED BY <1>4, CircuitsStep

(* The four outcomes.  Each first starts the probe that may be due. *)
LEMMA RecordSteps ==
    ASSUME IInv, NEW m \in Models,
           \/ \E by429 \in BOOLEAN : RecordFailure(m, by429)
           \/ \E by429, account \in BOOLEAN, hint \in Hints : RecordExhausted(m, by429, hint, account)
           \/ RecordSaturated(m) \/ RecordSuccess(m)
    PROVE  IInv'
  <1>1. m \in Keys /\ settings \in Configs /\ advice \in Advice
    BY DEF Keys, IInv, TypeOK
  <1>2. ASSUME NEW ds \in GetOrCreate(circuits, m)
        PROVE  LET c == ProbeIfCooldownElapsed(ds[m], settings)
               IN  CircuitOK(c) /\ c.state # "untracked" /\ m \in DOMAIN ds
    <2>1. ds \in [Keys -> Circuit] /\ CircuitOK(ds[m]) /\ ds[m].state # "untracked"
      BY <1>1, GotOrCreated DEF IInv
    <2>. QED BY <1>1, <2>1, Probed
  <1>3. ASSUME NEW by429 \in BOOLEAN, RecordFailure(m, by429) PROVE IInv'
    <2>1. PICK ds \in GetOrCreate(circuits, m), j \in Jitters, x \in 0..(SeedSteps - 1) :
             circuits' = [ds EXCEPT ![m] =
                 Failed(ProbeIfCooldownElapsed(@, settings), settings, advice, by429, j, x)]
      BY <1>3 DEF RecordFailure
    <2>. DEFINE c == ProbeIfCooldownElapsed(ds[m], settings)
                d == Failed(c, settings, advice, by429, j, x)
    <2>2. CircuitOK(c) /\ c.state # "untracked" /\ j \in Nat
      BY <1>2, BoundsAssumption
    <2>3. circuits' = [ds EXCEPT ![m] = d]
      BY <1>2, <2>1
    <2>. HIDE DEF c
    <2>4. CircuitOK(d)
      BY <1>1, <2>2, FailedWhole
    <2>. HIDE DEF d
    <2>. QED BY <1>3, <2>3, <2>4, OutcomeStep DEF RecordFailure
  <1>4. ASSUME NEW by429 \in BOOLEAN, NEW account \in BOOLEAN, NEW hint \in Hints,
               RecordExhausted(m, by429, hint, account)
        PROVE  IInv'
    <2>1. PICK ds \in GetOrCreate(circuits, m), j \in Jitters, x \in 0..(SeedSteps - 1) :
             circuits' = [ds EXCEPT ![m] =
                 Exhausted(ProbeIfCooldownElapsed(@, settings), settings, advice,
                           by429, hint, account, j, x)]
      BY <1>4 DEF RecordExhausted
    <2>. DEFINE c == ProbeIfCooldownElapsed(ds[m], settings)
                d == Exhausted(c, settings, advice, by429, hint, account, j, x)
    <2>2. CircuitOK(c) /\ c.state # "untracked" /\ j \in Nat /\ hint \in Nat
      BY <1>2, BoundsAssumption
    <2>3. circuits' = [ds EXCEPT ![m] = d]
      BY <1>2, <2>1
    <2>. HIDE DEF c
    <2>4. CircuitOK(d)
      BY <1>1, <2>2, ExhaustedWhole
    <2>. HIDE DEF d
    <2>. QED BY <1>4, <2>3, <2>4, OutcomeStep DEF RecordExhausted
  <1>5. CASE RecordSaturated(m)
    <2>1. PICK ds \in GetOrCreate(circuits, m) :
             circuits' = [ds EXCEPT ![m] = ProbeIfCooldownElapsed(@, settings)]
      BY <1>5 DEF RecordSaturated
    <2>. DEFINE d == ProbeIfCooldownElapsed(ds[m], settings)
    <2>2. circuits' = [ds EXCEPT ![m] = d] /\ CircuitOK(d)
      BY <1>2, <2>1
    <2>. HIDE DEF d
    <2>. QED BY <1>5, <2>2, OutcomeStep DEF RecordSaturated
  <1>6. CASE RecordSuccess(m)
    <2>1. PICK ds \in GetOrCreate(circuits, m) :
             circuits' = [ds EXCEPT ![m] = Succeeded(ProbeIfCooldownElapsed(@, settings))]
      BY <1>6 DEF RecordSuccess
    <2>. DEFINE c == ProbeIfCooldownElapsed(ds[m], settings)
                d == Succeeded(c)
    <2>2. CircuitOK(c) /\ c.state # "untracked" /\ circuits' = [ds EXCEPT ![m] = d]
      BY <1>2, <2>1
    <2>. HIDE DEF c
    <2>3. CircuitOK(d)
      BY <2>2, SucceededWhole
    <2>. HIDE DEF d
    <2>. QED BY <1>6, <2>2, <2>3, OutcomeStep DEF RecordSuccess
  <1>. QED BY <1>3, <1>4, <1>5, <1>6

(* The two halves of IsOpen; only a routed model is probed. *)
LEMMA AskSteps ==
    ASSUME IInv, NEW a \in Callers,
           (\E m \in Models : IsOpenRead(a, m)) \/ IsOpenWrite(a)
    PROVE  IInv'
  <1>1. ASSUME NEW m \in Models, NEW open \in BOOLEAN
        PROVE  Answer(m, open) \in AskType /\ Answer(m, open).pc # "relock"
    BY DEF Answer, AskType, Keys
  <1>2. ASSUME NEW m \in Models, IsOpenRead(a, m) PROVE IInv'
    <2>. DEFINE told == IF circuits[m].state # "open" THEN Answer(m, ProviderOpen(circuits, settings))
                        ELSE IF StillDark(circuits[m], settings) THEN Answer(m, TRUE)
                        ELSE [pc |-> "relock", model |-> m]
    <2>1. asks' = [asks EXCEPT ![a] = told] /\ UNCHANGED <<circuits, settings, advice>>
      BY <1>2 DEF IsOpenRead
    <2>2. ProviderOpen(circuits, settings) \in BOOLEAN
      BY DEF ProviderOpen, AccountPinned
    <2>3. /\ [pc |-> "relock", model |-> m] \in AskType
          /\ [pc |-> "relock", model |-> m].model = m
      BY DEF AskType, Keys
    <2>4. told \in AskType /\ (told.pc = "relock" => told.model \in Models)
      BY <1>1, <2>2, <2>3
    <2>. HIDE DEF told
    <2>. QED BY <2>1, <2>4 DEF IInv, TypeOK, MapOK, AsksOK
  <1>3. CASE IsOpenWrite(a)
    <2>. DEFINE m == asks[a].model
                d == ProbeIfCooldownElapsed(circuits[m], settings)
                cs == [circuits EXCEPT ![m] = d]
    <2>1. m \in Models /\ MapOK(circuits) /\ settings \in Configs
      BY <1>3 DEF IsOpenWrite, IInv, AsksOK, TypeOK
    <2>2. CircuitOK(d)
      BY <2>1, Probed DEF MapOK, Keys
    <2>3. MapOK(cs)
      <3>. HIDE DEF d
      <3>. QED BY <2>1, <2>2, Updated DEF MapOK
    <2>4. /\ circuits' = cs /\ UNCHANGED <<settings, advice>>
          /\ asks' = [asks EXCEPT ![a] = Answer(m, ProviderOpen(cs, settings))]
      BY <1>3 DEF IsOpenWrite
    <2>. HIDE DEF cs, d
    <2>5. ProviderOpen(cs, settings) \in BOOLEAN
      BY DEF ProviderOpen, AccountPinned
    <2>. DEFINE told == Answer(m, ProviderOpen(cs, settings))
    <2>6. told \in AskType /\ told.pc # "relock"
      BY <1>1, <2>1, <2>5
    <2>. HIDE DEF told
    <2>7. asks' = [asks EXCEPT ![a] = told]
      BY <2>4 DEF told
    <2>. QED BY <2>3, <2>4, <2>6, <2>7 DEF IInv, TypeOK, MapOK, AsksOK
  <1>. QED BY <1>2, <1>3

(* The quota poller: sweep, retarget, seed; and the releases. *)
LEMMA QuotaSteps ==
    ASSUME IInv, (\E adv \in Readings : ApplyQuotaPins(adv)) \/ ReleaseQuotaPins \/ ReleaseAllQuotaPins
    PROVE  IInv'
  <1>1. MapOK(circuits) /\ settings \in Configs
    BY DEF IInv, TypeOK
  <1>2. ASSUME NEW adv \in Readings, ApplyQuotaPins(adv) PROVE IInv'
    <2>. DEFINE swept == SweepExpiredSeeds(circuits, settings)
    <2>1. MapOK(swept) /\ adv \in Advice
      BY <1>1, Swept, BoundsAssumption
    <2>2. CASE circuits' = swept
      BY <1>2, <2>1, <2>2, CircuitsStep DEF ApplyQuotaPins
    <2>3. CASE circuits' # swept
      <3>1. PICK j \in [Keys -> Jitters], x \in 0..(SeedSteps - 1) :
               circuits' \in SeedQuotaPin([k \in Keys |-> Retarget(swept[k], settings, adv, j[k])],
                                          settings, adv, j[Seed], x)
        BY <1>2, <2>3, Zenon DEF ApplyQuotaPins
      <3>. DEFINE pinned == [k \in Keys |-> Retarget(swept[k], settings, adv, j[k])]
      <3>2. MapOK(pinned) /\ j[Seed] \in Nat
        BY <1>1, <2>1, RetargetedMap, BoundsAssumption DEF Keys
      <3>3. circuits' \in SeedQuotaPin(pinned, settings, adv, j[Seed], x)
        BY <3>1
      <3>. HIDE DEF pinned
      <3>4. MapOK(circuits')
        BY <1>1, <2>1, <3>2, <3>3, Seeded
      <3>. QED BY <1>2, <3>4, CircuitsStep DEF ApplyQuotaPins
    <2>. QED BY <2>2, <2>3
  <1>3. CASE ReleaseQuotaPins
    <2>. DEFINE cleared == [k \in Keys |-> Clear429Escalation(circuits[k])]
                lifted == {k \in Keys : /\ circuits[k].cooldownOverride # 0
                                        /\ PinSpeaksForAccount(circuits[k].pinSource)}
    <2>1. \A k \in Keys :
             /\ CircuitOK(cleared[k]) /\ SamePin(cleared[k], circuits[k])
             /\ CarriesPin(circuits[k]) => CarriesPin(cleared[k])
             /\ circuits[k] = Untracked => cleared[k] = Untracked
      <3>. SUFFICES ASSUME NEW k \in Keys
                    PROVE  /\ CircuitOK(cleared[k]) /\ SamePin(cleared[k], circuits[k])
                           /\ CarriesPin(circuits[k]) => CarriesPin(cleared[k])
                           /\ circuits[k] = Untracked => cleared[k] = Untracked
        OBVIOUS
      <3>1. CircuitOK(circuits[k]) /\ cleared[k] = Clear429Escalation(circuits[k])
        BY <1>1 DEF MapOK
      <3>. HIDE DEF cleared
      <3>. QED BY <3>1, ClearedWhole
    <2>2. cleared = [k \in Keys |-> cleared[k]] /\ Seed \in Keys
      BY DEF Keys
    <2>3. circuits' = Released(cleared, lifted)
      BY <1>3 DEF ReleaseQuotaPins
    <2>. HIDE DEF cleared
    <2>4. MapOK(cleared)
      BY <1>1, <2>1, <2>2, Mapped
    <2>5. \A k \in lifted : k \in Keys /\ cleared[k].cooldownOverride # 0
      BY <2>1 DEF SamePin
    <2>. HIDE DEF lifted
    <2>6. MapOK(circuits')
      BY <2>3, <2>4, <2>5, ReleasedMap
    <2>. QED BY <1>3, <2>6, CircuitsStep DEF ReleaseQuotaPins
  <1>4. CASE ReleaseAllQuotaPins
    <2>. DEFINE lifted == {k \in Keys : circuits[k].cooldownOverride # 0}
    <2>1. circuits' = Released(circuits, lifted)
      BY <1>4 DEF ReleaseAllQuotaPins
    <2>2. \A k \in lifted : k \in Keys /\ circuits[k].cooldownOverride # 0
      OBVIOUS
    <2>. HIDE DEF lifted
    <2>3. MapOK(circuits')
      BY <1>1, <2>1, <2>2, ReleasedMap
    <2>. QED BY <1>4, <2>3, CircuitsStep DEF ReleaseAllQuotaPins
  <1>. QED BY <1>2, <1>3, <1>4

(* A manual reset drops circuits. *)
LEMMA ResetSteps ==
    ASSUME IInv, (\E k \in Keys : ResetModel(k)) \/ Reset
    PROVE  IInv'
  <1>1. MapOK(circuits) /\ CircuitOK(Untracked) /\ Untracked \in Circuit /\ Seed \in Keys
    BY NewCircuits DEF IInv, CircuitOK, Keys
  <1>2. ASSUME NEW k \in Keys, ResetModel(k) PROVE IInv'
    <2>1. circuits' = [circuits EXCEPT ![k] = Untracked] /\ UNCHANGED <<settings, advice, asks>>
      BY <1>2 DEF ResetModel
    <2>2. /\ circuits' \in [Keys -> Circuit]
          /\ \A i \in Keys : circuits'[i] = IF i = k THEN Untracked ELSE circuits[i]
      BY <1>1, <2>1 DEF MapOK
    <2>3. MapOK(circuits')
      BY <1>1, <2>2 DEF MapOK
    <2>. QED BY <2>1, <2>3, CircuitsStep
  <1>3. CASE Reset
    <2>1. circuits' = [k \in Keys |-> Untracked] /\ UNCHANGED <<settings, advice, asks>>
      BY <1>3 DEF Reset
    <2>2. circuits' \in [Keys -> Circuit] /\ \A i \in Keys : circuits'[i] = Untracked
      BY <1>1, <2>1
    <2>3. MapOK(circuits')
      BY <1>1, <2>2 DEF MapOK
    <2>. QED BY <2>1, <2>3, CircuitsStep
  <1>. QED BY <1>2, <1>3

(* Steps that touch no circuit, and time. *)
LEMMA OtherSteps ==
    ASSUME IInv,
           \/ \E adv \in Readings : ReplaceAdvice(adv)
           \/ \E s \in Configs : ChangeSettings(s)
           \/ Tick \/ UNCHANGED vars
    PROVE  IInv'
  <1>1. ASSUME NEW adv \in Readings, ReplaceAdvice(adv) PROVE IInv'
    BY <1>1, BoundsAssumption DEF ReplaceAdvice, IInv, TypeOK, MapOK, AsksOK
  <1>2. ASSUME NEW s \in Configs, ChangeSettings(s) PROVE IInv'
    BY <1>2 DEF ChangeSettings, IInv, TypeOK, MapOK, AsksOK
  <1>3. CASE UNCHANGED vars
    BY <1>3 DEF vars, IInv, TypeOK, MapOK, AsksOK
  <1>4. CASE Tick
    <2>1. MapOK(circuits) /\ advice \in Advice /\ Seed \in Keys
      BY DEF IInv, TypeOK, Keys
    <2>2. /\ circuits' = [k \in Keys |-> Aged(circuits[k])] /\ UNCHANGED <<settings, asks>>
          /\ advice' = [advice EXCEPT !.resetsIn = IF @ > 0 THEN @ - 1 ELSE 0]
      BY <1>4 DEF Tick
    <2>3. \A k \in Keys :
             /\ CircuitOK(circuits'[k]) /\ (CarriesPin(circuits[k]) => CarriesPin(circuits'[k]))
             /\ circuits[k] = Untracked => circuits'[k] = Untracked
      <3>. SUFFICES ASSUME NEW k \in Keys
                    PROVE  /\ CircuitOK(circuits'[k])
                           /\ CarriesPin(circuits[k]) => CarriesPin(circuits'[k])
                           /\ circuits[k] = Untracked => circuits'[k] = Untracked
        OBVIOUS
      <3>1. CircuitOK(circuits[k]) /\ circuits'[k] = Aged(circuits[k])
        BY <2>1, <2>2 DEF MapOK
      <3>. QED BY <3>1, AgedWhole
    <2>4. circuits' = [k \in Keys |-> circuits'[k]]
      BY <2>2
    <2>5. MapOK(circuits')
      BY <2>1, <2>3, <2>4, Mapped
    <2>6. advice' \in Advice
      <3>. DEFINE left == IF advice.resetsIn > 0 THEN advice.resetsIn - 1 ELSE 0
      <3>1. left \in Nat /\ advice' = [advice EXCEPT !.resetsIn = left]
        BY <2>1, <2>2 DEF Advice
      <3>. HIDE DEF left
      <3>. QED BY <2>1, <3>1 DEF Advice
    <2>. QED BY <2>2, <2>5, <2>6 DEF IInv, TypeOK, MapOK, AsksOK
  <1>. QED BY <1>1, <1>2, <1>3, <1>4

-----------------------------------------------------------------------------
(***************************************************************************)
(* The results.                                                            *)
(***************************************************************************)
LEMMA InitIInv == Init => IInv
  <1>. SUFFICES ASSUME Init PROVE IInv
    OBVIOUS
  <1>1. CircuitOK(Untracked) /\ Untracked \in Circuit /\ Seed \in Keys
    BY NewCircuits DEF CircuitOK, Keys
  <1>2. MapOK(circuits)
    BY <1>1 DEF Init, MapOK
  <1>3. NoAdvice \in Advice /\ Idle \in AskType /\ Idle.pc = "idle"
    BY <1>1 DEF NoAdvice, Advice, Idle, AskType
  <1>. QED BY <1>2, <1>3 DEF Init, IInv, TypeOK, MapOK, AsksOK

LEMMA NextIInv == IInv /\ [Next]_vars => IInv'
  <1>. SUFFICES ASSUME IInv, [Next]_vars PROVE IInv'
    OBVIOUS
  <1>1. ASSUME NEW a \in Callers, (\E m \in Models : IsOpenRead(a, m)) \/ IsOpenWrite(a)
        PROVE  IInv'
    BY <1>1, AskSteps
  <1>2. ASSUME NEW m \in Models,
               \/ \E by429 \in BOOLEAN : RecordFailure(m, by429)
               \/ \E by429, account \in BOOLEAN, hint \in Hints :
                      RecordExhausted(m, by429, hint, account)
               \/ RecordSaturated(m) \/ RecordSuccess(m)
        PROVE  IInv'
    BY <1>2, RecordSteps
  <1>3. CASE (\E adv \in Readings : ApplyQuotaPins(adv)) \/ ReleaseQuotaPins \/ ReleaseAllQuotaPins
    BY <1>3, QuotaSteps
  <1>4. CASE (\E k \in Keys : ResetModel(k)) \/ Reset
    BY <1>4, ResetSteps
  <1>5. CASE \/ \E adv \in Readings : ReplaceAdvice(adv)
             \/ \E s \in Configs : ChangeSettings(s)
             \/ Tick \/ UNCHANGED vars
    BY <1>5, OtherSteps
  <1>. QED BY <1>1, <1>2, <1>3, <1>4, <1>5 DEF Next

(* The inductive invariant holds in every reachable state. *)
THEOREM Inductive == Spec => []IInv
  BY InitIInv, NextIInv, PTL DEF Spec

(* Every circuit, setting, advice and answer has its type throughout       *)
(* (circuit, cooldownReads, QuotaAdvice).                                  *)
THEOREM TypeCorrect == Spec => []TypeOK
  <1>1. IInv => TypeOK
    BY DEF IInv
  <1>. QED BY <1>1, Inductive, PTL

(* For any models and settings, a circuit that closed keeps nothing of the *)
(* incident, and a pin and its source come and go together (recordSuccess, *)
(* applyQuotaPin, releasePin).                                             *)
THEOREM NothingLeftBehind == Spec => []NoResidue
  <1>1. IInv => NoResidue
    BY DEF IInv, MapOK, CircuitOK, NoResidue
  <1>. QED BY <1>1, Inductive, PTL

(* A seeded circuit is open under a measured pin or is not there           *)
(* (seedQuotaPin, retireIfSeeded, evictIfFull).                            *)
THEOREM SeedAlwaysCarriesPin == Spec => []SeedOnlyCarriesPin
  <1>1. IInv => SeedOnlyCarriesPin
    BY DEF IInv, MapOK, CarriesPin, SeedOnlyCarriesPin
  <1>. QED BY <1>1, Inductive, PTL

-----------------------------------------------------------------------------
(***************************************************************************)
(* A dark circuit stays dark as long as it was going to.                   *)
(***************************************************************************)
StaysDark(d, c, s) == Blocking(d, s) /\ WaitOf(d, s) >= WaitOf(c, s)

LEMMA UnmovedStaysDark ==
    ASSUME NEW c, CircuitOK(c), NEW s \in Configs, Blocking(c, s)
    PROVE  StaysDark(c, c, s)
  <1>1. EffectiveCooldown(c, s) \in Nat /\ c.openAge \in Int
    BY CooldownBounds, HorizonAssumption DEF CircuitOK, Circuit
  <1>. QED BY <1>1 DEF StaysDark, WaitOf

(* No outcome moves an open circuit whose cooldown has not elapsed. *)
LEMMA OutcomesPassBy ==
    ASSUME NEW c, NEW s, Blocking(c, s), NEW adv, NEW by429, NEW hint, NEW account, NEW j, NEW x
    PROVE  /\ ProbeIfCooldownElapsed(c, s) = c
           /\ Failed(c, s, adv, by429, j, x) = c
           /\ Exhausted(c, s, adv, by429, hint, account, j, x) = c
           /\ Succeeded(c) = c
  <1>1. c.state = "open" /\ StillDark(c, s)
    BY DEF Blocking
  <1>. QED BY <1>1, Zenon DEF ProbeIfCooldownElapsed, Failed, Exhausted, Succeeded

(* Making room evicts no open circuit. *)
LEMMA OpenNotEvicted ==
    ASSUME NEW cs \in [Keys -> Circuit], NEW k \in Keys, NEW ds \in GetOrCreate(cs, k),
           NEW i \in Keys, cs[i].state = "open"
    PROVE  ds[i] = cs[i]
  <1>1. CASE ds = cs
    BY <1>1
  <1>2. CASE cs[k].state = "untracked" /\ ds = [cs EXCEPT ![k] = Fresh]
    BY <1>2
  <1>3. ASSUME NEW v \in Keys, cs[v].state = "closed", cs[k].state = "untracked",
               ds = [cs EXCEPT ![v] = Untracked, ![k] = Fresh]
        PROVE  ds[i] = cs[i]
    <2>1. i # v /\ i # k
      BY <1>3
    <2>. QED BY <1>3, <2>1
  <1>. QED BY <1>1, <1>2, <1>3 DEF GetOrCreate

(* Making room leaves a circuit as it is, or forgets it, or starts it. *)
LEMMA GotNothing ==
    ASSUME NEW cs \in [Keys -> Circuit], NEW k \in Keys, NEW ds \in GetOrCreate(cs, k), NEW i \in Keys
    PROVE  ds[i] \in {cs[i], Untracked, Fresh}
  <1>1. \/ ds = cs \/ ds = [cs EXCEPT ![k] = Fresh]
        \/ \E v \in Keys : ds = [cs EXCEPT ![v] = Untracked, ![k] = Fresh]
    BY DEF GetOrCreate
  <1>. QED BY <1>1

(* A reading only ever lengthens the wait it retargets: the new pin clears *)
(* the cooldown in force, and a rename changes no pace.                    *)
LEMMA RetargetStaysDark ==
    ASSUME NEW c, CircuitOK(c), NEW s \in Configs, s.pinMax # 0, NEW adv \in Advice, NEW j \in Nat,
           Blocking(c, s)
    PROVE  StaysDark(Retarget(c, s, adv, j), c, s)
  <1>. DEFINE floor == EffectiveCooldown(c, s)
              length == adv.resetsIn + c.openAge
              pin == ClampPin(length, s.pinMax, floor, j)
              source == AdvisorPinSource(adv.reserved)
              measured == c.cooldownOverride > 0 /\ c.pinSource \in {"advisor", "reserve"}
              a == [c EXCEPT !.cooldownOverride = pin, !.pinSource = source]
              b == [c EXCEPT !.pinSource = source]
  <1>1. /\ c \in Circuit /\ c.openAge \in Nat /\ c.state = "open" /\ c.openAge < floor
        /\ s.pinMax > 0
    BY HorizonAssumption, ConfigTypes DEF CircuitOK, Circuit, Blocking, StillDark
  <1>2. ~PinProbes(source) /\ PinProbes(source) = FALSE
    BY DEF AdvisorPinSource, PinProbes
  <1>3. floor \in Nat /\ length \in Nat /\ UnpinnedCooldown(c, s) \in Nat /\ UnpinnedCooldown(c, s) <= floor
    BY <1>1, CooldownBounds DEF CircuitOK, Advice
  <1>4. Retarget(c, s, adv, j) = IF pin > 0 THEN a ELSE IF measured THEN b ELSE c
    BY DEF Retarget
  <1>5. pin \in Nat /\ (pin # 0 => pin > floor)
    <2>. HIDE DEF floor, length
    <2>. QED BY <1>3, ClampedPin
  <1>. HIDE DEF length, source, pin
  <1>6. /\ a.openAge = c.openAge /\ a.state = c.state /\ a.cooldownOverride = pin
        /\ a.pinSource = source /\ a.cooldownBackoff = c.cooldownBackoff
        /\ b.openAge = c.openAge /\ b.state = c.state /\ b.cooldownOverride = c.cooldownOverride
        /\ b.pinSource = source /\ b.cooldownBackoff = c.cooldownBackoff /\ b.probeSeed = c.probeSeed
    BY <1>1 DEF Circuit
  <1>. HIDE DEF a, b
  <1>7. CASE pin > 0
    <2>1. UnpinnedCooldown(a, s) = UnpinnedCooldown(c, s)
      BY <1>6 DEF UnpinnedCooldown, BackedOff
    <2>2. EffectiveCooldown(a, s) = pin
      <3>1. QuotaPinned(a, s) /\ ~(a.cooldownOverride <= UnpinnedCooldown(a, s)) /\ ~PinProbes(a.pinSource)
        <4>. HIDE DEF floor
        <4>. QED BY <1>1, <1>2, <1>3, <1>5, <1>6, <1>7, <2>1 DEF QuotaPinned
      <3>. QED BY <1>6, <3>1, Zenon DEF EffectiveCooldown
    <2>3. StaysDark(a, c, s)
      <3>1. /\ Blocking(a, s) <=> a.state = "open" /\ a.openAge < pin
            /\ WaitOf(a, s) = pin - c.openAge /\ WaitOf(c, s) = floor - c.openAge
        BY <1>6, <2>2 DEF Blocking, StillDark, WaitOf
      <3>. HIDE DEF floor
      <3>. QED BY <1>1, <1>3, <1>5, <1>6, <1>7, <3>1 DEF StaysDark
    <2>. QED BY <1>4, <1>7, <2>3
  <1>8. CASE ~(pin > 0) /\ measured
    <2>1. ~PinProbes(c.pinSource) /\ ~PinProbes(b.pinSource)
      BY <1>2, <1>6, <1>8 DEF PinProbes
    <2>2. UnpinnedCooldown(b, s) = UnpinnedCooldown(c, s) /\ (QuotaPinned(b, s) <=> QuotaPinned(c, s))
      BY <1>6 DEF UnpinnedCooldown, BackedOff, QuotaPinned
    <2>3. EffectiveCooldown(b, s) = floor
      <3>1. b.cooldownOverride = c.cooldownOverride
        BY <1>6
      <3>. QED BY <2>1, <2>2, <3>1, Zenon DEF EffectiveCooldown
    <2>4. /\ Blocking(b, s) <=> b.state = "open" /\ b.openAge < floor
          /\ WaitOf(b, s) = floor - c.openAge /\ WaitOf(c, s) = floor - c.openAge
      BY <1>6, <2>3 DEF Blocking, StillDark, WaitOf
    <2>5. StaysDark(b, c, s)
      <3>. HIDE DEF floor
      <3>. QED BY <1>1, <1>3, <1>6, <2>4 DEF StaysDark
    <2>. QED BY <1>4, <1>8, <2>5
  <1>9. CASE ~(pin > 0) /\ ~measured
    <2>1. Retarget(c, s, adv, j) = c
      BY <1>4, <1>9
    <2>. QED BY <2>1, UnmovedStaysDark
  <1>. QED BY <1>7, <1>8, <1>9

(* The seed is planted only where no account pin holds, so never over a    *)
(* seed that blocks.                                                       *)
LEMMA SeedingPassesBy ==
    ASSUME NEW cs, MapOK(cs), NEW s \in Configs, s.pinMax # 0, NEW adv, NEW j, NEW x,
           NEW ds \in SeedQuotaPin(cs, s, adv, j, x), NEW k \in Keys, Blocking(cs[k], s)
    PROVE  ds[k] = cs[k]
  <1>1. cs \in [Keys -> Circuit] /\ Seed \in Keys /\ cs[k].state = "open"
    BY DEF MapOK, Keys, Blocking
  <1>2. CASE k = Seed
    <2>1. CarriesPin(cs[Seed])
      BY <1>1, <1>2, NewCircuits DEF MapOK
    <2>2. k \in Blocked(cs, s) /\ QuotaPinned(cs[k], s) /\ PinSpeaksForAccount(cs[k].pinSource)
      BY <1>2, <2>1, ConfigTypes DEF CarriesPin, Blocked, QuotaPinned, PinSpeaksForAccount
    <2>3. AccountPinned(cs, s)
      BY <2>2 DEF AccountPinned
    <2>. QED BY <2>3 DEF SeedQuotaPin
  <1>3. CASE k # Seed /\ ds # cs
    <2>1. PICK room \in GetOrCreate(cs, Seed) : \E d : ds = [room EXCEPT ![Seed] = d]
      BY <1>3 DEF SeedQuotaPin
    <2>2. room[k] = cs[k] /\ room \in [Keys -> Circuit]
      BY <1>1, GotOrCreated, OpenNotEvicted
    <2>. QED BY <1>3, <2>1, <2>2
  <1>. QED BY <1>2, <1>3

(* For any models and settings: no outcome, however late, no eviction, no  *)
(* quota reading and no question of IsOpen shortens the wait of a dark     *)
(* circuit (recordFailure, recordExhausted, recordSuccess, evictIfFull,    *)
(* ApplyQuotaPins).                                                        *)
THEOREM DarknessNeverShortened == Spec => DarkHolds
  <1>. DEFINE Dark == \A k \in Keys :
          Blocking(circuits[k], settings) =>
              /\ Blocking(circuits'[k], settings)
              /\ WaitOf(circuits'[k], settings) >= WaitOf(circuits[k], settings)
  <1>1. ASSUME IInv, Next, ~Lifting PROVE Dark
    <2>. SUFFICES ASSUME NEW k \in Keys, Blocking(circuits[k], settings)
                  PROVE  StaysDark(circuits'[k], circuits[k], settings)
      BY DEF StaysDark
    <2>1. /\ MapOK(circuits) /\ settings \in Configs /\ CircuitOK(circuits[k])
          /\ circuits[k].state = "open" /\ circuits \in [Keys -> Circuit]
      BY <1>1 DEF IInv, TypeOK, MapOK, Blocking
    <2>2. CASE circuits'[k] = circuits[k]
      BY <2>1, <2>2, UnmovedStaysDark
    <2>3. ASSUME NEW m \in Models, NEW ds \in GetOrCreate(circuits, m), NEW d,
                 circuits' = [ds EXCEPT ![m] = d], ds[m] = circuits[m] /\ k = m => d = circuits[m]
          PROVE  circuits'[k] = circuits[k]
      <3>1. m \in Keys /\ ds[k] = circuits[k]
        BY <2>1, OpenNotEvicted DEF Keys
      <3>2. ds \in [Keys -> Circuit]
        BY <2>1, <3>1, GotOrCreated
      <3>. QED BY <2>3, <3>1, <3>2
    <2>4. ASSUME NEW m \in Models,
                 \/ \E by429 \in BOOLEAN : RecordFailure(m, by429)
                 \/ \E by429, account \in BOOLEAN, hint \in Hints :
                        RecordExhausted(m, by429, hint, account)
                 \/ RecordSaturated(m) \/ RecordSuccess(m)
          PROVE  circuits'[k] = circuits[k]
      <3>1. \A ds \in GetOrCreate(circuits, m) : m \in DOMAIN ds
        BY <2>1, GotOrCreated DEF Keys
      <3>2. ASSUME NEW by429 \in BOOLEAN, RecordFailure(m, by429)
            PROVE  circuits'[k] = circuits[k]
        <4>1. PICK ds \in GetOrCreate(circuits, m), j \in Jitters, x \in 0..(SeedSteps - 1) :
                 circuits' = [ds EXCEPT ![m] =
                     Failed(ProbeIfCooldownElapsed(@, settings), settings, advice, by429, j, x)]
          BY <3>2 DEF RecordFailure
        <4>. DEFINE d == Failed(ProbeIfCooldownElapsed(ds[m], settings), settings, advice, by429, j, x)
        <4>2. circuits' = [ds EXCEPT ![m] = d]
          BY <3>1, <4>1
        <4>3. ds[m] = circuits[m] /\ k = m => d = circuits[m]
          BY OutcomesPassBy
        <4>. HIDE DEF d
        <4>. QED BY <2>3, <4>2, <4>3
      <3>3. ASSUME NEW by429 \in BOOLEAN, NEW account \in BOOLEAN, NEW hint \in Hints,
                   RecordExhausted(m, by429, hint, account)
            PROVE  circuits'[k] = circuits[k]
        <4>1. PICK ds \in GetOrCreate(circuits, m), j \in Jitters, x \in 0..(SeedSteps - 1) :
                 circuits' = [ds EXCEPT ![m] =
                     Exhausted(ProbeIfCooldownElapsed(@, settings), settings, advice,
                               by429, hint, account, j, x)]
          BY <3>3 DEF RecordExhausted
        <4>. DEFINE d == Exhausted(ProbeIfCooldownElapsed(ds[m], settings), settings, advice,
                                   by429, hint, account, j, x)
        <4>2. circuits' = [ds EXCEPT ![m] = d]
          BY <3>1, <4>1
        <4>3. ds[m] = circuits[m] /\ k = m => d = circuits[m]
          BY OutcomesPassBy
        <4>. HIDE DEF d
        <4>. QED BY <2>3, <4>2, <4>3
      <3>4. CASE RecordSaturated(m)
        <4>1. PICK ds \in GetOrCreate(circuits, m) :
                 circuits' = [ds EXCEPT ![m] = ProbeIfCooldownElapsed(@, settings)]
          BY <3>4 DEF RecordSaturated
        <4>. DEFINE d == ProbeIfCooldownElapsed(ds[m], settings)
        <4>2. circuits' = [ds EXCEPT ![m] = d]
          BY <3>1, <4>1
        <4>3. ds[m] = circuits[m] /\ k = m => d = circuits[m]
          BY OutcomesPassBy
        <4>. HIDE DEF d
        <4>. QED BY <2>3, <4>2, <4>3
      <3>5. CASE RecordSuccess(m)
        <4>1. PICK ds \in GetOrCreate(circuits, m) :
                 circuits' = [ds EXCEPT ![m] = Succeeded(ProbeIfCooldownElapsed(@, settings))]
          BY <3>5 DEF RecordSuccess
        <4>. DEFINE d == Succeeded(ProbeIfCooldownElapsed(ds[m], settings))
        <4>2. circuits' = [ds EXCEPT ![m] = d]
          BY <3>1, <4>1
        <4>3. ds[m] = circuits[m] /\ k = m => d = circuits[m]
          BY OutcomesPassBy
        <4>. HIDE DEF d
        <4>. QED BY <2>3, <4>2, <4>3
      <3>. QED BY <2>4, <3>2, <3>3, <3>4, <3>5
    <2>5. ASSUME NEW a \in Callers, (\E m \in Models : IsOpenRead(a, m)) \/ IsOpenWrite(a)
          PROVE  circuits'[k] = circuits[k]
      <3>1. ProbeIfCooldownElapsed(circuits[k], settings) = circuits[k]
        BY OutcomesPassBy
      <3>2. CASE IsOpenWrite(a)
        BY <2>1, <3>1, <3>2 DEF IsOpenWrite
      <3>3. CASE \E m \in Models : IsOpenRead(a, m)
        BY <3>3 DEF IsOpenRead
      <3>. QED BY <2>5, <3>2, <3>3
    <2>6. ASSUME NEW adv \in Readings, ApplyQuotaPins(adv)
          PROVE  StaysDark(circuits'[k], circuits[k], settings)
      <3>. DEFINE swept == SweepExpiredSeeds(circuits, settings)
      <3>1. MapOK(swept) /\ swept[k] = circuits[k] /\ adv \in Advice
        BY <2>1, Swept, BoundsAssumption DEF SweepExpiredSeeds
      <3>2. CASE circuits' = swept
        BY <2>2, <3>1, <3>2
      <3>3. CASE circuits' # swept
        <4>1. PICK j \in [Keys -> Jitters], x \in 0..(SeedSteps - 1) :
                 circuits' \in SeedQuotaPin([i \in Keys |-> Retarget(swept[i], settings, adv, j[i])],
                                            settings, adv, j[Seed], x)
          BY <2>6, <3>3, Zenon DEF ApplyQuotaPins
        <4>2. settings.pinMax # 0
          BY <2>6, <3>3, Zenon DEF ApplyQuotaPins
        <4>. DEFINE pinned == [i \in Keys |-> Retarget(swept[i], settings, adv, j[i])]
        <4>3. MapOK(pinned) /\ j[k] \in Nat
          BY <2>1, <3>1, RetargetedMap, BoundsAssumption
        <4>4. circuits' \in SeedQuotaPin(pinned, settings, adv, j[Seed], x)
          BY <4>1
        <4>5. StaysDark(pinned[k], circuits[k], settings)
          <5>1. pinned[k] = Retarget(circuits[k], settings, adv, j[k])
            BY <3>1
          <5>. HIDE DEF pinned
          <5>. QED BY <2>1, <3>1, <4>2, <4>3, <5>1, RetargetStaysDark
        <4>. HIDE DEF pinned
        <4>6. Blocking(pinned[k], settings)
          BY <4>5 DEF StaysDark
        <4>7. circuits'[k] = pinned[k]
          BY <2>1, <4>2, <4>3, <4>4, <4>6, SeedingPassesBy
        <4>. QED BY <4>5, <4>7
      <3>. QED BY <3>2, <3>3
    <2>7. ASSUME NEW adv \in Readings, ReplaceAdvice(adv) PROVE circuits'[k] = circuits[k]
      BY <2>7 DEF ReplaceAdvice
    <2>. QED BY <1>1, <2>2, <2>4, <2>5, <2>6, <2>7 DEF Next, Lifting
  <1>2. IInv /\ [Next]_vars => [Lifting \/ Dark]_vars
    BY <1>1
  <1>. QED BY <1>2, Inductive, PTL DEF Spec, DarkHolds

-----------------------------------------------------------------------------
(***************************************************************************)
(* What a step stamps is within the ceilings in force.                     *)
(***************************************************************************)

(* A circuit that gains nothing: no stamp grows, and no wait begins. *)
Kept(d, c, s) ==
    /\ d.cooldownOverride <= c.cooldownOverride /\ d.cooldownBackoff <= c.cooldownBackoff
    /\ \/ d.state # "open"
       \/ /\ c.state = "open" /\ d.openAge >= c.openAge
          /\ EffectiveCooldown(d, s) <= EffectiveCooldown(c, s)

(* A circuit given a new wait under settings s. *)
Stamped(d, c, s) ==
    /\ EffectiveCooldown(d, s) <= Ceiling(s) /\ d.cooldownOverride <= Ceiling(s)
    /\ d.cooldownBackoff <= c.cooldownBackoff \/ d.cooldownBackoff <= Ceiling(s)

LEMMA StampTypes ==
    ASSUME NEW c, CircuitOK(c), NEW s \in Configs
    PROVE  /\ c.cooldownOverride \in Nat /\ c.cooldownBackoff \in Nat /\ c.openAge \in Nat
           /\ EffectiveCooldown(c, s) \in Nat /\ UnpinnedCooldown(c, s) \in Nat
           /\ UnpinnedCooldown(c, s) <= EffectiveCooldown(c, s)
           /\ Ceiling(s) \in Nat /\ s.cooldown <= Ceiling(s)
  <1>1. c \in Circuit /\ WaitsOK(c)
    BY DEF CircuitOK
  <1>. QED BY <1>1, CooldownBounds, ConfigTypes, HorizonAssumption DEF Circuit

LEMMA KeptTransitive ==
    ASSUME NEW c, CircuitOK(c), NEW e, CircuitOK(e), NEW d, CircuitOK(d), NEW s \in Configs,
           Kept(e, c, s)
    PROVE  (Kept(d, e, s) => Kept(d, c, s)) /\ (Stamped(d, e, s) => Stamped(d, c, s))
  BY StampTypes DEF Kept, Stamped

LEMMA KeptItself ==
    ASSUME NEW c, CircuitOK(c), NEW s \in Configs
    PROVE  Kept(c, c, s)
  BY StampTypes DEF Kept

(* No circuit, or a new one, has no stamps. *)
LEMMA KeptBare ==
    ASSUME NEW c, CircuitOK(c), NEW s \in Configs
    PROVE  Kept(Untracked, c, s) /\ Kept(Fresh, c, s)
  <1>1. /\ Untracked.cooldownOverride = 0 /\ Untracked.cooldownBackoff = 0 /\ Untracked.state = "untracked"
        /\ Fresh.cooldownOverride = 0 /\ Fresh.cooldownBackoff = 0 /\ Fresh.state = "closed"
    BY DEF Untracked, Fresh
  <1>2. c.cooldownOverride \in Nat /\ c.cooldownBackoff \in Nat
    BY StampTypes
  <1>. QED BY <1>1, <1>2 DEF Kept

(* The cooldown reads only the stamps, the source and the seed. *)
LEMMA SameCooldown ==
    ASSUME NEW d, NEW c, NEW s, SamePin(d, c), d.cooldownBackoff = c.cooldownBackoff,
           d.probeSeed = c.probeSeed
    PROVE  EffectiveCooldown(d, s) = EffectiveCooldown(c, s)
  <1>1. UnpinnedCooldown(d, s) = UnpinnedCooldown(c, s) /\ ProbeOffset(d, s) = ProbeOffset(c, s)
    BY DEF UnpinnedCooldown, BackedOff, ProbeOffset
  <1>2. QuotaPinned(d, s) <=> QuotaPinned(c, s)
    BY DEF QuotaPinned, SamePin
  <1>. QED BY <1>1, <1>2, Zenon DEF EffectiveCooldown, SamePin

(* A due probe, a success, a release, a cleared streak and time add nothing. *)
LEMMA ProbedKept ==
    ASSUME NEW c, CircuitOK(c), NEW s \in Configs
    PROVE  Kept(ProbeIfCooldownElapsed(c, s), c, s)
  <1>. DEFINE d == [c EXCEPT !.state = "half-open", !.halfOpenProbes = 0, !.openAge = 0]
  <1>1. d.state = "half-open" /\ SamePin(d, c) /\ d.cooldownBackoff = c.cooldownBackoff
    BY DEF CircuitOK, Circuit, SamePin
  <1>2. ProbeIfCooldownElapsed(c, s) = IF c.state = "open" /\ ~StillDark(c, s) THEN d ELSE c
    BY DEF ProbeIfCooldownElapsed
  <1>. HIDE DEF d
  <1>3. Kept(d, c, s)
    BY <1>1, StampTypes DEF Kept, SamePin
  <1>. QED BY <1>2, <1>3, KeptItself

LEMMA SucceededKept ==
    ASSUME NEW c, CircuitOK(c), c.state # "untracked", NEW s \in Configs
    PROVE  Kept(Succeeded(c), c, s)
  <1>. DEFINE closed == [c EXCEPT !.consecutiveFails = 0]
              probe  == [c EXCEPT !.halfOpenProbes = @ + 1]
              emptied == CloseCircuit(c)
  <1>1. c \in Circuit
    BY DEF CircuitOK
  <1>2. /\ closed.cooldownOverride = c.cooldownOverride /\ closed.cooldownBackoff = c.cooldownBackoff
        /\ closed.state = c.state
        /\ probe.cooldownOverride = c.cooldownOverride /\ probe.cooldownBackoff = c.cooldownBackoff
        /\ probe.state = c.state
    BY <1>1 DEF Circuit
  <1>3. emptied.state = "closed" /\ emptied.cooldownOverride = 0 /\ emptied.cooldownBackoff = 0
    BY <1>1 DEF Circuit, CloseCircuit, Clear429Escalation
  <1>4. Succeeded(c) =
            IF c.state = "open" THEN c ELSE IF c.state = "closed" THEN closed
            ELSE IF c.halfOpenProbes + 1 >= HalfOpenMaxProbes THEN emptied ELSE probe
    BY DEF Succeeded
  <1>. HIDE DEF closed, probe, emptied
  <1>5. Kept(emptied, c, s)
    BY <1>3, StampTypes DEF Kept
  <1>6. c.state # "open" => Kept(closed, c, s) /\ Kept(probe, c, s)
    BY <1>2, StampTypes DEF Kept
  <1>. QED BY <1>4, <1>5, <1>6, KeptItself

LEMMA ReleasedKept ==
    ASSUME NEW c, CircuitOK(c), NEW s \in Configs
    PROVE  Kept(ReleasePin(c), c, s)
  <1>. DEFINE d == ReleasePin(c)
  <1>1. /\ d.cooldownOverride = 0 /\ d.cooldownBackoff = c.cooldownBackoff /\ d.state = c.state
        /\ d.openAge = c.openAge
    BY DEF CircuitOK, Circuit, ReleasePin
  <1>. HIDE DEF d
  <1>2. EffectiveCooldown(d, s) = UnpinnedCooldown(c, s)
    <2>1. ~QuotaPinned(d, s) /\ UnpinnedCooldown(d, s) = UnpinnedCooldown(c, s)
      BY <1>1 DEF QuotaPinned, UnpinnedCooldown, BackedOff
    <2>. QED BY <2>1, Zenon DEF EffectiveCooldown
  <1>3. Kept(d, c, s)
    BY <1>1, <1>2, StampTypes DEF Kept
  <1>. QED BY <1>3 DEF d

LEMMA ClearedKept ==
    ASSUME NEW c, CircuitOK(c), NEW s \in Configs
    PROVE  Kept(Clear429Escalation(c), c, s)
  <1>. DEFINE d == Clear429Escalation(c)
  <1>1. /\ SamePin(d, c) /\ d.cooldownBackoff = c.cooldownBackoff /\ d.probeSeed = c.probeSeed
        /\ d.state = c.state /\ d.openAge = c.openAge
    BY DEF CircuitOK, Circuit, Clear429Escalation, SamePin
  <1>. HIDE DEF d
  <1>2. EffectiveCooldown(d, s) = EffectiveCooldown(c, s)
    BY <1>1, SameCooldown
  <1>3. Kept(d, c, s)
    BY <1>1, <1>2, StampTypes DEF Kept, SamePin
  <1>. QED BY <1>3 DEF d

LEMMA AgedKept ==
    ASSUME NEW c, CircuitOK(c), NEW s \in Configs
    PROVE  Kept(Aged(c), c, s)
  <1>. DEFINE d == Aged(c)
  <1>1. /\ SamePin(d, c) /\ d.cooldownBackoff = c.cooldownBackoff /\ d.probeSeed = c.probeSeed
        /\ d.state = c.state /\ d.openAge >= c.openAge
    <2>1. d.openAge = IF c.state = "open" THEN CountTo(c.openAge, Horizon) ELSE c.openAge
      BY DEF CircuitOK, Circuit, Aged
    <2>2. c.openAge \in 0..Horizon /\ Horizon \in Nat
      BY HorizonAssumption DEF CircuitOK, Circuit
    <2>3. d.openAge >= c.openAge
      <3>. HIDE DEF d
      <3>. QED BY <2>1, <2>2 DEF CountTo
    <2>. QED BY <2>3 DEF CircuitOK, Circuit, Aged, SamePin
  <1>. HIDE DEF d
  <1>2. EffectiveCooldown(d, s) = EffectiveCooldown(c, s)
    BY <1>1, SameCooldown
  <1>3. Kept(d, c, s)
    BY <1>1, <1>2, StampTypes DEF Kept, SamePin
  <1>. QED BY <1>3 DEF d

(* A circuit that opens is stamped afresh, whatever it carried before. *)
LEMMA OpenedStamped ==
    ASSUME NEW e \in Circuit, NEW c, NEW s \in Configs, NEW adv \in Advice, NEW by429 \in BOOLEAN,
           NEW hint \in Nat, NEW account \in BOOLEAN, NEW j \in Nat, NEW x \in 0..(SeedSteps - 1)
    PROVE  Stamped(OpenCircuit(e, s, adv, by429, hint, account, j, x), c, s)
  <1>. DEFINE d == OpenCircuit(e, s, adv, by429, hint, account, j, x)
  <1>1. CircuitOK(d) /\ d.cooldownOverride <= Ceiling(s) /\ d.cooldownBackoff <= Ceiling(s)
    BY Opened
  <1>. HIDE DEF d
  <1>2. d \in Circuit /\ Ceiling(s) \in Nat /\ s.cooldown <= Ceiling(s)
    BY <1>1, ConfigTypes DEF CircuitOK
  <1>3. EffectiveCooldown(d, s) <= Ceiling(s)
    BY <1>1, <1>2, CooldownWithin
  <1>. QED BY <1>1, <1>3 DEF Stamped, d

LEMMA FailedStamped ==
    ASSUME NEW c, CircuitOK(c), c.state # "untracked", NEW s \in Configs, NEW adv \in Advice,
           NEW by429 \in BOOLEAN, NEW j \in Nat, NEW x \in 0..(SeedSteps - 1)
    PROVE  LET d == Failed(c, s, adv, by429, j, x) IN Kept(d, c, s) \/ Stamped(d, c, s)
  <1>. DEFINE charged == [c EXCEPT !.consecutiveFails = @ + 1]
              a == OpenCircuit(FailProbe(c, s), s, adv, by429, 0, FALSE, j, x)
              b == OpenCircuit(charged, s, adv, by429, 0, FALSE, j, x)
  <1>1. c \in Circuit /\ charged \in Circuit /\ FailProbe(c, s) \in Circuit
    BY Charged DEF CircuitOK
  <1>2. 0 \in Nat /\ FALSE \in BOOLEAN
    OBVIOUS
  <1>3. Stamped(a, c, s)
    BY <1>1, <1>2, OpenedStamped, Zenon
  <1>4. Stamped(b, c, s)
    <2>. HIDE DEF charged
    <2>. QED BY <1>1, <1>2, OpenedStamped
  <1>5. c.state # "open" => Kept(charged, c, s)
    <2>1. charged.state = c.state /\ SamePin(charged, c) /\ charged.cooldownBackoff = c.cooldownBackoff
      BY <1>1 DEF Circuit, SamePin
    <2>. HIDE DEF charged
    <2>. QED BY <2>1, StampTypes DEF Kept, SamePin
  <1>6. Failed(c, s, adv, by429, j, x) =
            IF c.state = "open" THEN c ELSE IF c.state = "half-open" THEN a
            ELSE IF c.consecutiveFails + 1 >= s.threshold THEN b ELSE charged
    BY DEF Failed
  <1>. HIDE DEF charged, a, b
  <1>. QED BY <1>3, <1>4, <1>5, <1>6, KeptItself

LEMMA ExhaustedStamped ==
    ASSUME NEW c, CircuitOK(c), c.state # "untracked", NEW s \in Configs, NEW adv \in Advice,
           NEW by429 \in BOOLEAN, NEW hint \in Nat, NEW account \in BOOLEAN,
           NEW j \in Nat, NEW x \in 0..(SeedSteps - 1)
    PROVE  LET d == Exhausted(c, s, adv, by429, hint, account, j, x)
           IN  Kept(d, c, s) \/ Stamped(d, c, s)
  <1>. DEFINE paced   == PinProbes(c.pinSource) /\ s.pinProbe > 0
              charged == IF c.state = "half-open" /\ ~paced THEN FailProbe(c, s)
                         ELSE [c EXCEPT !.consecutiveFails = s.threshold]
              a == OpenCircuit(charged, s, adv, by429, hint, account, j, x)
  <1>1. charged \in Circuit
    BY Charged DEF CircuitOK
  <1>2. Exhausted(c, s, adv, by429, hint, account, j, x) = IF c.state = "open" THEN c ELSE a
    BY DEF Exhausted
  <1>. HIDE DEF charged
  <1>3. Stamped(a, c, s)
    BY <1>1, OpenedStamped
  <1>. HIDE DEF a
  <1>. QED BY <1>2, <1>3, KeptItself

(* A retargeted pin is served in full and within the ceiling; a rename     *)
(* changes no pace.                                                        *)
LEMMA RetargetStamped ==
    ASSUME NEW c, CircuitOK(c), NEW s \in Configs, s.pinMax # 0, NEW adv \in Advice, NEW j \in Nat
    PROVE  LET d == Retarget(c, s, adv, j) IN Kept(d, c, s) \/ Stamped(d, c, s)
  <1>. DEFINE floor == EffectiveCooldown(c, s)
              length == adv.resetsIn + c.openAge
              pin == ClampPin(length, s.pinMax, floor, j)
              source == AdvisorPinSource(adv.reserved)
              measured == c.cooldownOverride > 0 /\ c.pinSource \in {"advisor", "reserve"}
              a == [c EXCEPT !.cooldownOverride = pin, !.pinSource = source]
              b == [c EXCEPT !.pinSource = source]
  <1>1. c \in Circuit /\ s.pinMax > 0 /\ ~PinProbes(source)
    BY ConfigTypes DEF CircuitOK, AdvisorPinSource, PinProbes
  <1>2. floor \in Nat /\ length \in Nat /\ UnpinnedCooldown(c, s) \in Nat /\ UnpinnedCooldown(c, s) <= floor
    BY StampTypes DEF Advice
  <1>3. Retarget(c, s, adv, j) =
            IF ~Blocking(c, s) THEN c ELSE IF pin > 0 THEN a ELSE IF measured THEN b ELSE c
    BY DEF Retarget
  <1>4. pin \in Nat /\ pin <= Ceiling(s) /\ (pin # 0 => pin > floor)
    <2>. HIDE DEF floor, length
    <2>. QED BY <1>2, ClampedPin
  <1>. HIDE DEF length, source, pin
  <1>5. /\ a.cooldownOverride = pin /\ a.pinSource = source /\ a.cooldownBackoff = c.cooldownBackoff
        /\ b.openAge = c.openAge /\ b.state = c.state /\ b.cooldownOverride = c.cooldownOverride
        /\ b.pinSource = source /\ b.cooldownBackoff = c.cooldownBackoff /\ b.probeSeed = c.probeSeed
    BY <1>1 DEF Circuit
  <1>. HIDE DEF a, b
  <1>6. pin > 0 => Stamped(a, c, s)
    <2>. SUFFICES ASSUME pin > 0 PROVE Stamped(a, c, s)
      OBVIOUS
    <2>1. UnpinnedCooldown(a, s) = UnpinnedCooldown(c, s)
      BY <1>5 DEF UnpinnedCooldown, BackedOff
    <2>2. QuotaPinned(a, s) /\ ~(a.cooldownOverride <= UnpinnedCooldown(a, s)) /\ ~PinProbes(a.pinSource)
      <3>. HIDE DEF floor
      <3>. QED BY <1>1, <1>2, <1>4, <1>5, <2>1 DEF QuotaPinned
    <2>3. EffectiveCooldown(a, s) = pin
      BY <1>5, <2>2, Zenon DEF EffectiveCooldown
    <2>. QED BY <1>4, <1>5, <2>3, StampTypes DEF Stamped
  <1>7. measured => Kept(b, c, s)
    <2>. SUFFICES ASSUME measured PROVE Kept(b, c, s)
      OBVIOUS
    <2>1. ~PinProbes(c.pinSource) /\ ~PinProbes(b.pinSource)
      BY <1>1, <1>5 DEF PinProbes
    <2>2. UnpinnedCooldown(b, s) = UnpinnedCooldown(c, s) /\ (QuotaPinned(b, s) <=> QuotaPinned(c, s))
      BY <1>5 DEF UnpinnedCooldown, BackedOff, QuotaPinned
    <2>3. EffectiveCooldown(b, s) = EffectiveCooldown(c, s)
      <3>1. b.cooldownOverride = c.cooldownOverride
        BY <1>5
      <3>. QED BY <2>1, <2>2, <3>1, Zenon DEF EffectiveCooldown
    <2>. HIDE DEF floor
    <2>4. c.state = "open" \/ c.state # "open"
      OBVIOUS
    <2>. QED BY <1>5, <2>3, StampTypes DEF Kept
  <1>. HIDE DEF measured
  <1>. QED BY <1>3, <1>6, <1>7, KeptItself

(* A planted seed has no backoff: nobody probes it. *)
LEMMA SeededStamped ==
    ASSUME NEW cs, MapOK(cs), NEW s \in Configs, NEW adv \in Advice, NEW j \in Nat,
           NEW x \in 0..(SeedSteps - 1), NEW ds \in SeedQuotaPin(cs, s, adv, j, x), NEW k \in Keys
    PROVE  ds[k] = cs[k] \/ ds[k] \in {Untracked, Fresh} \/ \A c : Stamped(ds[k], c, s)
  <1>. DEFINE pin == ClampPin(adv.resetsIn, s.pinMax, s.cooldown, j)
              source == AdvisorPinSource(adv.reserved)
  <1>1. MapOK(ds) /\ Seed \in Keys
    BY Seeded DEF Keys
  <1>2. pin \in Nat /\ pin <= Ceiling(s) /\ Ceiling(s) \in Nat /\ s.cooldown <= Ceiling(s)
    <2>1. adv.resetsIn \in Nat /\ s.cooldown \in Nat
      BY ConfigTypes DEF Advice
    <2>. QED BY <2>1, ClampedPin, ConfigTypes
  <1>3. CASE ds = cs
    BY <1>3
  <1>4. CASE ds # cs
    <2>1. PICK room \in GetOrCreate(cs, Seed) :
             ds = [room EXCEPT ![Seed] =
                     [@ EXCEPT !.state = "open", !.openAge = 0, !.consecutiveFails = s.threshold,
                               !.cooldownOverride = pin, !.pinSource = source, !.probeSeed = x]]
      BY <1>4 DEF SeedQuotaPin
    <2>2. room \in [Keys -> Circuit] /\ room[Seed].failedProbes = 0 /\ CircuitOK(room[Seed])
      BY <1>1, GotOrCreated
    <2>. HIDE DEF pin, source
    <2>3. CASE k # Seed
      <3>1. ds[k] = room[k]
        BY <2>1, <2>2, <2>3
      <3>. QED BY <1>1, <3>1, GotNothing DEF MapOK
    <2>4. CASE k = Seed
      <3>. DEFINE c == room[Seed]
                  d == [c EXCEPT !.state = "open", !.openAge = 0, !.consecutiveFails = s.threshold,
                                 !.cooldownOverride = pin, !.pinSource = source, !.probeSeed = x]
      <3>1. ds[k] = d /\ c \in Circuit
        BY <1>1, <2>1, <2>2, <2>4
      <3>2. d.cooldownOverride = pin /\ d.cooldownBackoff = c.cooldownBackoff
        BY <3>1 DEF Circuit
      <3>3. c.cooldownBackoff = 0
        BY <2>2, <3>1 DEF CircuitOK, NoResidueOf, Circuit
      <3>. HIDE DEF c, d
      <3>4. d \in Circuit
        BY <1>1, <3>1 DEF MapOK
      <3>5. EffectiveCooldown(d, s) <= Ceiling(s)
        BY <1>2, <3>2, <3>3, <3>4, CooldownWithin
      <3>. QED BY <1>2, <3>1, <3>2, <3>3, <3>5 DEF Stamped
    <2>. QED BY <2>3, <2>4
  <1>. QED BY <1>3, <1>4

(* The step. *)
LEMMA StepStamps ==
    ASSUME IInv, [Next]_vars, NEW k \in Keys
    PROVE  Kept(circuits'[k], circuits[k], settings) \/ Stamped(circuits'[k], circuits[k], settings)
  <1>. DEFINE Goal == Kept(circuits'[k], circuits[k], settings) \/ Stamped(circuits'[k], circuits[k], settings)
              s == settings
  <1>1. /\ MapOK(circuits) /\ settings \in Configs /\ advice \in Advice /\ CircuitOK(circuits[k])
        /\ circuits \in [Keys -> Circuit] /\ \A i \in Keys : CircuitOK(circuits[i])
    BY DEF IInv, TypeOK, MapOK
  <1>2. circuits'[k] \in {circuits[k], Untracked, Fresh} => Goal
    BY <1>1, KeptItself, KeptBare
  <1>. HIDE DEF Goal
  <1>3. ASSUME NEW m \in Models, NEW ds \in GetOrCreate(circuits, m), NEW d, CircuitOK(d),
               circuits' = [ds EXCEPT ![m] = d],
               LET e == ProbeIfCooldownElapsed(ds[m], s)
               IN  CircuitOK(e) => Kept(d, e, s) \/ Stamped(d, e, s)
        PROVE  Goal
    <2>1. m \in Keys /\ ds \in [Keys -> Circuit] /\ \A i \in Keys : CircuitOK(ds[i])
      BY <1>1, GotOrCreated DEF Keys
    <2>2. \A i \in Keys : ds[i] \in {circuits[i], Untracked, Fresh}
      BY <1>1, <2>1, GotNothing
    <2>3. CASE k # m
      <3>1. circuits'[k] = ds[k]
        BY <1>3, <2>1, <2>3
      <3>. QED BY <1>2, <2>2, <3>1
    <2>4. CASE k = m
      <3>. DEFINE e == ProbeIfCooldownElapsed(ds[m], s)
      <3>1. circuits'[k] = d
        BY <1>3, <2>1, <2>4
      <3>2. CircuitOK(e) /\ Kept(e, ds[m], s)
        BY <1>1, <2>1, Probed, ProbedKept
      <3>3. Kept(ds[m], circuits[m], s)
        BY <1>1, <2>1, <2>2, KeptItself, KeptBare
      <3>4. Kept(d, e, s) \/ Stamped(d, e, s)
        BY <1>3, <3>2
      <3>. HIDE DEF e
      <3>5. Kept(e, circuits[m], s)
        BY <1>1, <2>1, <3>2, <3>3, KeptTransitive
      <3>6. Kept(d, circuits[m], s) \/ Stamped(d, circuits[m], s)
        BY <1>1, <1>3, <2>1, <3>2, <3>4, <3>5, KeptTransitive
      <3>. QED BY <2>4, <3>1, <3>6 DEF Goal
    <2>. QED BY <2>3, <2>4
  <1>4. ASSUME NEW m \in Models,
               \/ \E by429 \in BOOLEAN : RecordFailure(m, by429)
               \/ \E by429, account \in BOOLEAN, hint \in Hints :
                      RecordExhausted(m, by429, hint, account)
               \/ RecordSaturated(m) \/ RecordSuccess(m)
        PROVE  Goal
    <2>1. \A ds \in GetOrCreate(circuits, m) :
             /\ m \in DOMAIN ds /\ CircuitOK(ProbeIfCooldownElapsed(ds[m], s))
             /\ ProbeIfCooldownElapsed(ds[m], s).state # "untracked"
      BY <1>1, GotOrCreated, Probed DEF Keys
    <2>2. ASSUME NEW by429 \in BOOLEAN, RecordFailure(m, by429) PROVE Goal
      <3>1. PICK ds \in GetOrCreate(circuits, m), j \in Jitters, x \in 0..(SeedSteps - 1) :
               circuits' = [ds EXCEPT ![m] =
                   Failed(ProbeIfCooldownElapsed(@, s), s, advice, by429, j, x)]
        BY <2>2 DEF RecordFailure
      <3>. DEFINE e == ProbeIfCooldownElapsed(ds[m], s)
                  d == Failed(e, s, advice, by429, j, x)
      <3>2. circuits' = [ds EXCEPT ![m] = d] /\ j \in Nat /\ CircuitOK(e) /\ e.state # "untracked"
        BY <2>1, <3>1, BoundsAssumption
      <3>3. CircuitOK(d) /\ (Kept(d, e, s) \/ Stamped(d, e, s))
        <4>. HIDE DEF e
        <4>. QED BY <1>1, <3>2, FailedWhole, FailedStamped
      <3>. HIDE DEF d
      <3>. QED BY <1>3, <3>2, <3>3
    <2>3. ASSUME NEW by429 \in BOOLEAN, NEW account \in BOOLEAN, NEW hint \in Hints,
                 RecordExhausted(m, by429, hint, account)
          PROVE  Goal
      <3>1. PICK ds \in GetOrCreate(circuits, m), j \in Jitters, x \in 0..(SeedSteps - 1) :
               circuits' = [ds EXCEPT ![m] =
                   Exhausted(ProbeIfCooldownElapsed(@, s), s, advice, by429, hint, account, j, x)]
        BY <2>3 DEF RecordExhausted
      <3>. DEFINE e == ProbeIfCooldownElapsed(ds[m], s)
                  d == Exhausted(e, s, advice, by429, hint, account, j, x)
      <3>2. /\ circuits' = [ds EXCEPT ![m] = d] /\ j \in Nat /\ hint \in Nat
            /\ CircuitOK(e) /\ e.state # "untracked"
        BY <2>1, <3>1, BoundsAssumption
      <3>3. CircuitOK(d) /\ (Kept(d, e, s) \/ Stamped(d, e, s))
        <4>. HIDE DEF e
        <4>. QED BY <1>1, <3>2, ExhaustedWhole, ExhaustedStamped
      <3>. HIDE DEF d
      <3>. QED BY <1>3, <3>2, <3>3
    <2>4. CASE RecordSaturated(m)
      <3>1. PICK ds \in GetOrCreate(circuits, m) :
               circuits' = [ds EXCEPT ![m] = ProbeIfCooldownElapsed(@, s)]
        BY <2>4 DEF RecordSaturated
      <3>. DEFINE e == ProbeIfCooldownElapsed(ds[m], s)
      <3>2. circuits' = [ds EXCEPT ![m] = e] /\ CircuitOK(e)
        BY <2>1, <3>1
      <3>3. Kept(e, e, s)
        <4>. HIDE DEF e
        <4>. QED BY <1>1, <3>2, KeptItself
      <3>. QED BY <1>3, <3>2, <3>3
    <2>5. CASE RecordSuccess(m)
      <3>1. PICK ds \in GetOrCreate(circuits, m) :
               circuits' = [ds EXCEPT ![m] = Succeeded(ProbeIfCooldownElapsed(@, s))]
        BY <2>5 DEF RecordSuccess
      <3>. DEFINE e == ProbeIfCooldownElapsed(ds[m], s)
                  d == Succeeded(e)
      <3>2. circuits' = [ds EXCEPT ![m] = d] /\ CircuitOK(e) /\ e.state # "untracked"
        BY <2>1, <3>1
      <3>3. CircuitOK(d) /\ Kept(d, e, s)
        <4>. HIDE DEF e
        <4>. QED BY <1>1, <3>2, SucceededWhole, SucceededKept
      <3>. HIDE DEF d
      <3>. QED BY <1>3, <3>2, <3>3
    <2>. QED BY <1>4, <2>2, <2>3, <2>4, <2>5
  <1>5. ASSUME NEW a \in Callers, (\E m \in Models : IsOpenRead(a, m)) \/ IsOpenWrite(a) PROVE Goal
    <2>1. CASE \E m \in Models : IsOpenRead(a, m)
      BY <1>2, <2>1 DEF IsOpenRead
    <2>2. CASE IsOpenWrite(a)
      <3>1. circuits'[k] = circuits[k] \/ circuits'[k] = ProbeIfCooldownElapsed(circuits[k], s)
        BY <1>1, <2>2 DEF IsOpenWrite
      <3>. QED BY <1>1, <1>2, <3>1, ProbedKept DEF Goal
    <2>. QED BY <1>5, <2>1, <2>2
  <1>6. ASSUME NEW adv \in Readings, ApplyQuotaPins(adv) PROVE Goal
    <2>. DEFINE swept == SweepExpiredSeeds(circuits, s)
    <2>1. MapOK(swept) /\ swept[k] \in {circuits[k], Untracked} /\ adv \in Advice
      BY <1>1, Swept, BoundsAssumption DEF SweepExpiredSeeds
    <2>2. CASE circuits' = swept
      BY <1>2, <2>1, <2>2
    <2>3. CASE circuits' # swept
      <3>1. PICK j \in [Keys -> Jitters], x \in 0..(SeedSteps - 1) :
               circuits' \in SeedQuotaPin([i \in Keys |-> Retarget(swept[i], s, adv, j[i])],
                                          s, adv, j[Seed], x)
        BY <1>6, <2>3, Zenon DEF ApplyQuotaPins
      <3>2. settings.pinMax # 0
        BY <1>6, <2>3, Zenon DEF ApplyQuotaPins
      <3>. DEFINE pinned == [i \in Keys |-> Retarget(swept[i], s, adv, j[i])]
      <3>3. MapOK(pinned) /\ j[k] \in Nat /\ j[Seed] \in Nat
        <4>1. MapOK(pinned)
          BY <1>1, <2>1, RetargetedMap
        <4>2. j[k] \in Nat /\ j[Seed] \in Nat
          BY BoundsAssumption DEF Keys
        <4>. QED BY <4>1, <4>2
      <3>4. circuits' \in SeedQuotaPin(pinned, s, adv, j[Seed], x)
        BY <3>1
      <3>5. pinned[k] = Retarget(swept[k], s, adv, j[k]) /\ CircuitOK(swept[k])
        BY <2>1 DEF MapOK
      <3>. HIDE DEF pinned
      <3>6. Kept(swept[k], circuits[k], s)
        BY <1>1, <2>1, KeptItself, KeptBare
      <3>7. Kept(pinned[k], circuits[k], s) \/ Stamped(pinned[k], circuits[k], s)
        <4>1. Kept(pinned[k], swept[k], s) \/ Stamped(pinned[k], swept[k], s)
          BY <1>1, <2>1, <3>2, <3>3, <3>5, RetargetStamped
        <4>2. CircuitOK(pinned[k])
          BY <3>3 DEF MapOK
        <4>. HIDE DEF swept
        <4>. QED BY <1>1, <3>5, <3>6, <4>1, <4>2, KeptTransitive
      <3>8. circuits'[k] = pinned[k] \/ circuits'[k] \in {Untracked, Fresh} \/ \A c : Stamped(circuits'[k], c, s)
        BY <1>1, <2>1, <3>3, <3>4, SeededStamped
      <3>. QED BY <1>2, <3>7, <3>8 DEF Goal
    <2>. QED BY <2>2, <2>3
  <1>7. CASE ReleaseQuotaPins \/ ReleaseAllQuotaPins
    <2>. DEFINE cleared == [i \in Keys |-> Clear429Escalation(circuits[i])]
    <2>1. CircuitOK(cleared[k]) /\ Kept(cleared[k], circuits[k], s)
      BY <1>1, ClearedWhole, ClearedKept
    <2>2. \/ circuits'[k] \in {circuits[k], Untracked, cleared[k]}
          \/ /\ circuits'[k] = ReleasePin(circuits[k])
          \/ /\ circuits'[k] = ReleasePin(cleared[k]) /\ cleared[k].cooldownOverride # 0
      <3>1. SamePin(cleared[k], circuits[k])
        BY <1>1, ClearedWhole
      <3>. HIDE DEF cleared
      <3>2. CASE ReleaseQuotaPins
        BY <3>1, <3>2 DEF ReleaseQuotaPins, Released, SamePin, cleared
      <3>3. CASE ReleaseAllQuotaPins
        BY <3>3 DEF ReleaseAllQuotaPins, Released
      <3>. QED BY <1>7, <3>2, <3>3
    <2>. HIDE DEF cleared
    <2>3. cleared[k].cooldownOverride # 0 => Kept(ReleasePin(cleared[k]), circuits[k], s)
      BY <1>1, <2>1, ReleasedWhole, ReleasedKept, KeptTransitive
    <2>. QED BY <1>1, <1>2, <2>1, <2>2, <2>3, ReleasedKept DEF Goal
  <1>8. CASE (\E i \in Keys : ResetModel(i)) \/ Reset
    <2>1. circuits'[k] \in {circuits[k], Untracked}
      BY <1>1, <1>8 DEF ResetModel, Reset
    <2>. QED BY <1>2, <2>1 DEF Goal
  <1>9. CASE \/ \E adv \in Readings : ReplaceAdvice(adv)
             \/ \E t \in Configs : ChangeSettings(t)
             \/ UNCHANGED vars
    <2>1. circuits' = circuits
      BY <1>9 DEF ReplaceAdvice, ChangeSettings, vars
    <2>. QED BY <1>2, <2>1 DEF Goal
  <1>10. CASE Tick
    <2>1. circuits'[k] = Aged(circuits[k])
      BY <1>10 DEF Tick
    <2>. QED BY <1>1, <2>1, AgedKept DEF Goal
  <1>. QED BY <1>4, <1>5, <1>6, <1>7, <1>8, <1>9, <1>10 DEF Next, Goal

(* For any models and settings, switched at any time: a wait that begins,  *)
(* or that a reading lengthens, is within the ceilings in force at that    *)
(* step (applyBackoff, clampPin, ApplyQuotaPins).                          *)
THEOREM WaitAlwaysBounded == Spec => WaitBounded
  <1>. DEFINE Bounded == \A k \in Keys : WaitGrows(circuits'[k], circuits[k], settings) =>
          EffectiveCooldown(circuits'[k], settings) <= Ceiling(settings)
  <1>1. ASSUME IInv, IInv', Next PROVE Bounded
    <2>. SUFFICES ASSUME NEW k \in Keys, WaitGrows(circuits'[k], circuits[k], settings)
                  PROVE  EffectiveCooldown(circuits'[k], settings) <= Ceiling(settings)
      OBVIOUS
    <2>1. CircuitOK(circuits[k]) /\ CircuitOK(circuits'[k]) /\ settings \in Configs
      BY <1>1 DEF IInv, TypeOK, MapOK
    <2>2. Kept(circuits'[k], circuits[k], settings) \/ Stamped(circuits'[k], circuits[k], settings)
      BY <1>1, StepStamps
    <2>3. ~Kept(circuits'[k], circuits[k], settings)
      BY <2>1, StampTypes DEF Kept, WaitGrows
    <2>. QED BY <2>2, <2>3 DEF Stamped
  <1>2. IInv /\ IInv' /\ [Next]_vars => [Bounded]_vars
    BY <1>1
  <1>. QED BY <1>2, Inductive, PTL DEF Spec, WaitBounded

(* As long as the operator lowers no ceiling, no circuit waits beyond the  *)
(* ceilings in force, whichever settings its stamps were made under: the   *)
(* one way past them is a ceiling lowered under a wait that is running     *)
(* (effectiveCooldownForWith serves a stamp as it stands).                 *)
CeilingsKept == [][Ceiling(settings) <= Ceiling(settings')]_vars
WaitWithinCeiling ==
    \A k \in Keys : EffectiveCooldown(circuits[k], settings) <= Ceiling(settings)
THEOREM WithinUnloweredCeilings == Spec /\ CeilingsKept => []WaitWithinCeiling
  <1>. DEFINE Within == \A k \in Keys :
                  /\ circuits[k].cooldownOverride <= Ceiling(settings)
                  /\ circuits[k].cooldownBackoff <= Ceiling(settings)
  <1>1. Init => Within
    <2>. SUFFICES ASSUME Init PROVE Within
      OBVIOUS
    <2>1. Ceiling(settings) \in Nat
      BY ConfigTypes DEF Init
    <2>. QED BY <2>1 DEF Init, Untracked, Fresh
  <1>2. ASSUME IInv, IInv', Within, [Next]_vars, [Ceiling(settings) <= Ceiling(settings')]_vars
        PROVE  Within'
    <2>. SUFFICES ASSUME NEW k \in Keys
                  PROVE  /\ circuits'[k].cooldownOverride <= Ceiling(settings')
                         /\ circuits'[k].cooldownBackoff <= Ceiling(settings')
      BY DEF Ceiling
    <2>1. /\ CircuitOK(circuits[k]) /\ CircuitOK(circuits'[k])
          /\ settings \in Configs /\ settings' \in Configs
      BY <1>2 DEF IInv, TypeOK, MapOK
    <2>2. Kept(circuits'[k], circuits[k], settings) \/ Stamped(circuits'[k], circuits[k], settings)
      BY <1>2, StepStamps
    <2>3. /\ circuits[k].cooldownOverride <= Ceiling(settings)
          /\ circuits[k].cooldownBackoff <= Ceiling(settings)
      BY <1>2
    <2>4. Ceiling(settings) \in Nat /\ Ceiling(settings') \in Nat
      BY <2>1, ConfigTypes
    <2>5. Ceiling(settings) <= Ceiling(settings')
      <3>1. CASE UNCHANGED vars
        <4>1. settings' = settings
          BY <3>1 DEF vars
        <4>. QED BY <2>4, <4>1
      <3>. QED BY <1>2, <3>1
    <2>6. /\ circuits'[k].cooldownOverride <= Ceiling(settings)
          /\ circuits'[k].cooldownBackoff <= Ceiling(settings)
      BY <2>1, <2>2, <2>3, <2>4, StampTypes DEF Kept, Stamped
    <2>7. circuits'[k].cooldownOverride \in Nat /\ circuits'[k].cooldownBackoff \in Nat
      BY <2>1, StampTypes
    <2>. QED BY <2>4, <2>5, <2>6, <2>7
  <1>3. IInv /\ Within => WaitWithinCeiling
    <2>. SUFFICES ASSUME IInv, Within, NEW k \in Keys
                  PROVE  EffectiveCooldown(circuits[k], settings) <= Ceiling(settings)
      BY DEF WaitWithinCeiling
    <2>1. circuits[k] \in Circuit /\ settings \in Configs
      BY DEF IInv, TypeOK
    <2>. QED BY <2>1, CooldownWithin, ConfigTypes
  <1>. QED BY <1>1, <1>2, <1>3, Inductive, PTL DEF Spec, CeilingsKept

-----------------------------------------------------------------------------
(***************************************************************************)
(* Reports and account pins.                                               *)
(***************************************************************************)

(* A report that was made has a window it was made in. *)
WindowOK(c) == c.unstableReported => c.openWindow # NoWindow
ReportsOK   == (\A k \in Keys : WindowOK(circuits[k])) /\ ~circuits[Seed].unstableReported

SameWindow(d, c) == d.openWindow = c.openWindow /\ d.unstableReported = c.unstableReported

(* c becomes d without the report being forgotten early. *)
Moved(d, c) ==
    /\ WindowOK(d)
    /\ c.unstableReported /\ ~d.unstableReported =>
          d.state = "untracked" \/ c.openWindow > ReopenWindow

Measured(adv) == adv.known /\ adv.resetsIn > 0

LEMMA SameMoves ==
    ASSUME NEW c, WindowOK(c), NEW d, SameWindow(d, c)
    PROVE  Moved(d, c)
  BY DEF SameWindow, Moved, WindowOK

(* noteOpen forgets a report only with the window it was made in. *)
LEMMA NoteOpenMoves ==
    ASSUME NEW c \in Circuit, WindowOK(c)
    PROVE  Moved(NoteOpen(c), c)
  <1>. DEFINE n == CountTo(c.opens, OpensBeforeEscalation)
              told == c.unstableReported \/ n >= OpensBeforeEscalation
              first == [c EXCEPT !.openWindow = 0, !.opens = 1, !.unstableReported = FALSE]
              again == [c EXCEPT !.opens = n, !.unstableReported = told]
  <1>1. NoteOpen(c) = IF c.openWindow \notin 0..ReopenWindow THEN first ELSE again
    BY DEF NoteOpen
  <1>2. /\ first.openWindow = 0 /\ ~first.unstableReported
        /\ again.openWindow = c.openWindow /\ again.unstableReported = told
    BY DEF Circuit
  <1>3. c.openWindow \in NoWindow..(ReopenWindow + 1) /\ ReopenWindow \in Nat
    BY BoundsAssumption DEF Circuit
  <1>. HIDE DEF first, again, n
  <1>4. CASE c.openWindow \notin 0..ReopenWindow
    <2>1. NoteOpen(c) = first
      BY <1>1, <1>4
    <2>. QED BY <1>2, <1>3, <1>4, <2>1 DEF Moved, WindowOK, NoWindow
  <1>5. CASE c.openWindow \in 0..ReopenWindow
    <2>1. NoteOpen(c) = again
      BY <1>1, <1>5
    <2>2. c.unstableReported => again.unstableReported
      BY <1>2, Zenon
    <2>3. again.openWindow # NoWindow
      BY <1>2, <1>5 DEF NoWindow
    <2>. QED BY <2>1, <2>2, <2>3, Zenon DEF Moved, WindowOK
  <1>. QED BY <1>4, <1>5

(* The rest of openCircuit leaves the window alone, and the pin it stamps  *)
(* speaks for the account only on a reading or a refusal of the account.   *)
LEMMA OpenMoves ==
    ASSUME NEW c \in Circuit, WindowOK(c), NEW s \in Configs, NEW adv \in Advice,
           NEW by429 \in BOOLEAN, NEW hint \in Nat, NEW account \in BOOLEAN, NEW j \in Nat,
           NEW x \in 0..(SeedSteps - 1)
    PROVE  LET d == OpenCircuit(c, s, adv, by429, hint, account, j, x)
           IN  Moved(d, c) /\ (Speaks(d) => Measured(adv) \/ account)
  <1>. DEFINE c0 == [c EXCEPT !.state = "open", !.openAge = 0]
              c1 == Note429Open(c0, by429)
              c2 == ApplyBackoff(c1, s)
              c3 == ApplyQuotaPin(c2, s, adv, hint, account, j, x)
              c4 == NoteOpen(c3)
  <1>1. c0 \in Circuit /\ SameWindow(c0, c)
    BY Constants DEF Circuit, SameWindow
  <1>. HIDE DEF c0
  <1>2. c1 \in Circuit /\ SameWindow(c1, c)
    <2>1. c1 \in Circuit
      BY <1>1, Noted429
    <2>2. SameWindow(c1, c0)
      BY <1>1 DEF Note429Open, Clear429Escalation, Circuit, SameWindow
    <2>. QED BY <1>1, <2>1, <2>2 DEF SameWindow
  <1>. HIDE DEF c1
  <1>3. c2 \in Circuit /\ SameWindow(c2, c) /\ c2.cooldownBackoff <= Ceiling(s)
    <2>1. c2 \in Circuit /\ c2.cooldownBackoff <= Ceiling(s)
      BY <1>2, BackoffApplied
    <2>2. \A b : SameWindow([c1 EXCEPT !.cooldownBackoff = b], c1)
      BY <1>2 DEF Circuit, SameWindow
    <2>3. SameWindow(c2, c1)
      BY <2>2 DEF ApplyBackoff
    <2>. HIDE DEF c2
    <2>. QED BY <1>2, <2>1, <2>3 DEF SameWindow
  <1>. HIDE DEF c2
  <1>4. c3 \in Circuit /\ SameWindow(c3, c) /\ (Speaks(c3) => Measured(adv) \/ account)
    <2>1. c3 \in Circuit
      BY <1>3, PinApplied
    <2>2. \A p, o, y :
             LET a == [c2 EXCEPT !.cooldownOverride = p, !.pinSource = o, !.probeSeed = y]
                 b == [c2 EXCEPT !.cooldownOverride = p, !.pinSource = o]
             IN  /\ SameWindow(a, c2) /\ a.pinSource = o
                 /\ SameWindow(b, c2) /\ b.pinSource = o
      BY <1>3 DEF Circuit, SameWindow
    <2>. DEFINE source == IF Measured(adv) THEN AdvisorPinSource(adv.reserved)
                          ELSE IF account THEN "account" ELSE "response"
    <2>3. SameWindow(c3, c2) /\ c3.pinSource \in {source, "none"}
      <3>. DEFINE pin == ClampPin(IF Measured(adv) THEN adv.resetsIn ELSE hint, s.pinMax,
                                  UnpinnedCooldown(c2, s), j)
                  pinned == [c2 EXCEPT !.cooldownOverride = pin, !.pinSource = source,
                                       !.probeSeed = x]
                  bare == [c2 EXCEPT !.cooldownOverride = 0, !.pinSource = "none"]
      <3>1. c3 = IF s.pinMax > 0 /\ pin > 0 THEN pinned ELSE bare
        BY DEF ApplyQuotaPin, Measured
      <3>. HIDE DEF pin, source
      <3>2. SameWindow(pinned, c2) /\ pinned.pinSource = source
        BY <2>2, Zenon
      <3>3. SameWindow(bare, c2) /\ bare.pinSource = "none"
        BY <2>2
      <3>. HIDE DEF c3, pinned, bare
      <3>4. c3 = pinned \/ c3 = bare
        BY <3>1
      <3>. QED BY <3>2, <3>3, <3>4
    <2>4. PinSpeaksForAccount(source) => Measured(adv) \/ account
      BY DEF PinSpeaksForAccount
    <2>. HIDE DEF c3
    <2>5. Speaks(c3) => Measured(adv) \/ account
      BY <2>3, <2>4 DEF Speaks, PinSpeaksForAccount
    <2>. QED BY <1>3, <2>1, <2>3, <2>5 DEF SameWindow
  <1>. HIDE DEF c3
  <1>5. Moved(c4, c3) /\ SamePin(c4, c3)
    <2>1. WindowOK(c3)
      BY <1>4 DEF SameWindow, WindowOK
    <2>. QED BY <1>4, <2>1, NoteOpenMoves, NotedOpen
  <1>. HIDE DEF c4
  <1>6. Moved(c4, c) /\ (Speaks(c4) => Measured(adv) \/ account)
    BY <1>4, <1>5 DEF Moved, SameWindow, SamePin, Speaks
  <1>7. OpenCircuit(c, s, adv, by429, hint, account, j, x) = c4
    BY DEF OpenCircuit, c0, c1, c2, c3, c4
  <1>. QED BY <1>6, <1>7

(* What touches neither the window nor the pin. *)
SameVoice(d, c) == SameWindow(d, c) /\ d.pinSource = c.pinSource

LEMMA ProbedVoice ==
    ASSUME NEW c \in Circuit, NEW s
    PROVE  SameVoice(ProbeIfCooldownElapsed(c, s), c)
  BY DEF ProbeIfCooldownElapsed, Circuit, SameVoice, SameWindow

LEMMA ChargedVoice ==
    ASSUME NEW c \in Circuit, NEW s
    PROVE  /\ SameVoice(FailProbe(c, s), c)
           /\ SameVoice([c EXCEPT !.consecutiveFails = s.threshold], c)
           /\ SameVoice([c EXCEPT !.consecutiveFails = @ + 1], c)
  <1>1. \A v, n : SameVoice([c EXCEPT !.consecutiveFails = v, !.failedProbes = n], c)
    BY DEF Circuit, SameVoice, SameWindow
  <1>2. \A v : SameVoice([c EXCEPT !.consecutiveFails = v], c)
    BY DEF Circuit, SameVoice, SameWindow
  <1>. QED BY <1>1, <1>2 DEF FailProbe

LEMMA FailedMoves ==
    ASSUME NEW c \in Circuit, WindowOK(c), NEW s \in Configs, NEW adv \in Advice,
           NEW by429 \in BOOLEAN, NEW j \in Nat, NEW x \in 0..(SeedSteps - 1)
    PROVE  LET d == Failed(c, s, adv, by429, j, x)
           IN  Moved(d, c) /\ (Speaks(d) /\ ~Speaks(c) => Measured(adv))
  <1>. DEFINE charged == [c EXCEPT !.consecutiveFails = @ + 1]
              failed == FailProbe(c, s)
              a == OpenCircuit(failed, s, adv, by429, 0, FALSE, j, x)
              b == OpenCircuit(charged, s, adv, by429, 0, FALSE, j, x)
  <1>1. /\ charged \in Circuit /\ SameVoice(charged, c) /\ WindowOK(charged)
        /\ failed \in Circuit /\ SameVoice(failed, c) /\ WindowOK(failed)
    <2>1. /\ charged \in Circuit /\ SameVoice(charged, c)
          /\ failed \in Circuit /\ SameVoice(failed, c)
      BY Charged, ChargedVoice
    <2>. HIDE DEF charged, failed
    <2>. QED BY <2>1 DEF SameVoice, SameWindow, WindowOK
  <1>2. Failed(c, s, adv, by429, j, x) =
            IF c.state = "open" THEN c ELSE IF c.state = "half-open" THEN a
            ELSE IF c.consecutiveFails + 1 >= s.threshold THEN b ELSE charged
    BY DEF Failed
  <1>. HIDE DEF charged, failed
  <1>3. /\ Moved(a, failed) /\ (Speaks(a) => Measured(adv))
        /\ Moved(b, charged) /\ (Speaks(b) => Measured(adv))
    <2>1. 0 \in Nat /\ FALSE \in BOOLEAN
      OBVIOUS
    <2>. QED BY <1>1, <2>1, OpenMoves
  <1>. HIDE DEF a, b
  <1>4. Moved(a, c) /\ Moved(b, c) /\ Moved(charged, c) /\ Moved(c, c) /\ (Speaks(charged) => Speaks(c))
    BY <1>1, <1>3 DEF Moved, SameVoice, SameWindow, Speaks
  <1>. DEFINE d == Failed(c, s, adv, by429, j, x)
  <1>5. d \in {a, b, c, charged}
    BY <1>2, Zenon
  <1>. HIDE DEF d
  <1>6. Moved(d, c) /\ (Speaks(d) /\ ~Speaks(c) => Measured(adv))
    BY <1>3, <1>4, <1>5
  <1>. QED BY <1>6 DEF d

LEMMA ExhaustedMoves ==
    ASSUME NEW c \in Circuit, WindowOK(c), NEW s \in Configs, NEW adv \in Advice,
           NEW by429 \in BOOLEAN, NEW hint \in Nat, NEW account \in BOOLEAN,
           NEW j \in Nat, NEW x \in 0..(SeedSteps - 1)
    PROVE  LET d == Exhausted(c, s, adv, by429, hint, account, j, x)
           IN  Moved(d, c) /\ (Speaks(d) /\ ~Speaks(c) => Measured(adv) \/ account)
  <1>. DEFINE paced   == PinProbes(c.pinSource) /\ s.pinProbe > 0
              charged == IF c.state = "half-open" /\ ~paced THEN FailProbe(c, s)
                         ELSE [c EXCEPT !.consecutiveFails = s.threshold]
              a == OpenCircuit(charged, s, adv, by429, hint, account, j, x)
  <1>1. charged \in Circuit /\ SameVoice(charged, c) /\ WindowOK(charged)
    <2>1. charged \in Circuit /\ SameVoice(charged, c)
      BY Charged, ChargedVoice
    <2>. HIDE DEF charged
    <2>. QED BY <2>1 DEF SameVoice, SameWindow, WindowOK
  <1>. DEFINE d == Exhausted(c, s, adv, by429, hint, account, j, x)
  <1>2. d = IF c.state = "open" THEN c ELSE a
    BY DEF Exhausted
  <1>. HIDE DEF charged
  <1>3. Moved(a, charged) /\ (Speaks(a) => Measured(adv) \/ account)
    BY <1>1, OpenMoves
  <1>. HIDE DEF a, d
  <1>4. Moved(a, c) /\ Moved(c, c)
    BY <1>1, <1>3 DEF Moved, SameVoice, SameWindow
  <1>5. Moved(d, c) /\ (Speaks(d) /\ ~Speaks(c) => Measured(adv) \/ account)
    BY <1>2, <1>3, <1>4
  <1>. QED BY <1>5 DEF d

(* A success clears the pin and keeps the window. *)
LEMMA SucceededMoves ==
    ASSUME NEW c \in Circuit, WindowOK(c)
    PROVE  Moved(Succeeded(c), c) /\ (Speaks(Succeeded(c)) => Speaks(c))
  <1>. DEFINE closed == [c EXCEPT !.consecutiveFails = 0]
              probe  == [c EXCEPT !.halfOpenProbes = @ + 1]
              emptied == [[c EXCEPT !.state = "closed", !.consecutiveFails = 0,
                            !.halfOpenProbes = 0, !.cooldownOverride = 0,
                            !.pinSource = "none", !.failedProbes = 0, !.cooldownBackoff = 0]
                          EXCEPT !.opens429Streak = 0, !.open429Window = NoWindow]
  <1>1. /\ SameWindow(closed, c) /\ closed.pinSource = c.pinSource
        /\ SameWindow(probe, c) /\ probe.pinSource = c.pinSource
        /\ SameWindow(emptied, c) /\ emptied.pinSource = "none"
    BY DEF Circuit, SameWindow
  <1>2. Succeeded(c) \in {c, closed, emptied, probe}
    BY Zenon DEF Succeeded, CloseCircuit, Clear429Escalation
  <1>. HIDE DEF closed, probe, emptied
  <1>3. SameWindow(Succeeded(c), c) /\ (Speaks(Succeeded(c)) => Speaks(c))
    BY <1>1, <1>2 DEF SameWindow, Speaks, PinSpeaksForAccount
  <1>. QED BY <1>3, SameMoves

(* A reading makes a circuit speak for the account only if its reset is    *)
(* ahead: a pin measured from the open clears the cooldown only then.      *)
LEMMA RetargetMoves ==
    ASSUME NEW c, CircuitOK(c), NEW s \in Configs, NEW adv \in Advice, NEW j \in Nat
    PROVE  LET d == Retarget(c, s, adv, j)
           IN  /\ SameWindow(d, c) /\ d.state = c.state
               /\ Speaks(d) /\ ~Speaks(c) => adv.resetsIn > 0
  <1>. DEFINE floor == EffectiveCooldown(c, s)
              length == adv.resetsIn + c.openAge
              pin == ClampPin(length, s.pinMax, floor, j)
              source == AdvisorPinSource(adv.reserved)
              measured == c.cooldownOverride > 0 /\ c.pinSource \in {"advisor", "reserve"}
              a == [c EXCEPT !.cooldownOverride = pin, !.pinSource = source]
              b == [c EXCEPT !.pinSource = source]
              d == Retarget(c, s, adv, j)
  <1>1. c \in Circuit /\ c.openAge \in Nat /\ adv.resetsIn \in Nat
    BY HorizonAssumption DEF CircuitOK, Circuit, Advice
  <1>2. floor \in Nat /\ length \in Nat
    BY <1>1, CooldownBounds DEF CircuitOK
  <1>3. d = IF ~Blocking(c, s) THEN c ELSE IF pin > 0 THEN a ELSE IF measured THEN b ELSE c
    BY DEF Retarget
  <1>4. (Blocking(c, s) /\ pin > 0) => adv.resetsIn > 0
    <2>1. Blocking(c, s) => c.openAge < floor
      BY DEF Blocking, StillDark
    <2>. HIDE DEF floor
    <2>2. pin > 0 => Smaller(length, s.pinMax) > floor
      BY <1>2, ConfigTypes DEF ClampPin, Smaller
    <2>3. pin > 0 => length > floor
      <3>. HIDE DEF pin, length
      <3>. QED BY <1>2, <2>2, ConfigTypes DEF Smaller
    <2>. HIDE DEF pin
    <2>. QED BY <1>1, <1>2, <2>1, <2>3
  <1>5. measured => Speaks(c)
    BY DEF Speaks, PinSpeaksForAccount
  <1>. HIDE DEF pin, source
  <1>6. /\ SameWindow(a, c) /\ a.state = c.state /\ SameWindow(b, c) /\ b.state = c.state
        /\ SameWindow(c, c)
    BY <1>1 DEF Circuit, SameWindow
  <1>. HIDE DEF a, b, d, measured
  <1>7. /\ SameWindow(d, c) /\ d.state = c.state
        /\ Speaks(d) /\ ~Speaks(c) => adv.resetsIn > 0
    BY <1>3, <1>4, <1>5, <1>6
  <1>. QED BY <1>7 DEF d

(* Making room leaves a circuit, forgets it, or makes a new one where      *)
(* there was none.                                                         *)
LEMMA RoomMade ==
    ASSUME NEW cs, MapOK(cs), NEW k \in Keys, NEW ds \in GetOrCreate(cs, k), NEW i \in Keys
    PROVE  \/ ds[i] = cs[i]
           \/ ds[i] = Untracked /\ i # k
           \/ i = k /\ ds[i] = Fresh /\ cs[i] = Untracked
  <1>1. cs \in [Keys -> Circuit] /\ (cs[k].state = "untracked" => cs[k] = Untracked)
    BY DEF MapOK, CircuitOK, NoResidueOf
  <1>2. CASE ds = cs
    BY <1>2
  <1>3. CASE cs[k].state = "untracked" /\ ds = [cs EXCEPT ![k] = Fresh]
    BY <1>1, <1>3
  <1>4. ASSUME NEW v \in Keys, cs[v].state = "closed", cs[k].state = "untracked",
               ds = [cs EXCEPT ![v] = Untracked, ![k] = Fresh]
        PROVE  \/ ds[i] = cs[i]
               \/ ds[i] = Untracked /\ i # k
               \/ i = k /\ ds[i] = Fresh /\ cs[i] = Untracked
    BY <1>1, <1>4
  <1>. QED BY <1>2, <1>3, <1>4 DEF GetOrCreate

(* Neither a new circuit nor the lack of one reports or speaks. *)
LEMMA NewVoices ==
    /\ ~Fresh.unstableReported /\ ~Untracked.unstableReported /\ Untracked.state = "untracked"
    /\ Fresh.pinSource = "none" /\ Untracked.pinSource = "none"
    /\ ~Speaks(Fresh) /\ ~Speaks(Untracked) /\ WindowOK(Fresh) /\ WindowOK(Untracked)
  BY DEF Fresh, Untracked, Speaks, PinSpeaksForAccount, WindowOK

LEMMA RoomMoves ==
    ASSUME NEW cs, MapOK(cs), NEW k \in Keys, NEW ds \in GetOrCreate(cs, k), NEW i \in Keys,
           WindowOK(cs[i])
    PROVE  /\ Moved(ds[i], cs[i]) /\ (Speaks(ds[i]) => Speaks(cs[i]))
           /\ ds[i].unstableReported => cs[i].unstableReported
           /\ i = k => SameWindow(ds[i], cs[i]) \/ ~cs[i].unstableReported
  BY RoomMade, NewVoices DEF Moved, SameWindow

(* An outcome moves the circuit it lands on, and may cost another its      *)
(* place.                                                                  *)
LEMMA OutcomeMoves ==
    ASSUME MapOK(circuits), NEW m \in Models, NEW ds \in GetOrCreate(circuits, m), NEW d, NEW k \in Keys,
           WindowOK(circuits[k]), circuits' = [ds EXCEPT ![m] = d],
           WindowOK(ds[m]) => Moved(d, ds[m])
    PROVE  /\ Moved(circuits'[k], circuits[k])
           /\ Speaks(circuits'[k]) /\ ~Speaks(circuits[k]) => k = m /\ Speaks(d) /\ ~Speaks(ds[m])
           /\ k = Seed => (circuits'[k].unstableReported => circuits[k].unstableReported)
  <1>1. m \in Keys /\ m # Seed /\ ds \in [Keys -> Circuit]
    BY GotOrCreated, KeysAssumption DEF Keys
  <1>2. circuits'[k] = IF k = m THEN d ELSE ds[k]
    BY <1>1
  <1>3. /\ Moved(ds[k], circuits[k]) /\ (Speaks(ds[k]) => Speaks(circuits[k]))
        /\ ds[k].unstableReported => circuits[k].unstableReported
        /\ k = m => SameWindow(ds[k], circuits[k]) \/ ~circuits[k].unstableReported
    BY <1>1, RoomMoves
  <1>4. CASE k # m
    BY <1>2, <1>3, <1>4
  <1>5. CASE k = m
    <2>1. circuits'[k] = d /\ Moved(d, ds[k])
      BY <1>2, <1>3, <1>5 DEF Moved
    <2>. QED BY <1>1, <1>3, <1>5, <2>1 DEF Moved, SameWindow
  <1>. QED BY <1>4, <1>5

(* What may make a circuit speak for the account. *)
Evidence ==
    \/ advice.known /\ advice.resetsIn > 0
    \/ \E m \in Models, by429 \in BOOLEAN, hint \in Hints : RecordExhausted(m, by429, hint, TRUE)
    \/ \E adv \in Readings : adv.resetsIn > 0 /\ ApplyQuotaPins(adv)

VoiceKept(k) ==
    /\ Moved(circuits'[k], circuits[k])
    /\ Speaks(circuits'[k]) /\ ~Speaks(circuits[k]) => Evidence
    /\ k = Seed => (circuits'[k].unstableReported => circuits[k].unstableReported)

LEMMA QuietStep ==
    ASSUME NEW k \in Keys, WindowOK(circuits[k]),
           \/ circuits'[k] = Untracked
           \/ SameWindow(circuits'[k], circuits[k]) /\ circuits'[k].pinSource = circuits[k].pinSource
           \/ SameWindow(circuits'[k], circuits[k]) /\ circuits'[k].pinSource = "none"
    PROVE  VoiceKept(k)
  BY SameMoves, NewVoices DEF VoiceKept, Moved, SameWindow, Speaks, PinSpeaksForAccount

LEMMA OutcomesVoice ==
    ASSUME IInv, ReportsOK, NEW k \in Keys, NEW m \in Models,
           \/ \E by429 \in BOOLEAN : RecordFailure(m, by429)
           \/ \E by429, account \in BOOLEAN, hint \in Hints : RecordExhausted(m, by429, hint, account)
           \/ RecordSaturated(m) \/ RecordSuccess(m)
    PROVE  VoiceKept(k)
  <1>1. /\ MapOK(circuits) /\ WindowOK(circuits[k]) /\ settings \in Configs /\ advice \in Advice
        /\ m \in Keys /\ 0 \in Nat
    BY DEF IInv, TypeOK, ReportsOK, Keys
  <1>2. ASSUME NEW ds \in GetOrCreate(circuits, m)
        PROVE  /\ ds[m] \in Circuit /\ m \in DOMAIN ds
               /\ LET p == ProbeIfCooldownElapsed(ds[m], settings)
                  IN  p \in Circuit /\ SameVoice(p, ds[m])
    <2>1. ds \in [Keys -> Circuit] /\ CircuitOK(ds[m])
      BY <1>1, GotOrCreated
    <2>. QED BY <1>1, <2>1, Probed, ProbedVoice DEF CircuitOK
  <1>3. ASSUME NEW ds \in GetOrCreate(circuits, m), NEW d, circuits' = [ds EXCEPT ![m] = d],
               NEW p \in Circuit, SameVoice(p, ds[m]),
               WindowOK(p) => Moved(d, p) /\ (Speaks(d) /\ ~Speaks(p) => Evidence)
        PROVE  VoiceKept(k)
    <2>1. WindowOK(ds[m]) => Moved(d, ds[m]) /\ (Speaks(d) /\ ~Speaks(ds[m]) => Evidence)
      BY <1>3 DEF SameVoice, SameWindow, WindowOK, Moved, Speaks
    <2>2. WindowOK(ds[m])
      <3>1. WindowOK(circuits[m])
        BY <1>1 DEF ReportsOK
      <3>. QED BY <1>1, <3>1, RoomMoves DEF Moved
    <2>. QED BY <1>1, <1>3, <2>1, <2>2, OutcomeMoves DEF VoiceKept
  <1>4. ASSUME NEW by429 \in BOOLEAN, RecordFailure(m, by429) PROVE VoiceKept(k)
    <2>1. PICK ds \in GetOrCreate(circuits, m), j \in Jitters, x \in 0..(SeedSteps - 1) :
             circuits' = [ds EXCEPT ![m] =
                 Failed(ProbeIfCooldownElapsed(@, settings), settings, advice, by429, j, x)]
      BY <1>4 DEF RecordFailure
    <2>. DEFINE p == ProbeIfCooldownElapsed(ds[m], settings)
                d == Failed(p, settings, advice, by429, j, x)
    <2>2. p \in Circuit /\ SameVoice(p, ds[m]) /\ j \in Nat
      BY <1>2, BoundsAssumption
    <2>3. circuits' = [ds EXCEPT ![m] = d]
      BY <1>2, <2>1
    <2>. HIDE DEF p
    <2>4. WindowOK(p) => Moved(d, p) /\ (Speaks(d) /\ ~Speaks(p) => Evidence)
      BY <1>1, <2>2, FailedMoves DEF Measured, Evidence
    <2>. HIDE DEF d
    <2>. QED BY <1>3, <2>2, <2>3, <2>4
  <1>5. ASSUME NEW by429 \in BOOLEAN, NEW account \in BOOLEAN, NEW hint \in Hints,
               RecordExhausted(m, by429, hint, account)
        PROVE  VoiceKept(k)
    <2>1. PICK ds \in GetOrCreate(circuits, m), j \in Jitters, x \in 0..(SeedSteps - 1) :
             circuits' = [ds EXCEPT ![m] =
                 Exhausted(ProbeIfCooldownElapsed(@, settings), settings, advice,
                           by429, hint, account, j, x)]
      BY <1>5 DEF RecordExhausted
    <2>. DEFINE p == ProbeIfCooldownElapsed(ds[m], settings)
                d == Exhausted(p, settings, advice, by429, hint, account, j, x)
    <2>2. p \in Circuit /\ SameVoice(p, ds[m]) /\ j \in Nat /\ hint \in Nat
      BY <1>2, BoundsAssumption
    <2>3. circuits' = [ds EXCEPT ![m] = d]
      BY <1>2, <2>1
    <2>. HIDE DEF p
    <2>4. account => Evidence
      <3>1. CASE account = TRUE
        BY <1>5, <3>1, Zenon DEF Evidence
      <3>. QED BY <3>1
    <2>5. WindowOK(p) => Moved(d, p) /\ (Speaks(d) /\ ~Speaks(p) => Measured(advice) \/ account)
      BY <1>1, <2>2, ExhaustedMoves
    <2>6. Measured(advice) => Evidence
      BY DEF Measured, Evidence
    <2>. HIDE DEF d
    <2>. QED BY <1>3, <2>2, <2>3, <2>4, <2>5, <2>6
  <1>6. CASE RecordSaturated(m)
    <2>1. PICK ds \in GetOrCreate(circuits, m) :
             circuits' = [ds EXCEPT ![m] = ProbeIfCooldownElapsed(@, settings)]
      BY <1>6 DEF RecordSaturated
    <2>. DEFINE p == ProbeIfCooldownElapsed(ds[m], settings)
    <2>2. p \in Circuit /\ SameVoice(p, ds[m]) /\ circuits' = [ds EXCEPT ![m] = p]
      BY <1>2, <2>1
    <2>. HIDE DEF p
    <2>3. WindowOK(p) => Moved(p, p)
      BY DEF Moved
    <2>. QED BY <1>3, <2>2, <2>3
  <1>7. CASE RecordSuccess(m)
    <2>1. PICK ds \in GetOrCreate(circuits, m) :
             circuits' = [ds EXCEPT ![m] = Succeeded(ProbeIfCooldownElapsed(@, settings))]
      BY <1>7 DEF RecordSuccess
    <2>. DEFINE p == ProbeIfCooldownElapsed(ds[m], settings)
                d == Succeeded(p)
    <2>2. p \in Circuit /\ SameVoice(p, ds[m]) /\ circuits' = [ds EXCEPT ![m] = d]
      BY <1>2, <2>1
    <2>. HIDE DEF p
    <2>3. WindowOK(p) => Moved(d, p) /\ (Speaks(d) => Speaks(p))
      BY <2>2, SucceededMoves
    <2>. HIDE DEF d
    <2>. QED BY <1>3, <2>2, <2>3
  <1>. QED BY <1>4, <1>5, <1>6, <1>7

LEMMA QuotaVoice ==
    ASSUME IInv, ReportsOK, NEW k \in Keys, NEW adv \in Readings, ApplyQuotaPins(adv)
    PROVE  VoiceKept(k)
  <1>. DEFINE swept == SweepExpiredSeeds(circuits, settings)
  <1>1. /\ MapOK(circuits) /\ WindowOK(circuits[k]) /\ settings \in Configs /\ adv \in Advice
        /\ Seed \in Keys /\ ~circuits[Seed].unstableReported /\ circuits \in [Keys -> Circuit]
    BY BoundsAssumption DEF IInv, TypeOK, MapOK, ReportsOK, Keys
  <1>2. MapOK(swept) /\ swept[k] \in {circuits[k], Untracked} /\ CircuitOK(swept[k])
        /\ ~swept[Seed].unstableReported /\ (k # Seed => swept[k] = circuits[k])
    <2>1. MapOK(swept)
      BY <1>1, Swept
    <2>2. swept[k] \in {circuits[k], Untracked} /\ (k # Seed => swept[k] = circuits[k])
          /\ swept[Seed] \in {circuits[Seed], Untracked}
      BY <1>1 DEF SweepExpiredSeeds
    <2>. HIDE DEF swept
    <2>. QED BY <1>1, <2>1, <2>2, NewVoices DEF MapOK
  <1>3. CASE circuits' = swept
    <2>1. circuits'[k] = Untracked \/ circuits'[k] = circuits[k]
      BY <1>2, <1>3
    <2>. QED BY <1>1, <2>1, QuietStep DEF SameWindow
  <1>4. CASE circuits' # swept
    <2>1. PICK j \in [Keys -> Jitters], x \in 0..(SeedSteps - 1) :
             circuits' \in SeedQuotaPin([i \in Keys |-> Retarget(swept[i], settings, adv, j[i])],
                                        settings, adv, j[Seed], x)
      BY <1>4, Zenon DEF ApplyQuotaPins
    <2>. DEFINE pinned == [i \in Keys |-> Retarget(swept[i], settings, adv, j[i])]
                pin == ClampPin(adv.resetsIn, settings.pinMax, settings.cooldown, j[Seed])
    <2>2. MapOK(pinned) /\ j[k] \in Nat /\ j[Seed] \in Nat
      BY <1>1, <1>2, RetargetedMap, BoundsAssumption
    <2>3. /\ SameWindow(pinned[k], swept[k]) /\ pinned[k].state = swept[k].state
          /\ Speaks(pinned[k]) /\ ~Speaks(swept[k]) => adv.resetsIn > 0
      <3>1. pinned[k] = Retarget(swept[k], settings, adv, j[k])
        OBVIOUS
      <3>. HIDE DEF pinned, swept
      <3>. QED BY <1>1, <1>2, <2>2, <3>1, RetargetMoves
    <2>4. circuits' \in SeedQuotaPin(pinned, settings, adv, j[Seed], x)
      BY <2>1
    <2>. HIDE DEF pinned, swept
    <2>5. adv.resetsIn > 0 => Evidence
      BY Zenon DEF Evidence
    <2>6. WindowOK(pinned[k]) /\ Moved(pinned[k], circuits[k])
          /\ (Speaks(pinned[k]) /\ ~Speaks(circuits[k]) => Evidence)
      BY <1>1, <1>2, <2>3, <2>5, NewVoices DEF WindowOK, Moved, SameWindow
    <2>7. CASE circuits' = pinned
      BY <1>2, <2>3, <2>6, <2>7 DEF VoiceKept, SameWindow
    <2>8. CASE circuits' # pinned
      <3>1. pin # 0
        BY <2>4, <2>8, Zenon DEF SeedQuotaPin
      <3>2. PICK room \in GetOrCreate(pinned, Seed) :
               circuits' = [room EXCEPT ![Seed] =
                   [@ EXCEPT !.state = "open", !.openAge = 0,
                             !.consecutiveFails = settings.threshold,
                             !.cooldownOverride = pin,
                             !.pinSource = AdvisorPinSource(adv.reserved),
                             !.probeSeed = x]]
        BY <2>4, <2>8, Zenon DEF SeedQuotaPin
      <3>3. adv.resetsIn > 0
        <4>1. adv.resetsIn \in Nat /\ settings.cooldown \in Nat /\ settings.pinMax \in Nat
          BY <1>1, ConfigTypes DEF Advice
        <4>. QED BY <3>1, <4>1 DEF ClampPin, Smaller
      <3>. HIDE DEF pin
      <3>4. /\ room \in [Keys -> Circuit]
            /\ Moved(room[k], pinned[k]) /\ (Speaks(room[k]) => Speaks(pinned[k]))
            /\ room[k].unstableReported => pinned[k].unstableReported
        BY <1>1, <2>2, <2>6, GotOrCreated, RoomMoves
      <3>5. CASE k # Seed
        <4>1. circuits'[k] = room[k]
          BY <3>2, <3>4, <3>5
        <4>2. swept[k] = circuits[k]
          BY <1>2, <3>5
        <4>. QED BY <2>3, <2>6, <3>4, <3>5, <4>1, <4>2 DEF VoiceKept, Moved, SameWindow
      <3>6. CASE k = Seed
        <4>1. \A o, y : SameWindow([room[k] EXCEPT !.state = "open", !.openAge = 0,
                                       !.consecutiveFails = settings.threshold,
                                       !.cooldownOverride = pin,
                                       !.pinSource = o, !.probeSeed = y], room[k])
          BY <3>4 DEF Circuit, SameWindow
        <4>2. SameWindow(circuits'[k], room[k])
          BY <1>1, <3>2, <3>4, <3>6, <4>1
        <4>3. ~circuits'[k].unstableReported
          BY <1>2, <2>3, <3>4, <3>6, <4>2 DEF SameWindow
        <4>. QED BY <1>1, <2>5, <3>3, <3>6, <4>3 DEF VoiceKept, Moved, WindowOK
      <3>. QED BY <3>5, <3>6
    <2>. QED BY <2>7, <2>8
  <1>. QED BY <1>3, <1>4

LEMMA OtherVoice ==
    ASSUME IInv, ReportsOK, NEW k \in Keys,
           \/ \E a \in Callers, m \in Models : IsOpenRead(a, m)
           \/ \E a \in Callers : IsOpenWrite(a)
           \/ \E adv \in Readings : ReplaceAdvice(adv)
           \/ ReleaseQuotaPins \/ ReleaseAllQuotaPins
           \/ \E i \in Keys : ResetModel(i)
           \/ Reset
           \/ \E s \in Configs : ChangeSettings(s)
           \/ Tick
    PROVE  VoiceKept(k)
  <1>. DEFINE c == circuits[k]
  <1>1. c \in Circuit /\ circuits \in [Keys -> Circuit] /\ WindowOK(c) /\ settings \in Configs
    BY DEF IInv, TypeOK, ReportsOK
  <1>2. CASE \/ \E a \in Callers, m \in Models : IsOpenRead(a, m)
             \/ \E adv \in Readings : ReplaceAdvice(adv)
             \/ \E s \in Configs : ChangeSettings(s)
    <2>1. circuits' = circuits
      BY <1>2 DEF IsOpenRead, ReplaceAdvice, ChangeSettings
    <2>. QED BY <1>1, <2>1, QuietStep DEF SameWindow
  <1>3. ASSUME NEW a \in Callers, IsOpenWrite(a) PROVE VoiceKept(k)
    <2>1. asks[a].model \in Keys
      BY <1>3 DEF IsOpenWrite, IInv, AsksOK, Keys
    <2>2. circuits'[k] \in {c, ProbeIfCooldownElapsed(c, settings)}
      BY <1>1, <1>3, <2>1 DEF IsOpenWrite
    <2>3. SameVoice(circuits'[k], c)
      BY <1>1, <2>2, ProbedVoice DEF SameVoice, SameWindow
    <2>. QED BY <1>1, <2>3, QuietStep DEF SameVoice
  <1>4. CASE ReleaseQuotaPins \/ ReleaseAllQuotaPins
    <2>1. /\ SameVoice(Clear429Escalation(c), c)
          /\ SameWindow(ReleasePin(c), c) /\ ReleasePin(c).pinSource = "none"
          /\ SameWindow(ReleasePin(Clear429Escalation(c)), c)
          /\ ReleasePin(Clear429Escalation(c)).pinSource = "none"
      BY <1>1 DEF Clear429Escalation, ReleasePin, SameVoice, SameWindow, Circuit
    <2>2. circuits'[k] \in {Untracked, c, Clear429Escalation(c), ReleasePin(c),
                            ReleasePin(Clear429Escalation(c))}
      BY <1>4 DEF ReleaseQuotaPins, ReleaseAllQuotaPins, Released
    <2>. QED BY <1>1, <2>1, <2>2, QuietStep DEF SameVoice, SameWindow
  <1>5. CASE Reset \/ \E i \in Keys : ResetModel(i)
    <2>1. circuits'[k] = Untracked \/ circuits'[k] = c
      BY <1>1, <1>5 DEF Reset, ResetModel
    <2>. QED BY <1>1, <2>1, QuietStep DEF SameWindow
  <1>6. CASE Tick
    <2>1. circuits'[k] = Aged(c)
      BY <1>6 DEF Tick
    <2>2. /\ Aged(c).unstableReported = c.unstableReported /\ Aged(c).pinSource = c.pinSource
          /\ Aged(c).openWindow = Older(c.openWindow)
      BY <1>1 DEF Aged, Circuit
    <2>3. Older(c.openWindow) = NoWindow => c.openWindow = NoWindow
      BY <1>1, BoundsAssumption DEF Older, CountTo, NoWindow, Circuit
    <2>. QED BY <1>1, <2>1, <2>2, <2>3 DEF VoiceKept, Moved, WindowOK, Speaks
  <1>. QED BY <1>2, <1>3, <1>4, <1>5, <1>6

LEMMA VoiceStep ==
    ASSUME IInv, ReportsOK, Next, NEW k \in Keys
    PROVE  VoiceKept(k)
  <1>1. ASSUME NEW m \in Models,
               \/ \E by429 \in BOOLEAN : RecordFailure(m, by429)
               \/ \E by429, account \in BOOLEAN, hint \in Hints :
                      RecordExhausted(m, by429, hint, account)
               \/ RecordSaturated(m) \/ RecordSuccess(m)
        PROVE  VoiceKept(k)
    BY <1>1, OutcomesVoice
  <1>2. ASSUME NEW adv \in Readings, ApplyQuotaPins(adv) PROVE VoiceKept(k)
    BY <1>2, QuotaVoice
  <1>3. CASE \/ \E a \in Callers, m \in Models : IsOpenRead(a, m)
             \/ \E a \in Callers : IsOpenWrite(a)
             \/ \E adv \in Readings : ReplaceAdvice(adv)
             \/ ReleaseQuotaPins \/ ReleaseAllQuotaPins
             \/ \E i \in Keys : ResetModel(i)
             \/ Reset
             \/ \E s \in Configs : ChangeSettings(s)
             \/ Tick
    BY <1>3, OtherVoice
  <1>. QED BY <1>1, <1>2, <1>3 DEF Next

LEMMA ReportsInductive == IInv /\ ReportsOK /\ [Next]_vars => ReportsOK'
  <1>. SUFFICES ASSUME IInv, ReportsOK, [Next]_vars PROVE ReportsOK'
    OBVIOUS
  <1>1. CASE UNCHANGED vars
    BY <1>1 DEF ReportsOK, WindowOK, vars
  <1>2. CASE Next
    <2>1. \A k \in Keys : VoiceKept(k)
      BY <1>2, VoiceStep
    <2>2. Seed \in Keys
      BY DEF Keys
    <2>. QED BY <2>1, <2>2 DEF ReportsOK, VoiceKept, Moved
  <1>. QED BY <1>1, <1>2

LEMMA ReportsHold == Spec => []ReportsOK
  <1>1. Init => ReportsOK
    <2>1. Seed \in Keys
      BY DEF Keys
    <2>. QED BY <2>1, NewVoices DEF Init, ReportsOK
  <1>. QED BY <1>1, ReportsInductive, Inductive, PTL DEF Spec

(* For any models, readings and settings: a circuit comes to speak for the *)
(* whole account only on a refusal of the account or a reading whose reset *)
(* is ahead, whatever passes, outcomes and evictions come between          *)
(* (applyQuotaPin, ApplyQuotaPins, seedQuotaPin).                          *)
THEOREM AccountPinsHaveEvidence == Spec => AccountPinNeedsEvidence
  <1>1. ASSUME IInv, ReportsOK, Next, \E k \in Keys : Speaks(circuits'[k]) /\ ~Speaks(circuits[k])
        PROVE  Evidence
    BY <1>1, VoiceStep DEF VoiceKept
  <1>2. IInv /\ ReportsOK /\ [Next]_vars =>
           [(\E k \in Keys : Speaks(circuits'[k]) /\ ~Speaks(circuits[k])) =>
               \/ advice.known /\ advice.resetsIn > 0
               \/ \E m \in Models, by429 \in BOOLEAN, hint \in Hints :
                      RecordExhausted(m, by429, hint, TRUE)
               \/ \E adv \in Readings : adv.resetsIn > 0 /\ ApplyQuotaPins(adv)]_vars
    BY <1>1 DEF Evidence
  <1>. QED BY <1>2, Inductive, ReportsHold, PTL DEF Spec, AccountPinNeedsEvidence

(* A model that keeps reopening is reported once per window, for any       *)
(* number of models and whatever closes, seeds and evictions come between: *)
(* the report is forgotten only with its window or its circuit (noteOpen,  *)
(* recordSuccess, evictIfFull).                                            *)
THEOREM ReportsOnlyOnce == Spec => ReportedOncePerWindow
  <1>. DEFINE Once(k) ==
          (circuits[k].unstableReported /\ ~circuits'[k].unstableReported) =>
              circuits'[k].state = "untracked" \/ circuits[k].openWindow > ReopenWindow
  <1>1. ASSUME IInv, ReportsOK, Next, NEW k \in Keys PROVE Once(k)
    BY <1>1, VoiceStep DEF VoiceKept, Moved
  <1>2. IInv /\ ReportsOK /\ [Next]_vars => [\A k \in Keys : Once(k)]_vars
    BY <1>1
  <1>. QED BY <1>2, Inductive, ReportsHold, PTL DEF Spec, ReportedOncePerWindow

-----------------------------------------------------------------------------
(***************************************************************************)
(* A refused caller has a retry instant.                                   *)
(***************************************************************************)

(* A nonempty set of natural numbers has a least one. *)
LEMMA LeastOf ==
    ASSUME NEW S, S \subseteq Nat, S # {}
    PROVE  \E w \in S : \A v \in S : w <= v
  <1>. DEFINE R == OpToRel(<, Nat)
  <1>1. \A x, y \in Nat : <<x, y>> \in R <=> x < y
    BY DEF OpToRel
  <1>2. \E w \in S : \A v \in S : ~(<<v, w>> \in R)
    <2>. HIDE DEF R
    <2>1. IsWellFoundedOn(R, Nat)
      BY NatLessThanWellFounded DEF R
    <2>. QED BY <2>1, WFMin
  <1>. HIDE DEF R
  <1>3. PICK w \in S : \A v \in S : ~(<<v, w>> \in R)
    BY <1>2
  <1>4. \A v \in S : w <= v
    <2>. SUFFICES ASSUME NEW v \in S PROVE w <= v
      OBVIOUS
    <2>1. v \in Nat /\ w \in Nat /\ ~(<<v, w>> \in R)
      BY <1>3
    <2>2. ~(v < w)
      BY <1>1, <2>1, Zenon
    <2>. QED BY <2>1, <2>2
  <1>. QED BY <1>4

(* A circuit that blocks has time left. *)
LEMMA BlockingWaits ==
    ASSUME NEW c, CircuitOK(c), NEW s \in Configs, Blocking(c, s)
    PROVE  WaitOf(c, s) \in Nat /\ WaitOf(c, s) > 0
  <1>1. EffectiveCooldown(c, s) \in Nat /\ c.openAge \in Nat
    BY CooldownBounds, HorizonAssumption DEF CircuitOK, Circuit
  <1>. QED BY <1>1 DEF WaitOf, Blocking, StillDark

(* A provider-wide verdict has a circuit behind it. *)
LEMMA OpenHasBlocked ==
    ASSUME NEW cs, NEW s \in Configs, ProviderOpen(cs, s)
    PROVE  Blocked(cs, s) # {}
  <1>1. Cardinality({}) = 0 /\ s.span \in Nat \ {0}
    BY FS_EmptySet, ConfigTypes
  <1>. QED BY <1>1 DEF ProviderOpen, AccountPinned

LEMMA RefusalDated ==
    ASSUME NEW cs, MapOK(cs), NEW s \in Configs, NEW m \in Keys,
           Blocking(cs[m], s) \/ ProviderOpen(cs, s)
    PROVE  BlockedUntil(cs, s, m) > 0
  <1>1. CASE Blocking(cs[m], s)
    BY <1>1, BlockingWaits DEF BlockedUntil, MapOK
  <1>2. CASE ~Blocking(cs[m], s)
    <2>. DEFINE waits == {WaitOf(cs[k], s) : k \in Blocked(cs, s)}
                least == CHOOSE w \in waits : \A v \in waits : w <= v
    <2>1. ProviderOpen(cs, s) /\ BlockedUntil(cs, s, m) = least
      BY <1>2 DEF BlockedUntil
    <2>2. waits # {} /\ \A w \in waits : w \in Nat /\ w > 0
      BY <2>1, OpenHasBlocked, BlockingWaits DEF Blocked, MapOK
    <2>. HIDE DEF waits
    <2>3. \E w \in waits : \A v \in waits : w <= v
      BY <2>2, LeastOf
    <2>4. least \in waits
      BY <2>3
    <2>. QED BY <2>1, <2>2, <2>4
  <1>. QED BY <1>1, <1>2

(* For any models, callers and settings: whenever IsOpen refuses, at its   *)
(* read-locked or at its write-locked half, BlockedUntil names an instant  *)
(* still ahead.                                                            *)
THEOREM RefusalAlwaysDated == Spec => RefusedHasRetry
  <1>. DEFINE Dated(a) == Told(a, "refused") => BlockedUntil(circuits', settings', asks'[a].model) > 0
  <1>1. ASSUME IInv, Next, NEW a \in Callers, Told(a, "refused")
        PROVE  BlockedUntil(circuits', settings', asks'[a].model) > 0
    <2>1. /\ MapOK(circuits) /\ MapOK(circuits)' /\ asks \in [Callers -> AskType]
          /\ settings \in Configs
      BY <1>1, NextIInv DEF IInv, TypeOK
    <2>2. ASSUME NEW b \in Callers, NEW m \in Models, IsOpenRead(b, m)
          PROVE  BlockedUntil(circuits', settings', asks'[a].model) > 0
      <3>1. /\ circuits' = circuits /\ settings' = settings /\ a = b /\ m \in Keys
            /\ asks'[a] = IF circuits[m].state # "open" THEN Answer(m, ProviderOpen(circuits, settings))
                          ELSE IF StillDark(circuits[m], settings) THEN Answer(m, TRUE)
                          ELSE [pc |-> "relock", model |-> m]
        BY <1>1, <2>1, <2>2 DEF IsOpenRead, Told, Keys
      <3>2. asks'[a].model = m /\ (Blocking(circuits[m], settings) \/ ProviderOpen(circuits, settings))
        BY <1>1, <3>1 DEF Answer, Told, Blocking
      <3>. QED BY <2>1, <3>1, <3>2, RefusalDated
    <2>3. ASSUME NEW b \in Callers, IsOpenWrite(b)
          PROVE  BlockedUntil(circuits', settings', asks'[a].model) > 0
      <3>. DEFINE m == asks[b].model
      <3>1. /\ settings' = settings /\ a = b /\ m \in Keys
            /\ asks'[a] = Answer(m, ProviderOpen(circuits', settings))
        BY <1>1, <2>1, <2>3 DEF IsOpenWrite, Told, IInv, AsksOK, Keys
      <3>. HIDE DEF m
      <3>2. asks'[a].model = m /\ ProviderOpen(circuits', settings)
        BY <1>1, <3>1 DEF Answer, Told
      <3>3. MapOK(circuits')
        BY <2>1 DEF MapOK
      <3>. QED BY <2>1, <3>1, <3>2, <3>3, RefusalDated
    <2>4. CASE asks' = asks
      BY <1>1, <2>4 DEF Told
    <2>5. (\E b \in Callers, m \in Models : IsOpenRead(b, m)) \/ (\E b \in Callers : IsOpenWrite(b))
          \/ asks' = asks
      BY <1>1 DEF Next, RecordFailure, RecordExhausted, RecordSaturated, RecordSuccess,
                  ApplyQuotaPins, ReplaceAdvice, ReleaseQuotaPins, ReleaseAllQuotaPins,
                  ResetModel, Reset, ChangeSettings, Tick
    <2>. QED BY <2>2, <2>3, <2>4, <2>5
  <1>2. IInv /\ [Next]_vars => [\A a \in Callers : Dated(a)]_vars
    BY <1>1
  <1>. QED BY <1>2, Inductive, PTL DEF Spec, RefusedHasRetry
=============================================================================
