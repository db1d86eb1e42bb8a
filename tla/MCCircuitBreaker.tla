-------------------------- MODULE MCCircuitBreaker --------------------------
(***************************************************************************)
(* Small instances of CircuitBreaker.  The cooldown is one unit of time;   *)
(* the probe interval and the backoff ceiling reach further, the pin       *)
(* ceiling furthest, as with the defaults.                                 *)
(***************************************************************************)
EXTENDS CircuitBreaker, TLC

Setting(threshold, span, backoffMax, pinMax, pinProbe) ==
    [threshold |-> threshold, span |-> span, cooldown |-> 1,
     backoffMax |-> backoffMax, pinMax |-> pinMax, pinProbe |-> pinProbe]

(* Everything on, the pin ceiling lowered under the waits it allowed, and  *)
(* a higher threshold with every ceiling zeroed.                           *)
Switched == {Setting(1, 2, 2, 3, 2), Setting(1, 2, 2, 2, 2), Setting(2, 1, 0, 0, 0)}

(* Only the escalation of 429 opens can outgrow the backoff ceiling;       *)
(* response pins run in full or are probed every two units.                *)
Escalating == {Setting(1, 2, 2, 4, 0), Setting(1, 2, 2, 4, 2)}

(* Short pins and no backoff, at the default span. *)
Spanning == {Setting(1, 2, 0, 2, 0)}

(* A window spent for the longest pin, and a reserve reading with no date. *)
SpentOrUndated == {NoAdvice, AdviceFor(3, FALSE), AdviceFor(0, TRUE)}
Spent          == {NoAdvice, AdviceFor(2, FALSE)}
NoReadings     == {NoAdvice}

ModelSymmetry == Permutations(Models)
=============================================================================
