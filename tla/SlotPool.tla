------------------------------ MODULE SlotPool ------------------------------
(***************************************************************************)
(* What the in-flight limiter promises the providers and the operator.     *)
(*                                                                         *)
(* Each provider has a pool of slots.  A request holds at most one slot    *)
(* anywhere, takes it only where both limits have room for it, counted in  *)
(* requests that really hold one, and gives it back once, to the pool it   *)
(* came from.  A learned allowance comes into being or narrows only to the *)
(* load carried at that instant, one at least; it widens only as a slot is *)
(* given back, by one, or is then forgotten.                               *)
(***************************************************************************)
EXTENDS Integers, FiniteSets

CONSTANTS Providers, Requests, Ceiling

VARIABLES
    held,      \* per provider, the requests that hold a slot of it
    allowance  \* per provider, the learned allowance; 0 is none

vars == <<held, allowance>>

Load(p) == Cardinality(held[p])

Init ==
    /\ held = [p \in Providers |-> {}]
    /\ allowance = [p \in Providers |-> 0]

Acquire(r, p) ==
    /\ \A q \in Providers : r \notin held[q]
    /\ \A most \in {Ceiling[p], allowance[p]} : most > 0 => Load(p) < most
    /\ held' = [held EXCEPT ![p] = @ \cup {r}]
    /\ UNCHANGED allowance

GiveBack(r, p) ==
    /\ r \in held[p]
    /\ held' = [held EXCEPT ![p] = @ \ {r}]
    /\ \/ UNCHANGED allowance
       \/ /\ allowance[p] > 0
          /\ \E a \in {0, allowance[p] + 1} : allowance' = [allowance EXCEPT ![p] = a]

Narrow(p) ==
    LET load == IF Load(p) > 1 THEN Load(p) ELSE 1
    IN  /\ allowance[p] > 0 => load < allowance[p]
        /\ allowance' = [allowance EXCEPT ![p] = load]
        /\ UNCHANGED held

Next ==
    \E p \in Providers :
        \/ Narrow(p)
        \/ \E r \in Requests : Acquire(r, p) \/ GiveBack(r, p)

Spec == Init /\ [][Next]_vars
=============================================================================
