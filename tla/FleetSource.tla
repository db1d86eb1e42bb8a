---------------------------- MODULE FleetSource ----------------------------
(***************************************************************************)
(* What fleet config sync promises about WHO a member copies.              *)
(*                                                                         *)
(* Front Desk numbers its choices of a source: every change of what the    *)
(* fleet is supposed to hold opens a generation, and a generation names    *)
(* one source for good.  A member may take a config late, twice, or after  *)
(* a newer one was offered, but the generation it applied never goes back, *)
(* and what it applied came from the source its generation names.          *)
(***************************************************************************)
EXTENDS Integers

CONSTANTS Member, None

VARIABLES
    gen,        \* the newest generation
    source,     \* per generation, the member it designates, or None
    applied     \* per member, the generation it applied last, -1 before any
                \* and the member that config was read from

vars == <<gen, source, applied>>

Init ==
    /\ gen = 0
    /\ source = [g \in {0} |-> None]
    /\ applied = [m \in Member |-> [gen |-> -1, src |-> None]]

(* A generation is opened and its source fixed. *)
Designate(p) ==
    /\ gen' = gen + 1
    /\ source' = [g \in 0..(gen + 1) |-> IF g = gen + 1 THEN p ELSE source[g]]
    /\ UNCHANGED applied

(* A member takes a config of generation g, or takes it again. *)
Apply(m, g) ==
    /\ source[g] # None
    /\ applied[m].gen <= g
    /\ applied' = [applied EXCEPT ![m] = [gen |-> g, src |-> source[g]]]
    /\ UNCHANGED <<gen, source>>

Next ==
    \/ \E p \in Member \cup {None} : Designate(p)
    \/ \E m \in Member, g \in 0..gen : Apply(m, g)

Spec == Init /\ [][Next]_vars
=============================================================================
