------------------------- MODULE MCInflightLimiter -------------------------
(***************************************************************************)
(* Small instances of InflightLimiter.                                     *)
(***************************************************************************)
EXTENDS InflightLimiter, TLC

Uncapped    == [p \in Providers |-> 0]
CeilingOne  == [p \in Providers |-> 1]

(* The requests of a run may ask for the same surfaces, or for different   *)
(* ones.                                                                   *)
Chat        == [r \in Requests |-> {"stream", "buffered"}]
Passthrough == [r \in Requests |-> {"passthrough"}]
Mixed       == LET first == CHOOSE r \in Requests : TRUE
               IN  [r \in Requests |-> IF r = first THEN {"stream", "passthrough"} ELSE {"copied"}]

RequestSymmetry == Permutations(Requests)
=============================================================================
