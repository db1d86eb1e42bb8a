-------------------------- MODULE MCBudgetLimiter --------------------------
(***************************************************************************)
(* Small instances of BudgetLimiter.                                       *)
(***************************************************************************)
EXTENDS BudgetLimiter, TLC

Daily   == [usd |-> 2, period |-> "day"]
Monthly == [usd |-> 3, period |-> "month"]

(* One budget, or one whose period is edited while requests that carry the *)
(* old one are under way.                                                  *)
OneBudget    == {Daily}
EditedPeriod == {Daily, Monthly}

RowAskerSymmetry == Permutations(Rows) \cup Permutations(Askers)
=============================================================================
