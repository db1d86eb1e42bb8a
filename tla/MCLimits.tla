------------------------------ MODULE MCLimits ------------------------------
(***************************************************************************)
(* The two limits on what a consumer spends, side by side: a behaviour is  *)
(* one of the component that part names, the other resting in its initial  *)
(* state.                                                                  *)
(***************************************************************************)
EXTENDS BudgetLimiter, TPMLimiter

CONSTANTS keyed, session, key, owner

VARIABLE part

OneBudget == {[usd |-> 2, period |-> "day"]}

(* A key's request and a session's share an owner.  Three ticks outlive    *)
(* both the idle cutoff and the shortest memo.                             *)
KeyOfRequest == [r \in Request |-> IF r = keyed THEN key ELSE None]
SameOwner    == [r \in Request |-> owner]
Caps         == [b \in Bucket |-> IF b = key THEN {0, 2} ELSE {0, 1, 2}]

all == <<part, vars, tpm>>

InBudget(A) == part = "budget" /\ A /\ UNCHANGED <<part, tpm>>
InTokens(A) == part = "tokens" /\ A /\ UNCHANGED <<part, vars>>

Start   == part \in {"budget", "tokens"} /\ Init /\ TokenInit
SumNext == InBudget(Next) \/ InTokens(TokenNext)

(* BudgetLimiter's fairness; TPMLimiter has none.                          *)
Fair ==
    /\ WF_all(InBudget(Tick))
    /\ WF_all(InBudget(\E a \in Askers, budget \in Budgets : Asks(a, budget, TRUE)))
    /\ \A a \in Askers :
         WF_all(InBudget(AskRolled(a) \/ \E ok \in BOOLEAN : AskLands(a, ok)))
    /\ WF_all(InBudget(\E g \in Reloads : ReloadRolled(g) \/ ReloadFails(g)))
    /\ SF_all(InBudget(\E g \in Reloads : ReloadSummed(g)))
    /\ SF_all(InBudget(\E g \in Reloads : ReloadAgain(g) \/ ReloadInstalls(g)))

SumSpec == Start /\ [][SumNext]_all /\ Fair

-----------------------------------------------------------------------------
(* BudgetLimiter's, in its own part: the figure becomes exact.             *)
Settles == part = "budget" => FigureSettles

(* BudgetLimiter's: every request that asks is answered.                   *)
Answers == part = "budget" => EveryAskAnswered
=============================================================================
