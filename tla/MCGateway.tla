------------------------------ MODULE MCGateway ------------------------------
(***************************************************************************)
(* Small instances of the gateway's components, side by side: a behaviour  *)
(* is one of the component that part names, the others resting in their    *)
(* initial states.                                                         *)
(***************************************************************************)
EXTENDS InflightLimiter, HedgedRace, ModelRetirement, QuotaPolling

CONSTANTS r1, r2, n1, w1, w2

VARIABLE part

(* HedgedRace: two candidates, so that one may win while the other runs,   *)
(* waits in the channel or wins too.  ModelRetirement: a chat model struck *)
(* by two requests at a time.  QuotaPolling: two writers, the poll loop    *)
(* and one nudge, over a channel of one, so that events are dropped.       *)
(* InflightLimiter: two chat requests at one provider without a ceiling.   *)
Uncapped == [p \in Providers |-> 0]
Chat     == [r \in Requests |-> IF r = r1 THEN {"stream"} ELSE {"buffered"}]

all == <<part, hedge, vars, retire, polling>>

Start ==
    /\ part \in {"hedge", "inflight", "retire", "quota"}
    /\ RaceInit /\ Init /\ RetireInit /\ PollInit
    /\ part # "hedge" => race.ttft
    /\ row = "off" /\ reading = "spent"

(* A step of one component leaves the others alone.                        *)
InHedge(A)    == part = "hedge"    /\ A /\ UNCHANGED <<part, vars, retire, polling>>
InInflight(A) == part = "inflight" /\ A /\ UNCHANGED <<part, hedge, retire, polling>>
InRetire(A)   == part = "retire"   /\ A /\ UNCHANGED <<part, hedge, vars, polling>>
InQuota(A)    == part = "quota"    /\ A /\ UNCHANGED <<part, hedge, vars, retire>>

SumNext == InHedge(RaceNext) \/ InInflight(Next) \/ InRetire(RetireNext) \/ InQuota(PollNext)

(* The fairness of the components' own specifications.  part never changes, *)
(* so that fairness of a union is fairness of the part's own action.       *)
Fair ==
    /\ WF_all(InHedge(ProbeStep(1)) \/ InRetire(model.enabled /\ Traffic(r1))
                \/ InQuota(ReadStep(Loop) /\ UNCHANGED quota))
    /\ WF_all(InHedge(ProbeStep(2)) \/ InRetire(model.enabled /\ Traffic(r2))
                \/ InQuota(ReadStep(n1) /\ UNCHANGED quota))
    /\ WF_all(InHedge(Orchestrate) \/ InRetire(JobStep) \/ InQuota(LoopStep))
    /\ WF_all(InHedge(RaceAbandoned) \/ InRetire(CooldownEnds)
                \/ InQuota(RefreshStep(Loop)))
    /\ WF_all(InHedge(drainHedgeResults) \/ InRetire(OtherProbe)
                \/ InQuota(RefreshStep(n1)))
    /\ WF_all(InRetire(HandlerStep(r1)) \/ InQuota(WriteStep(w1) /\ UNCHANGED quota))
    /\ WF_all(InRetire(HandlerStep(r2)) \/ InQuota(WriteStep(w2) /\ UNCHANGED quota))

SumSpec == Start /\ [][SumNext]_all /\ Fair

-----------------------------------------------------------------------------
(* HedgedRace's, in its own part: every launch ends closed and released.   *)
RaceReleases == part = "hedge" => EveryLaunchReleased

(* ModelRetirement's: a model gone upstream is retired in the end.         *)
ModelRetires == part = "retire" => GoneModelRetires

(* QuotaPolling's: the poll loop comes to run at the interval saved last.  *)
IntervalAdopted == part = "quota" => LoopAdopts
=============================================================================
