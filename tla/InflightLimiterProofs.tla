----------------------- MODULE InflightLimiterProofs -----------------------
(***************************************************************************)
(* The in-flight limiter keeps its books for any number of providers and   *)
(* requests and any settings: types, one slot per attempt between send and *)
(* settlement, the operator's ceiling, and no lost wakeup.                 *)
(***************************************************************************)
EXTENDS InflightLimiter, FiniteSetTheorems, TLAPS

(* A request holds a slot only while it makes an attempt, and is at a      *)
(* provider except when its look for room has passed the last one.         *)
ReqOK(q) ==
    /\ q \in Request
    /\ q.slot = "held" => q.pc \in SlotPCs
    /\ q.pc # "checking" => q.at \in Providers

(* An attempt that is over, or about to cut, has settled its slot. *)
SettledOK(q) == q.pc \in {"over", "cut"} => q.slot # "held"

(* What a waiter with an open channel has looked at has had no room since. *)
WaiterOK(r) ==
    ~signalled[r] =>
        /\ reqs[r].pc = "asleep" =>
              \A p \in reqs[r].busy : ~CanAdmit(windows[p], Ceiling[p])
        /\ reqs[r].pc = "checking" =>
              \A p \in reqs[r].busy : p < reqs[r].at => ~CanAdmit(windows[p], Ceiling[p])

ReqsOK    == \A r \in Requests : ReqOK(reqs[r]) /\ SettledOK(reqs[r])
WaitersOK == \A r \in Requests : WaiterOK(r)

(* The inductive invariant. *)
IInv == TypeOK /\ ReqsOK /\ SlotsAccounted /\ CeilingHolds /\ WaitersOK

-----------------------------------------------------------------------------
(***************************************************************************)
(* What the operations do to a window.                                     *)
(***************************************************************************)

(* A window with one field replaced is a window. *)
LEMMA WindowFields ==
    /\ \A w \in Window : \A v \in 0..MaxLimit : [w EXCEPT !.limit = v] \in Window
    /\ \A w \in Window : \A v \in Nat : [w EXCEPT !.inflight = v] \in Window
    /\ \A w \in Window : \A v \in Nat : [w EXCEPT !.goodRuns = v] \in Window
    /\ \A w \in Window : \A v \in Int : [w EXCEPT !.sinceCut = v] \in Window
  BY DEF Window

(* A release returns one slot and leaves a window, whatever it teaches. *)
LEMMA ReleaseWindow ==
    ASSUME NEW w \in Window, NEW o \in Outcomes
    PROVE  /\ Release(w, o) \in Window
           /\ Release(w, o).inflight = IF w.inflight > 0 THEN w.inflight - 1 ELSE 0
  <1>. DEFINE n == IF w.inflight > 0 THEN w.inflight - 1 ELSE 0
              freed == [w EXCEPT !.inflight = n]
              wider == IF freed.limit < MaxLimit THEN freed.limit + 1 ELSE freed.limit
  <1>1. n \in Nat /\ 0 \in Nat /\ 0 \in Int /\ 0 \in 0..MaxLimit
    BY BoundsAssumption DEF Window
  <1>2. /\ freed \in Window /\ freed.inflight = n /\ freed.goodRuns + 1 \in Nat
        /\ wider \in 0..MaxLimit
    <2>1. freed \in Window /\ freed.inflight = n
      BY <1>1, WindowFields DEF Window
    <2>. QED BY <2>1, BoundsAssumption DEF Window
  <1>. HIDE DEF n, freed, wider
  <1>3. /\ Forgotten(freed) \in Window
        /\ [freed EXCEPT !.goodRuns = 0] \in Window
        /\ [freed EXCEPT !.goodRuns = freed.goodRuns + 1] \in Window
        /\ [freed EXCEPT !.goodRuns = 0, !.limit = wider] \in Window
    BY <1>1, <1>2, WindowFields, Zenon DEF Forgotten
  <1>4. /\ Forgotten(freed).inflight = n
        /\ [freed EXCEPT !.goodRuns = 0].inflight = n
        /\ [freed EXCEPT !.goodRuns = freed.goodRuns + 1].inflight = n
        /\ [freed EXCEPT !.goodRuns = 0, !.limit = wider].inflight = n
    BY <1>2 DEF Forgotten, Window
  <1>5. Release(w, o) \in {freed, Forgotten(freed), [freed EXCEPT !.goodRuns = 0],
                           [freed EXCEPT !.goodRuns = freed.goodRuns + 1],
                           [freed EXCEPT !.goodRuns = 0, !.limit = wider]}
    BY Zenon DEF Release, freed, wider, n
  <1>6. Release(w, o) \in Window /\ Release(w, o).inflight = n
    BY <1>2, <1>3, <1>4, <1>5, Zenon
  <1>. QED BY <1>6 DEF n

(* A cut, or a hint, counts nothing and never makes room. *)
LEMMA CappedWindow ==
    ASSUME NEW w \in Window, w.inflight <= MaxLimit, NEW n \in Nat, NEW c \in Nat
    PROVE  /\ Cut(w, n) \in Window /\ HintFull(w) \in Window
           /\ Cut(w, n).inflight = w.inflight /\ HintFull(w).inflight = w.inflight
           /\ ~CanAdmit(w, c) => ~CanAdmit(Cut(w, n), c) /\ ~CanAdmit(HintFull(w), c)
  <1>1. Cardinality(Requests) \in Nat
    BY RequestsAssumption, FS_CardinalityType
  <1>2. Capped(w) \in 1..MaxLimit
    BY <1>1, BoundsAssumption DEF Capped, Window
  <1>3. Capped(w) \in 0..MaxLimit /\ 0 \in Nat /\ 0 \in Int /\ 0 - n \in Int
    BY <1>2, BoundsAssumption
  <1>4. Cut(w, n) \in Window /\ HintFull(w) \in Window
    BY <1>3, WindowFields, Zenon DEF Cut, HintFull
  <1>5. /\ Cut(w, n).inflight = w.inflight /\ Cut(w, n).limit = Capped(w)
        /\ HintFull(w).inflight = w.inflight /\ HintFull(w).limit = Capped(w)
    BY <1>3 DEF Cut, HintFull, Window
  <1>6. ASSUME ~CanAdmit(w, c), NEW v \in Window, v.inflight = w.inflight, v.limit = Capped(w)
        PROVE  ~CanAdmit(v, c)
    BY <1>2, <1>6, BoundsAssumption DEF CanAdmit, EffectiveLimit, Capped, Window
  <1>. QED BY <1>4, <1>5, <1>6

(* Neither does an admission. *)
LEMMA AdmittedWindow ==
    ASSUME NEW w \in Window, NEW c \in Nat
    PROVE  LET v == [w EXCEPT !.inflight = @ + 1]
           IN  /\ v \in Window /\ v.inflight = w.inflight + 1
               /\ ~CanAdmit(w, c) => ~CanAdmit(v, c)
               /\ (CanAdmit(w, c) /\ c > 0) => v.inflight <= c
  <1>. DEFINE v == [w EXCEPT !.inflight = @ + 1]
  <1>1. v \in Window /\ v.inflight = w.inflight + 1 /\ v.limit = w.limit
    BY DEF Window
  <1>2. ~CanAdmit(w, c) => ~CanAdmit(v, c)
    BY <1>1 DEF Window, CanAdmit, EffectiveLimit
  <1>3. (CanAdmit(w, c) /\ c > 0) => v.inflight <= c
    BY <1>1, BoundsAssumption DEF Window, CanAdmit, EffectiveLimit
  <1>. QED BY <1>1, <1>2, <1>3

-----------------------------------------------------------------------------
(***************************************************************************)
(* A step of one request.                                                  *)
(***************************************************************************)

(* Holders is a finite set, no larger than Requests. *)
LEMMA HoldersFinite ==
    ASSUME NEW p
    PROVE  /\ IsFiniteSet(Holders(p)) /\ Cardinality(Holders(p)) \in Nat
           /\ Cardinality(Holders(p)) < MaxLimit
  <1>1. Holders(p) \subseteq Requests
    BY DEF Holders
  <1>2. /\ IsFiniteSet(Holders(p))
        /\ Cardinality(Holders(p)) <= Cardinality(Requests)
    BY <1>1, RequestsAssumption, FS_Subset
  <1>3. Cardinality(Holders(p)) \in Nat /\ Cardinality(Requests) \in Nat
    BY <1>2, RequestsAssumption, FS_CardinalityType
  <1>. QED BY <1>2, <1>3, BoundsAssumption

(* The count follows the holders when it moves as the request's slot does. *)
LEMMA CountsFollow ==
    ASSUME SlotsAccounted, reqs \in [Requests -> Request],
           NEW r \in Requests, NEW after,
           reqs' = [reqs EXCEPT ![r] = after],
           \A p \in Providers : windows'[p].inflight =
               windows[p].inflight
               - (IF reqs[r].at = p /\ Holds(r) THEN 1 ELSE 0)
               + (IF after.at = p /\ after.slot = "held" THEN 1 ELSE 0)
    PROVE  SlotsAccounted'
  <1>. SUFFICES ASSUME NEW p \in Providers
                PROVE  windows'[p].inflight = Cardinality(Holders(p)')
    BY DEF SlotsAccounted
  <1>. DEFINE others == Holders(p) \ {r}
  <1>1. /\ IsFiniteSet(others)
        /\ Cardinality(others) = Cardinality(Holders(p))
                                 - (IF reqs[r].at = p /\ Holds(r) THEN 1 ELSE 0)
    <2>1. r \in Holders(p) <=> reqs[r].at = p /\ Holds(r)
      BY DEF Holders
    <2>. QED BY <2>1, HoldersFinite, FS_RemoveElement
  <1>2. reqs'[r] = after /\ \A q \in Requests \ {r} : reqs'[q] = reqs[q]
    OBVIOUS
  <1>3. CASE after.at = p /\ after.slot = "held"
    <2>1. Holders(p)' = others \cup {r}
      BY <1>2, <1>3 DEF Holders, Holds
    <2>2. Cardinality(others \cup {r}) = Cardinality(others) + 1
      BY <1>1, FS_AddElement
    <2>. QED BY <1>1, <1>3, <2>1, <2>2, HoldersFinite DEF SlotsAccounted
  <1>4. CASE ~(after.at = p /\ after.slot = "held")
    <2>1. Holders(p)' = others
      BY <1>2, <1>4 DEF Holders, Holds
    <2>. QED BY <1>1, <1>4, <2>1, HoldersFinite DEF SlotsAccounted
  <1>. QED BY <1>3, <1>4

(* Where no count grows the ceiling still holds. *)
LEMMA CeilingKept ==
    ASSUME SlotsAccounted, SlotsAccounted', CeilingHolds, TypeOK, TypeOK',
           \A p \in Providers : windows'[p].inflight <= windows[p].inflight
    PROVE  CeilingHolds'
  <1>. SUFFICES ASSUME NEW p \in Providers, Ceiling[p] > 0
                PROVE  Cardinality(Holders(p)') <= Ceiling[p]
    BY DEF CeilingHolds
  <1>1. windows[p].inflight \in Nat /\ windows'[p].inflight \in Nat /\ Ceiling[p] \in Nat
    BY ProvidersAssumption DEF TypeOK, Window
  <1>. QED BY <1>1 DEF SlotsAccounted, CeilingHolds

(* Waiters other than the request that moves are right if no room is made. *)
LEMMA WaitersKept ==
    ASSUME WaitersOK, reqs \in [Requests -> Request], signalled \in [Requests -> BOOLEAN],
           NEW r \in Requests, NEW after,
           reqs' = [reqs EXCEPT ![r] = after],
           \A q \in Requests \ {r} : signalled'[q] = signalled[q],
           WaiterOK(r)',
           \A p \in Providers : ~CanAdmit(windows[p], Ceiling[p])
                                => ~CanAdmit(windows'[p], Ceiling[p])
    PROVE  WaitersOK'
  <1>. SUFFICES ASSUME NEW q \in Requests \ {r} PROVE WaiterOK(q)'
    BY DEF WaitersOK
  <1>1. reqs'[q] = reqs[q] /\ signalled'[q] = signalled[q] /\ reqs[q].busy \subseteq Providers
    BY DEF Request
  <1>2. WaiterOK(q)
    BY DEF WaitersOK
  <1>. QED BY <1>1, <1>2 DEF WaiterOK

-----------------------------------------------------------------------------
(* A step that moves only the walk of one request, which holds its slot as *)
(* it did, and is right if it ends up asleep or looking for room.          *)
LEMMA LocalStep ==
    ASSUME IInv, NEW r \in Requests, NEW after, ReqOK(after), SettledOK(after),
           reqs' = [reqs EXCEPT ![r] = after], UNCHANGED windows,
           signalled' \in [Requests -> BOOLEAN],
           \A q \in Requests \ {r} : signalled'[q] = signalled[q],
           after.slot = "held" <=> Holds(r),
           Holds(r) => after.at = reqs[r].at,
           after.pc \notin {"asleep", "checking"} \/ WaiterOK(r)'
    PROVE  IInv'
  <1>. USE DEF IInv
  <1>1. TypeOK'
    BY DEF TypeOK, ReqOK
  <1>2. ReqsOK'
    BY DEF TypeOK, ReqsOK
  <1>3. SlotsAccounted'
    <2>1. \A p \in Providers : windows[p].inflight \in Int
      BY DEF TypeOK, Window
    <2>2. \A p \in Providers : (reqs[r].at = p /\ Holds(r)) <=> (after.at = p /\ after.slot = "held")
      OBVIOUS
    <2>3. \A p \in Providers : windows'[p].inflight =
               windows[p].inflight
               - (IF reqs[r].at = p /\ Holds(r) THEN 1 ELSE 0)
               + (IF after.at = p /\ after.slot = "held" THEN 1 ELSE 0)
      BY <2>1, <2>2
    <2>. QED BY <2>3, CountsFollow DEF TypeOK
  <1>4. CeilingHolds'
    <2>1. \A p \in Providers : windows[p].inflight \in Nat
      BY DEF TypeOK, Window
    <2>. QED BY <1>1, <1>3, <2>1, CeilingKept
  <1>5. WaiterOK(r)'
    BY DEF WaiterOK, TypeOK
  <1>6. WaitersOK'
    BY <1>5, WaitersKept DEF TypeOK
  <1>. QED BY <1>1, <1>2, <1>3, <1>4, <1>6

(* The first settle returns the slot and signals every waiter; a later one *)
(* only moves the request.                                                 *)
LEMMA SettleStep ==
    ASSUME IInv, NEW r \in Requests, NEW o \in Outcomes, NEW after, ReqOK(after),
           reqs[r].at \in Providers,
           after.slot = "held" => Holds(r) /\ after.at = reqs[r].at,
           after.pc \notin {"asleep", "checking"},
           Settle(r, o, after)
    PROVE  IInv'
  <1>. USE DEF IInv
  <1>1. CASE ~Holds(r)
    <2>1. reqs' = [reqs EXCEPT ![r] = after] /\ UNCHANGED <<windows, signalled>>
      BY <1>1 DEF Settle, Holds
    <2>. QED BY <1>1, <2>1, LocalStep DEF TypeOK, SettledOK
  <1>2. CASE Holds(r)
    <2>. DEFINE p == reqs[r].at
                end == IF after.slot = "held" THEN [after EXCEPT !.slot = o] ELSE after
    <2>1. /\ reqs' = [reqs EXCEPT ![r] = end]
          /\ windows' = [windows EXCEPT ![p] = Release(@, o)]
          /\ signalled' = [q \in Requests |-> Waiting(q)]
      BY <1>2 DEF Settle, Holds
    <2>2. ReqOK(end) /\ end.slot # "held" /\ end.pc = after.pc
      BY DEF ReqOK, Request, Outcomes
    <2>3. windows[p] \in Window /\ p \in Providers
      BY DEF TypeOK
    <2>4. Release(windows[p], o) \in Window
      BY <2>3, ReleaseWindow
    <2>5. TypeOK'
      BY <2>1, <2>2, <2>4 DEF TypeOK, ReqOK, Waiting
    <2>6. ReqsOK'
      BY <2>1, <2>2 DEF TypeOK, ReqsOK, SettledOK
    <2>7. windows[p].inflight > 0
      <3>1. r \in Holders(p)
        BY <1>2 DEF Holders
      <3>2. Cardinality(Holders(p)) # 0
        BY <3>1, HoldersFinite, FS_EmptySet
      <3>. QED BY <2>3, <3>2, HoldersFinite DEF SlotsAccounted
    <2>8. \A x \in Providers : windows'[x].inflight =
               windows[x].inflight - (IF p = x THEN 1 ELSE 0)
      <3>1. windows'[p].inflight = windows[p].inflight - 1
        BY <2>1, <2>3, <2>7, ReleaseWindow DEF TypeOK
      <3>2. \A x \in Providers \ {p} : windows'[x] = windows[x] /\ windows[x].inflight \in Nat
        BY <2>1 DEF TypeOK, Window
      <3>. QED BY <3>1, <3>2
    <2>9. SlotsAccounted'
      <3>1. \A x \in Providers : windows'[x].inflight =
               windows[x].inflight - (IF reqs[r].at = x /\ Holds(r) THEN 1 ELSE 0)
               + (IF end.at = x /\ end.slot = "held" THEN 1 ELSE 0)
        <4>1. \A x \in Providers : windows[x].inflight \in Nat
          BY DEF TypeOK, Window
        <4>. QED BY <1>2, <2>2, <2>8, <4>1
      <3>. QED BY <2>1, <3>1, CountsFollow DEF TypeOK
    <2>10. CeilingHolds'
      <3>1. \A x \in Providers : windows[x].inflight \in Nat
        BY DEF TypeOK, Window
      <3>2. \A x \in Providers : windows'[x].inflight <= windows[x].inflight
        BY <2>8, <3>1
      <3>. QED BY <2>5, <2>9, <3>2, CeilingKept
    <2>11. WaitersOK'
      <3>. SUFFICES ASSUME NEW q \in Requests PROVE WaiterOK(q)'
        BY DEF WaitersOK
      <3>1. q = r => reqs'[q].pc \notin {"asleep", "checking"}
        BY <2>1, <2>2 DEF TypeOK
      <3>2. q # r => reqs'[q] = reqs[q] /\ signalled'[q] = (reqs[q].pc \in {"checking", "asleep"})
        BY <2>1 DEF TypeOK, Waiting
      <3>. QED BY <3>1, <3>2 DEF WaiterOK
    <2>. QED BY <2>5, <2>6, <2>9, <2>10, <2>11
  <1>. QED BY <1>1, <1>2

-----------------------------------------------------------------------------
(***************************************************************************)
(* Where requests go.                                                      *)
(***************************************************************************)
LEMMA RequestFields ==
    /\ \A q \in Request : \A v \in WalkPCs \cup SlotPCs : [q EXCEPT !.pc = v] \in Request
    /\ \A q \in Request : \A v \in 1..(NumProviders + 1) : [q EXCEPT !.at = v] \in Request
    /\ \A q \in Request : \A v \in SUBSET Providers : [q EXCEPT !.busy = v] \in Request
    /\ \A q \in Request : \A v \in BOOLEAN : [q EXCEPT !.waited = v] \in Request
    /\ \A q \in Request : \A v \in AllSurfaces : [q EXCEPT !.surface = v] \in Request
    /\ \A q \in Request : \A v \in {"none", "held"} \cup Outcomes : [q EXCEPT !.slot = v] \in Request
    /\ \A q \in Request : \A v \in BOOLEAN : [q EXCEPT !.hold = v] \in Request
    /\ \A q \in Request : \A v \in BOOLEAN : [q EXCEPT !.onEOF = v] \in Request
    /\ \A q \in Request : \A v \in BOOLEAN : [q EXCEPT !.clean = v] \in Request
    /\ \A q \in Request : \A v \in {"open", "eof", "closed"} : [q EXCEPT !.body = v] \in Request
    /\ \A q \in Request : \A v \in Verdicts : [q EXCEPT !.verdict = v] \in Request
  BY DEF Request

(* A request between attempts: it holds nothing and waits for nothing. *)
Between(q) == ReqOK(q) /\ q.slot # "held" /\ q.pc \notin {"asleep", "checking"}

LEMMA IdleBetween == Between(Idle) /\ Idle.slot = "none"
  BY ProvidersAssumption
  DEF Between, ReqOK, Idle, Request, Providers, WalkPCs, SlotPCs, AllSurfaces, Outcomes, Verdicts

(* A request sent on to walk or to wait is between attempts. *)
LEMMA SentOn ==
    ASSUME NEW p \in Providers, NEW busy \in SUBSET Providers,
           NEW surface \in AllSurfaces, NEW waited \in BOOLEAN, NEW pc \in {"walk", "wait"}
    PROVE  /\ Between([Idle EXCEPT !.pc = pc, !.at = p, !.busy = busy, !.surface = surface])
           /\ Between([Idle EXCEPT !.pc = pc, !.busy = busy, !.waited = waited, !.surface = surface])
           /\ Between([Idle EXCEPT !.pc = pc, !.surface = surface])
  <1>. DEFINE a == [Idle EXCEPT !.pc = pc, !.at = p, !.busy = busy, !.surface = surface]
              b == [Idle EXCEPT !.pc = pc, !.busy = busy, !.waited = waited, !.surface = surface]
              c == [Idle EXCEPT !.pc = pc, !.surface = surface]
  <1>1. Idle \in Request /\ pc \in WalkPCs \cup SlotPCs /\ p \in 1..(NumProviders + 1)
    BY IdleBetween, ProvidersAssumption DEF Between, ReqOK, WalkPCs, Providers
  <1>2. a \in Request /\ b \in Request /\ c \in Request
    BY <1>1, RequestFields, Zenon
  <1>3. /\ a.pc = pc /\ a.at = p /\ a.slot = "none"
        /\ b.pc = pc /\ b.at = 1 /\ b.slot = "none"
        /\ c.pc = pc /\ c.at = 1 /\ c.slot = "none"
    BY DEF Idle
  <1>4. 1 \in Providers
    BY ProvidersAssumption DEF Providers
  <1>. QED BY <1>2, <1>3, <1>4 DEF Between, ReqOK

LEMMA ArrivedBetween ==
    ASSUME NEW surface \in AllSurfaces
    PROVE  Between([Idle EXCEPT !.pc = "walk", !.surface = surface])
  <1>1. 1 \in Providers /\ {} \in SUBSET Providers /\ "walk" \in {"walk", "wait"} /\ TRUE \in BOOLEAN
    BY ProvidersAssumption DEF Providers
  <1>. QED BY <1>1, SentOn, Zenon

LEMMA NextCandidateBetween ==
    ASSUME NEW q, ReqOK(q), q.at \in Providers, NEW busy \in SUBSET Providers
    PROVE  Between(NextCandidate(q, busy))
  <1>1. q.surface \in AllSurfaces /\ 1 \in Providers
    BY ProvidersAssumption DEF ReqOK, Request, Providers
  <1>2. q.at < NumProviders => q.at + 1 \in Providers
    BY ProvidersAssumption DEF Providers
  <1>. QED BY <1>1, <1>2, SentOn, IdleBetween DEF NextCandidate

LEMMA LeftBetween ==
    ASSUME NEW q, ReqOK(q), q.at \in Providers
    PROVE  Between(FailedOver(q)) /\ Between(Skipped(q))
  <1>1. q.surface \in AllSurfaces /\ q.busy \in SUBSET Providers /\ q.busy \ {q.at} \in SUBSET Providers
    BY DEF ReqOK, Request
  <1>2. Between(NextCandidate(q, q.busy))
    BY <1>1, NextCandidateBetween
  <1>3. Between([Idle EXCEPT !.pc = "wait", !.busy = q.busy \ {q.at}, !.waited = TRUE, !.surface = q.surface])
    BY <1>1, SentOn
  <1>. QED BY <1>2, <1>3, IdleBetween DEF FailedOver, Skipped

(* An attempt that goes on to another of its own steps is still right and  *)
(* holds its slot as it did.                                               *)
SameSlot(a, q) == a.at = q.at /\ a.slot = q.slot

LEMMA AttemptGoesOn ==
    ASSUME NEW q, ReqOK(q), q.at \in Providers
    PROVE  /\ \A pc \in SlotPCs :
                 LET a == [q EXCEPT !.pc = pc]
                 IN  ReqOK(a) /\ a.pc = pc /\ SameSlot(a, q)
           /\ \A body \in {"open", "eof", "closed"} :
                 LET a == [q EXCEPT !.body = body]
                 IN  ReqOK(a) /\ a.pc = q.pc /\ SameSlot(a, q)
           /\ \A pc \in SlotPCs, verdict \in Verdicts :
                 LET a == [q EXCEPT !.pc = pc, !.verdict = verdict]
                 IN  ReqOK(a) /\ a.pc = pc /\ SameSlot(a, q)
           /\ \A pc \in SlotPCs, hold, onEOF \in BOOLEAN :
                 LET a == [q EXCEPT !.pc = pc, !.hold = hold, !.onEOF = onEOF]
                 IN  ReqOK(a) /\ a.pc = pc /\ SameSlot(a, q)
           /\ \A pc \in SlotPCs, clean, onEOF \in BOOLEAN :
                 LET a == [q EXCEPT !.pc = pc, !.clean = clean, !.onEOF = onEOF]
                 IN  ReqOK(a) /\ a.pc = pc /\ SameSlot(a, q)
  <1>1. q \in Request /\ \A pc \in SlotPCs : pc \in WalkPCs \cup SlotPCs
    BY DEF ReqOK
  <1>2. ASSUME NEW pc \in SlotPCs
        PROVE  LET a == [q EXCEPT !.pc = pc]
               IN  ReqOK(a) /\ a.pc = pc /\ SameSlot(a, q)
    <2>. DEFINE a == [q EXCEPT !.pc = pc]
    <2>1. a \in Request
      BY <1>1, RequestFields, Zenon
    <2>2. a.pc = pc /\ SameSlot(a, q)
      BY <1>1 DEF Request, SameSlot
    <2>. HIDE DEF a
    <2>3. ReqOK(a)
      BY <2>1, <2>2 DEF ReqOK, SameSlot
    <2>. QED BY <2>2, <2>3 DEF a
  <1>3. ASSUME NEW body \in {"open", "eof", "closed"}
        PROVE  LET a == [q EXCEPT !.body = body]
               IN  ReqOK(a) /\ a.pc = q.pc /\ SameSlot(a, q)
    <2>. DEFINE a == [q EXCEPT !.body = body]
    <2>1. a \in Request
      BY <1>1, RequestFields, Zenon
    <2>2. a.pc = q.pc /\ SameSlot(a, q)
      BY <1>1 DEF Request, SameSlot
    <2>. HIDE DEF a
    <2>3. ReqOK(a)
      BY <2>1, <2>2 DEF ReqOK, SameSlot
    <2>. QED BY <2>2, <2>3 DEF a
  <1>4. ASSUME NEW pc \in SlotPCs, NEW verdict \in Verdicts
        PROVE  LET a == [q EXCEPT !.pc = pc, !.verdict = verdict]
               IN  ReqOK(a) /\ a.pc = pc /\ SameSlot(a, q)
    <2>. DEFINE a == [q EXCEPT !.pc = pc, !.verdict = verdict]
    <2>1. a \in Request
      BY <1>1, RequestFields, Zenon
    <2>2. a.pc = pc /\ SameSlot(a, q)
      BY <1>1 DEF Request, SameSlot
    <2>. HIDE DEF a
    <2>3. ReqOK(a)
      BY <2>1, <2>2 DEF ReqOK, SameSlot
    <2>. QED BY <2>2, <2>3 DEF a
  <1>5. ASSUME NEW pc \in SlotPCs, NEW hold \in BOOLEAN, NEW onEOF \in BOOLEAN
        PROVE  LET a == [q EXCEPT !.pc = pc, !.hold = hold, !.onEOF = onEOF]
               IN  ReqOK(a) /\ a.pc = pc /\ SameSlot(a, q)
    <2>. DEFINE a == [q EXCEPT !.pc = pc, !.hold = hold, !.onEOF = onEOF]
    <2>1. a \in Request
      BY <1>1, RequestFields, Zenon
    <2>2. a.pc = pc /\ SameSlot(a, q)
      BY <1>1 DEF Request, SameSlot
    <2>. HIDE DEF a
    <2>3. ReqOK(a)
      BY <2>1, <2>2 DEF ReqOK, SameSlot
    <2>. QED BY <2>2, <2>3 DEF a
  <1>6. ASSUME NEW pc \in SlotPCs, NEW clean \in BOOLEAN, NEW onEOF \in BOOLEAN
        PROVE  LET a == [q EXCEPT !.pc = pc, !.clean = clean, !.onEOF = onEOF]
               IN  ReqOK(a) /\ a.pc = pc /\ SameSlot(a, q)
    <2>. DEFINE a == [q EXCEPT !.pc = pc, !.clean = clean, !.onEOF = onEOF]
    <2>1. a \in Request
      BY <1>1, RequestFields, Zenon
    <2>2. a.pc = pc /\ SameSlot(a, q)
      BY <1>1 DEF Request, SameSlot
    <2>. HIDE DEF a
    <2>3. ReqOK(a)
      BY <2>1, <2>2 DEF ReqOK, SameSlot
    <2>. QED BY <2>2, <2>3 DEF a
  <1>. QED BY <1>2, <1>3, <1>4, <1>5, <1>6

-----------------------------------------------------------------------------
(***************************************************************************)
(* The steps.                                                              *)
(***************************************************************************)

(* A request that moves while nothing else does. *)
LEMMA WalkSteps ==
    ASSUME IInv, NEW r \in Requests,
           \/ \E surface \in Surfaces[r] : Arrive(r, surface)
           \/ Busy(r) \/ Wake(r) \/ Expire(r)
           \/ \E failover \in BOOLEAN : Leave(r, failover)
           \/ Dispatch(r) \/ \E verdict \in Verdicts \ {"none"} : Judge(r, verdict)
    PROVE  IInv'
  <1>. DEFINE q == reqs[r]
  <1>1. ReqOK(q) /\ q \in Request /\ signalled \in [Requests -> BOOLEAN]
    BY DEF IInv, ReqsOK, ReqOK, TypeOK
  <1>2. SlotPCs \cap {"asleep", "checking"} = {}
    BY DEF SlotPCs
  <1>3. ASSUME NEW surface \in Surfaces[r], Arrive(r, surface) PROVE IInv'
    <2>1. Between([Idle EXCEPT !.pc = "walk", !.surface = surface])
      <3>1. 1 \in Providers /\ surface \in AllSurfaces
        BY ProvidersAssumption, RequestsAssumption DEF Providers
      <3>. QED BY <3>1, ArrivedBetween
    <2>2. ~Holds(r)
      BY <1>1, <1>3 DEF Arrive, Holds, ReqOK, SlotPCs
    <2>. QED BY <1>1, <1>3, <2>1, <2>2, LocalStep DEF Arrive, Between, SettledOK
  <1>4. CASE Busy(r)
    <2>1. q.pc \in {"walk", "retry"} /\ q.at \in Providers /\ ~Holds(r)
      BY <1>1, <1>4 DEF Busy, Holds, ReqOK, SlotPCs
    <2>. DEFINE back == [q EXCEPT !.pc = "wait", !.at = 1]
                on == NextCandidate(q, q.busy \cup {q.at})
    <2>2. Between(on)
      BY <1>1, <2>1, NextCandidateBetween DEF Request
    <2>3. Between(back)
      <3>1. "wait" \in WalkPCs \cup SlotPCs /\ 1 \in 1..(NumProviders + 1) /\ 1 \in Providers
        BY ProvidersAssumption DEF WalkPCs, Providers
      <3>2. back \in Request
        BY <1>1, <3>1, RequestFields, Zenon
      <3>3. back.pc = "wait" /\ back.at = 1 /\ back.slot = q.slot
        BY <1>1 DEF Request
      <3>. QED BY <2>1, <3>1, <3>2, <3>3 DEF Between, ReqOK, Holds
    <2>. DEFINE after == IF q.waited THEN back ELSE on
    <2>4. Between(after)
      BY <2>2, <2>3
    <2>5. reqs' = [reqs EXCEPT ![r] = after] /\ UNCHANGED <<windows, signalled>>
      BY <1>4 DEF Busy
    <2>. HIDE DEF after
    <2>. QED BY <1>1, <2>1, <2>4, <2>5, LocalStep DEF Between, SettledOK
  <1>5. CASE Wake(r)
    <2>1. q.pc = "asleep" /\ q.at \in Providers /\ ~Holds(r)
      BY <1>1, <1>5 DEF Wake, Holds, ReqOK, SlotPCs
    <2>. DEFINE after == [q EXCEPT !.pc = "woken"]
    <2>2. after \in Request /\ after.pc = "woken" /\ after.at = q.at /\ after.slot = q.slot
      BY <1>1 DEF Request, WalkPCs
    <2>3. /\ reqs' = [reqs EXCEPT ![r] = after] /\ UNCHANGED windows
          /\ signalled' = [signalled EXCEPT ![r] = FALSE]
      BY <1>5 DEF Wake
    <2>4. ReqOK(after) /\ after.slot # "held" /\ after.pc \notin {"asleep", "checking"}
      BY <2>1, <2>2 DEF ReqOK, Holds
    <2>. HIDE DEF after
    <2>. QED BY <1>1, <2>1, <2>3, <2>4, LocalStep DEF SettledOK
  <1>6. CASE Expire(r)
    <2>1. ~Holds(r)
      BY <1>1, <1>6 DEF Expire, Holds, ReqOK, SlotPCs
    <2>2. /\ reqs' = [reqs EXCEPT ![r] = Idle] /\ UNCHANGED windows
          /\ signalled' = [signalled EXCEPT ![r] = FALSE]
      BY <1>6 DEF Expire
    <2>. QED BY <1>1, <2>1, <2>2, IdleBetween, LocalStep DEF Between, SettledOK
  <1>7. ASSUME NEW failover \in BOOLEAN, Leave(r, failover) PROVE IInv'
    <2>. DEFINE after == IF failover THEN FailedOver(q) ELSE Idle
    <2>1. reqs' = [reqs EXCEPT ![r] = after] /\ UNCHANGED <<windows, signalled>> /\ q.pc = "over"
      BY <1>7 DEF Leave
    <2>2. q.at \in Providers
      BY <1>1, <2>1 DEF ReqOK
    <2>3. Between(after)
      BY <1>1, <2>2, LeftBetween, IdleBetween
    <2>4. ~Holds(r)
      BY <2>1 DEF IInv, ReqsOK, SettledOK, Holds
    <2>. HIDE DEF after
    <2>. QED BY <1>1, <2>1, <2>3, <2>4, LocalStep DEF Between, SettledOK
  <1>8. CASE Dispatch(r)
    <2>. DEFINE hold == q.surface = "stream"
                onEOF == q.surface \notin {"buffered", "passthrough"}
                after == [q EXCEPT !.pc = "reading", !.hold = hold, !.onEOF = onEOF]
    <2>1. reqs' = [reqs EXCEPT ![r] = after] /\ UNCHANGED <<windows, signalled>> /\ q.pc = "answered"
      BY <1>8 DEF Dispatch
    <2>2. ReqOK(after) /\ after.pc = "reading" /\ SameSlot(after, q)
      <3>1. "reading" \in SlotPCs /\ q.at \in Providers
        BY <1>1, <2>1 DEF SlotPCs, ReqOK
      <3>2. hold \in BOOLEAN /\ onEOF \in BOOLEAN
        OBVIOUS
      <3>3. \A h, e \in BOOLEAN :
               LET a == [q EXCEPT !.pc = "reading", !.hold = h, !.onEOF = e]
               IN  ReqOK(a) /\ a.pc = "reading" /\ SameSlot(a, q)
        BY <1>1, <3>1, AttemptGoesOn, Zenon
      <3>. HIDE DEF hold, onEOF
      <3>. QED BY <3>2, <3>3
    <2>. HIDE DEF after
    <2>. QED BY <1>1, <2>1, <2>2, LocalStep DEF Holds, SettledOK, SameSlot
  <1>9. ASSUME NEW verdict \in Verdicts, Judge(r, verdict) PROVE IInv'
    <2>. DEFINE after == [q EXCEPT !.pc = "judged", !.verdict = verdict]
    <2>1. reqs' = [reqs EXCEPT ![r] = after] /\ UNCHANGED <<windows, signalled>> /\ q.pc = "reading"
      BY <1>9 DEF Judge
    <2>2. ReqOK(after) /\ after.pc = "judged" /\ SameSlot(after, q)
      <3>1. "judged" \in SlotPCs /\ q.at \in Providers
        BY <1>1, <2>1 DEF SlotPCs, ReqOK
      <3>. QED BY <1>1, <3>1, AttemptGoesOn, Zenon
    <2>. HIDE DEF after
    <2>. QED BY <1>1, <2>1, <2>2, LocalStep DEF Holds, SettledOK, SameSlot
  <1>. QED BY <1>3, <1>4, <1>5, <1>6, <1>7, <1>8, <1>9

(* A step that settles, or reads without settling. *)
LEMMA SettlingSteps ==
    ASSUME IInv, NEW r \in Requests,
           \/ \E how \in {"skipped", "failed", "ended"} : SendFails(r, how)
           \/ Drawn(r) \/ BodyEOF(r) \/ BodyClosed(r) \/ JudgedSettles(r)
           \/ \E forwarded \in BOOLEAN : DropRefusal(r, forwarded)
           \/ \E rejected \in BOOLEAN : PassthroughSettles(r, rejected)
    PROVE  IInv'
  <1>. DEFINE q == reqs[r]
  <1>1. ReqOK(q) /\ SettledOK(q) /\ q \in Request /\ signalled \in [Requests -> BOOLEAN]
    BY DEF IInv, ReqsOK, ReqOK, TypeOK
  <1>2. /\ q.pc \in {"sent", "drawn", "reading", "judged", "refused"}
        /\ q.at \in Providers
    BY <1>1 DEF SendFails, Drawn, BodyEOF, BodyClosed, JudgedSettles, DropRefusal,
                PassthroughSettles, ReqOK
  <1>3. ByStatus(q) \in Outcomes /\ OutcomeOf(q.verdict) \in Outcomes
        /\ "clean" \in Outcomes /\ "unclean" \in Outcomes /\ "neutral" \in Outcomes
    BY DEF ByStatus, OutcomeOf, Outcomes
  <1>4. ASSUME NEW o \in Outcomes, NEW after, Between(after), Settle(r, o, after)
        PROVE  IInv'
    BY <1>2, <1>4, SettleStep DEF Between
  <1>5. ASSUME NEW o \in Outcomes, NEW pc \in {"cut", "over"},
               Settle(r, o, [q EXCEPT !.pc = pc])
        PROVE  IInv'
    <2>. DEFINE after == [q EXCEPT !.pc = pc]
    <2>1. ReqOK(after) /\ after.pc = pc /\ SameSlot(after, q)
      <3>1. pc \in SlotPCs
        BY DEF SlotPCs
      <3>. QED BY <1>1, <1>2, <3>1, AttemptGoesOn, Zenon
    <2>2. Settle(r, o, after)
      BY <1>5
    <2>. HIDE DEF after
    <2>. QED BY <1>2, <2>1, <2>2, SettleStep DEF SameSlot, Holds
  <1>6. ASSUME NEW body \in {"eof", "closed"}, q.pc = "reading",
               \/ Settle(r, ByStatus(q), [q EXCEPT !.body = body])
               \/ reqs' = [reqs EXCEPT ![r] = [q EXCEPT !.body = body]]
                  /\ UNCHANGED <<windows, signalled>>
        PROVE  IInv'
    <2>. DEFINE after == [q EXCEPT !.body = body]
    <2>1. ReqOK(after) /\ after.pc = q.pc /\ SameSlot(after, q)
      <3>1. body \in {"open", "eof", "closed"} /\ q.at \in Providers
        BY <1>2
      <3>2. \A b \in {"open", "eof", "closed"} :
               LET a == [q EXCEPT !.body = b]
               IN  ReqOK(a) /\ a.pc = q.pc /\ SameSlot(a, q)
        BY <1>1, <3>1, AttemptGoesOn, Zenon
      <3>. QED BY <3>1, <3>2
    <2>2. \/ Settle(r, ByStatus(q), after)
          \/ reqs' = [reqs EXCEPT ![r] = after] /\ UNCHANGED <<windows, signalled>>
      BY <1>6
    <2>. HIDE DEF after
    <2>3. after.pc \notin {"asleep", "checking", "over", "cut"}
      BY <1>6, <2>1
    <2>4. CASE Settle(r, ByStatus(q), after)
      BY <1>2, <1>3, <2>1, <2>3, <2>4, SettleStep DEF SameSlot, Holds
    <2>5. CASE reqs' = [reqs EXCEPT ![r] = after] /\ UNCHANGED <<windows, signalled>>
      BY <1>1, <2>1, <2>3, <2>5, LocalStep DEF SameSlot, Holds, SettledOK
    <2>. QED BY <2>2, <2>4, <2>5
  <1>7. ASSUME NEW how \in {"skipped", "failed", "ended"}, SendFails(r, how) PROVE IInv'
    BY <1>1, <1>2, <1>3, <1>4, <1>7, LeftBetween, IdleBetween DEF SendFails
  <1>8. CASE Drawn(r)
    BY <1>3, <1>5, <1>8 DEF Drawn
  <1>9. CASE BodyEOF(r)
    BY <1>6, <1>9 DEF BodyEOF
  <1>10. CASE BodyClosed(r)
    BY <1>6, <1>10 DEF BodyClosed
  <1>11. CASE JudgedSettles(r)
    BY <1>3, <1>5, <1>11 DEF JudgedSettles
  <1>12. ASSUME NEW forwarded \in BOOLEAN, DropRefusal(r, forwarded) PROVE IInv'
    BY <1>1, <1>2, <1>3, <1>4, <1>12, LeftBetween, IdleBetween DEF DropRefusal
  <1>13. ASSUME NEW rejected \in BOOLEAN, PassthroughSettles(r, rejected) PROVE IInv'
    BY <1>3, <1>5, <1>13 DEF PassthroughSettles
  <1>. QED BY <1>7, <1>8, <1>9, <1>10, <1>11, <1>12, <1>13

(* An admission takes a slot where there is room, so under the ceiling. *)
LEMMA AdmittedStep ==
    ASSUME IInv, NEW r \in Requests, Admitted(r)
    PROVE  IInv'
  <1>. DEFINE q == reqs[r]
              p == q.at
              after == [q EXCEPT !.pc = "sent", !.slot = "held"]
              w == windows[p]
              v == [w EXCEPT !.inflight = @ + 1]
  <1>1. ReqOK(q) /\ q \in Request /\ TypeOK
    BY DEF IInv, ReqsOK, ReqOK
  <1>2. p \in Providers /\ ~Holds(r)
    BY <1>1 DEF Admitted, ReqOK, Holds, SlotPCs
  <1>3. /\ reqs' = [reqs EXCEPT ![r] = after] /\ windows' = [windows EXCEPT ![p] = v]
        /\ UNCHANGED signalled
    BY DEF Admitted
  <1>4. w \in Window /\ Ceiling[p] \in Nat /\ w.inflight \in Nat
    BY <1>1, <1>2, ProvidersAssumption DEF TypeOK, Window
  <1>5. /\ v \in Window /\ v.inflight = w.inflight + 1
        /\ ~CanAdmit(w, Ceiling[p]) => ~CanAdmit(v, Ceiling[p])
        /\ Ceiling[p] > 0 => v.inflight <= Ceiling[p]
    BY <1>4, AdmittedWindow DEF Admitted
  <1>6. /\ ReqOK(after) /\ SettledOK(after) /\ after.at = p /\ after.slot = "held"
        /\ after.pc \notin {"asleep", "checking"}
    <2>1. "sent" \in WalkPCs \cup SlotPCs /\ "held" \in {"none", "held"} \cup Outcomes
      BY DEF SlotPCs
    <2>2. after \in Request
      BY <1>1, <2>1, RequestFields, Zenon
    <2>3. after.pc = "sent" /\ after.at = p /\ after.slot = "held"
      BY <1>1 DEF Request
    <2>. HIDE DEF after
    <2>. QED BY <1>2, <2>2, <2>3 DEF ReqOK, SettledOK, SlotPCs
  <1>. HIDE DEF after, v
  <1>7. TypeOK'
    BY <1>1, <1>3, <1>5, <1>6 DEF TypeOK, ReqOK
  <1>8. ReqsOK'
    BY <1>3, <1>6 DEF IInv, ReqsOK, TypeOK
  <1>9. SlotsAccounted'
    <2>1. \A x \in Providers : windows[x].inflight \in Nat
      BY <1>1 DEF TypeOK, Window
    <2>2. \A x \in Providers : windows'[x].inflight =
               windows[x].inflight - (IF reqs[r].at = x /\ Holds(r) THEN 1 ELSE 0)
               + (IF after.at = x /\ after.slot = "held" THEN 1 ELSE 0)
      BY <1>1, <1>2, <1>3, <1>5, <1>6, <2>1 DEF TypeOK
    <2>. QED BY <1>1, <1>3, <2>2, CountsFollow DEF TypeOK, IInv
  <1>10. CeilingHolds'
    <2>. SUFFICES ASSUME NEW x \in Providers, Ceiling[x] > 0
                  PROVE  windows'[x].inflight <= Ceiling[x]
      BY <1>9 DEF CeilingHolds, SlotsAccounted
    <2>1. CASE x = p
      BY <1>1, <1>3, <1>5, <2>1 DEF TypeOK
    <2>2. CASE x # p
      BY <1>3, <2>2 DEF IInv, TypeOK, CeilingHolds, SlotsAccounted
    <2>. QED BY <2>1, <2>2
  <1>11. WaitersOK'
    <2>1. WaiterOK(r)'
      BY <1>1, <1>3, <1>6 DEF TypeOK, WaiterOK
    <2>2. \A x \in Providers : ~CanAdmit(windows[x], Ceiling[x]) => ~CanAdmit(windows'[x], Ceiling[x])
      BY <1>1, <1>2, <1>3, <1>5 DEF TypeOK
    <2>. QED BY <1>1, <1>3, <2>1, <2>2, WaitersKept DEF IInv, TypeOK
  <1>. QED BY <1>7, <1>8, <1>9, <1>10, <1>11 DEF IInv

(* Taking the channel, and looking for room provider by provider. *)
LEMMA WaitSteps ==
    ASSUME IInv, NEW r \in Requests, Snapshot(r) \/ Check(r)
    PROVE  IInv'
  <1>. DEFINE q == reqs[r]
  <1>1. /\ ReqOK(q) /\ q \in Request /\ TypeOK /\ ~Holds(r) /\ WaiterOK(r)
        /\ q.busy \subseteq Providers /\ q.at \in 1..(NumProviders + 1)
    BY DEF IInv, ReqsOK, ReqOK, WaitersOK, Snapshot, Check, Holds, SlotPCs, Request
  <1>2. {"checking", "asleep", "retry"} \subseteq WalkPCs \cup SlotPCs
    BY DEF WalkPCs
  <1>3. 1 \in Providers /\ 1 \in 1..(NumProviders + 1)
    BY ProvidersAssumption DEF Providers
  <1>4. ASSUME NEW pc \in {"checking", "asleep", "retry"}, NEW at \in 1..(NumProviders + 1),
               pc # "checking" => at \in Providers,
               reqs' = [reqs EXCEPT ![r] = [q EXCEPT !.pc = pc, !.at = at]],
               UNCHANGED windows, signalled' \in [Requests -> BOOLEAN],
               \A x \in Requests \ {r} : signalled'[x] = signalled[x],
               ~signalled'[r] =>
                   /\ pc = "asleep" => \A p \in q.busy : ~CanAdmit(windows[p], Ceiling[p])
                   /\ pc = "checking" =>
                         \A p \in q.busy : p < at => ~CanAdmit(windows[p], Ceiling[p])
        PROVE  IInv'
    <2>. DEFINE after == [q EXCEPT !.pc = pc, !.at = at]
    <2>1. after \in Request
      BY <1>1, <1>2, RequestFields, Zenon
    <2>2. after.pc = pc /\ after.at = at /\ after.slot = q.slot /\ after.busy = q.busy
      BY <1>1 DEF Request
    <2>3. reqs' = [reqs EXCEPT ![r] = after]
      BY <1>4
    <2>. HIDE DEF after
    <2>4. ReqOK(after) /\ SettledOK(after) /\ after.slot # "held"
      BY <1>1, <1>4, <2>1, <2>2 DEF ReqOK, SettledOK, Holds
    <2>5. WaiterOK(r)'
      BY <1>1, <1>4, <2>2, <2>3 DEF WaiterOK, TypeOK
    <2>. QED BY <1>1, <1>4, <2>3, <2>4, <2>5, LocalStep
  <1>5. CASE Snapshot(r)
    <2>1. /\ reqs' = [reqs EXCEPT ![r] = [q EXCEPT !.pc = "checking", !.at = 1]]
          /\ signalled' = [signalled EXCEPT ![r] = FALSE] /\ UNCHANGED windows
      BY <1>5 DEF Snapshot
    <2>2. \A p \in q.busy : ~(p < 1)
      BY <1>1 DEF Providers
    <2>. QED BY <1>1, <1>3, <1>4, <2>1, <2>2 DEF TypeOK
  <1>6. CASE Check(r)
    <2>1. q.pc = "checking" /\ UNCHANGED <<windows, signalled>> /\ signalled \in [Requests -> BOOLEAN]
      BY <1>1, <1>6 DEF Check, TypeOK
    <2>2. ~signalled[r] => \A p \in q.busy : p < q.at => ~CanAdmit(windows[p], Ceiling[p])
      BY <1>1, <2>1 DEF WaiterOK
    <2>3. CASE q.at > NumProviders
      <3>1. reqs' = [reqs EXCEPT ![r] = [q EXCEPT !.pc = "asleep", !.at = 1]]
        BY <1>6, <2>3 DEF Check
      <3>2. \A p \in q.busy : p < q.at
        BY <1>1, <2>3, ProvidersAssumption DEF Providers
      <3>. QED BY <1>3, <1>4, <2>1, <2>2, <3>1, <3>2
    <2>4. CASE /\ ~(q.at > NumProviders)
               /\ q.at \in q.busy /\ CanAdmit(windows[q.at], Ceiling[q.at])
      <3>1. reqs' = [reqs EXCEPT ![r] = [q EXCEPT !.pc = "retry"]]
        BY <1>6, <2>4 DEF Check
      <3>2. [q EXCEPT !.pc = "retry"] = [q EXCEPT !.pc = "retry", !.at = q.at]
        BY <1>1 DEF Request
      <3>. QED BY <1>1, <1>4, <2>1, <2>4, <3>1, <3>2
    <2>5. CASE /\ ~(q.at > NumProviders)
               /\ ~(q.at \in q.busy /\ CanAdmit(windows[q.at], Ceiling[q.at]))
      <3>1. reqs' = [reqs EXCEPT ![r] = [q EXCEPT !.at = q.at + 1]]
        BY <1>6, <2>5 DEF Check
      <3>2. [q EXCEPT !.at = q.at + 1] = [q EXCEPT !.pc = "checking", !.at = q.at + 1]
        BY <1>1, <2>1 DEF Request
      <3>3. q.at + 1 \in 1..(NumProviders + 1)
        BY <1>1, <2>5, ProvidersAssumption
      <3>4. ~signalled[r] => \A p \in q.busy : p < q.at + 1 => ~CanAdmit(windows[p], Ceiling[p])
        BY <1>1, <2>2, <2>5, ProvidersAssumption DEF Providers
      <3>. QED BY <1>4, <2>1, <3>1, <3>2, <3>3, <3>4
    <2>. QED BY <2>3, <2>4, <2>5
  <1>. QED BY <1>5, <1>6

(* A hint and a cut narrow a window and count nothing. *)
LEMMA NarrowingSteps ==
    ASSUME IInv, NEW r \in Requests,
           \/ \E status \in {"ok", "saturated", "error"}, full \in BOOLEAN : Answered(r, status, full)
           \/ \E retryAfter \in RetryAfters : CutOn429(r, retryAfter)
    PROVE  IInv'
  <1>. DEFINE q == reqs[r]
              p == q.at
  <1>1. ReqOK(q) /\ SettledOK(q) /\ q \in Request /\ TypeOK
    BY DEF IInv, ReqsOK, ReqOK
  <1>2. p \in Providers /\ q.pc \in {"sent", "cut"}
    BY <1>1 DEF Answered, CutOn429, ReqOK
  <1>3. windows[p] \in Window /\ windows[p].inflight <= MaxLimit /\ Ceiling[p] \in Nat
    BY <1>1, <1>2, HoldersFinite, ProvidersAssumption, BoundsAssumption
       DEF IInv, TypeOK, SlotsAccounted
  <1>4. ASSUME NEW v \in Window, v.inflight = windows[p].inflight,
               ~CanAdmit(windows[p], Ceiling[p]) => ~CanAdmit(v, Ceiling[p]),
               windows' = [windows EXCEPT ![p] = v], UNCHANGED signalled,
               NEW after, ReqOK(after), SettledOK(after), SameSlot(after, q),
               after.pc \in SlotPCs, reqs' = [reqs EXCEPT ![r] = after]
        PROVE  IInv'
    <2>1. TypeOK'
      BY <1>1, <1>4 DEF TypeOK, ReqOK
    <2>2. ReqsOK'
      BY <1>4 DEF IInv, ReqsOK, TypeOK
    <2>3. \A x \in Providers : windows'[x].inflight = windows[x].inflight /\ windows[x].inflight \in Nat
      BY <1>1, <1>4 DEF TypeOK, Window
    <2>4. SlotsAccounted'
      <3>1. \A x \in Providers : windows'[x].inflight =
               windows[x].inflight - (IF reqs[r].at = x /\ Holds(r) THEN 1 ELSE 0)
               + (IF after.at = x /\ after.slot = "held" THEN 1 ELSE 0)
        BY <1>4, <2>3 DEF SameSlot, Holds
      <3>. QED BY <1>1, <1>4, <3>1, CountsFollow DEF TypeOK, IInv
    <2>5. CeilingHolds'
      BY <1>1, <2>1, <2>3, <2>4, CeilingKept DEF IInv
    <2>6. WaitersOK'
      <3>1. WaiterOK(r)'
        BY <1>1, <1>4 DEF TypeOK, WaiterOK, SlotPCs
      <3>2. \A x \in Providers :
               ~CanAdmit(windows[x], Ceiling[x]) => ~CanAdmit(windows'[x], Ceiling[x])
        BY <1>1, <1>2, <1>4 DEF TypeOK
      <3>. QED BY <1>1, <1>4, <3>1, <3>2, WaitersKept DEF IInv, TypeOK
    <2>. QED BY <2>1, <2>2, <2>4, <2>5, <2>6 DEF IInv
  <1>5. ASSUME NEW status \in {"ok", "saturated", "error"}, NEW full \in BOOLEAN,
               Answered(r, status, full)
        PROVE  IInv'
    <2>. DEFINE pc == IF status = "ok" THEN "answered" ELSE IF status = "saturated" THEN "drawn"
                      ELSE "refused"
                after == [q EXCEPT !.pc = pc, !.clean = (status = "ok"), !.onEOF = TRUE]
                v == IF full THEN HintFull(windows[p]) ELSE windows[p]
    <2>1. pc \in SlotPCs /\ pc \notin {"over", "cut"}
      BY DEF SlotPCs
    <2>. HIDE DEF pc
    <2>2. ReqOK(after) /\ after.pc = pc /\ SameSlot(after, q)
      <3>1. \A c, e \in BOOLEAN :
               LET a == [q EXCEPT !.pc = pc, !.clean = c, !.onEOF = e]
               IN  ReqOK(a) /\ a.pc = pc /\ SameSlot(a, q)
        BY <1>1, <1>2, <2>1, AttemptGoesOn, Zenon
      <3>. QED BY <3>1
    <2>3. reqs' = [reqs EXCEPT ![r] = after] /\ UNCHANGED signalled
      BY <1>5 DEF Answered, pc
    <2>4. windows' = [windows EXCEPT ![p] = v]
      BY <1>1, <1>5 DEF Answered, TypeOK
    <2>5. /\ v \in Window /\ v.inflight = windows[p].inflight
          /\ ~CanAdmit(windows[p], Ceiling[p]) => ~CanAdmit(v, Ceiling[p])
      <3>1. 0 \in Nat
        OBVIOUS
      <3>. QED BY <1>3, <3>1, CappedWindow
    <2>. HIDE DEF after, v
    <2>. QED BY <1>4, <2>1, <2>2, <2>3, <2>4, <2>5 DEF SettledOK
  <1>6. ASSUME NEW retryAfter \in RetryAfters, CutOn429(r, retryAfter) PROVE IInv'
    <2>. DEFINE after == [q EXCEPT !.pc = "refused"]
                v == Cut(windows[p], retryAfter)
    <2>1. ReqOK(after) /\ after.pc = "refused" /\ SameSlot(after, q) /\ "refused" \in SlotPCs
      <3>1. "refused" \in SlotPCs
        BY DEF SlotPCs
      <3>2. \A pc \in SlotPCs :
               LET a == [q EXCEPT !.pc = pc] IN ReqOK(a) /\ a.pc = pc /\ SameSlot(a, q)
        BY <1>1, <1>2, AttemptGoesOn, Zenon
      <3>. QED BY <3>1, <3>2
    <2>2. /\ reqs' = [reqs EXCEPT ![r] = after] /\ UNCHANGED signalled
          /\ windows' = [windows EXCEPT ![p] = v]
      BY <1>6 DEF CutOn429
    <2>3. /\ v \in Window /\ v.inflight = windows[p].inflight
          /\ ~CanAdmit(windows[p], Ceiling[p]) => ~CanAdmit(v, Ceiling[p])
      <3>1. retryAfter \in Nat
        BY BoundsAssumption
      <3>. QED BY <1>3, <3>1, CappedWindow
    <2>. HIDE DEF after, v
    <2>. QED BY <1>4, <2>1, <2>2, <2>3 DEF SettledOK
  <1>. QED BY <1>5, <1>6

(* Time alone neither counts nor makes room. *)
LEMMA TickStep ==
    ASSUME IInv, Tick
    PROVE  IInv'
  <1>1. TypeOK /\ UNCHANGED <<reqs, signalled>>
    BY DEF IInv, Tick
  <1>2. \A p \in Providers :
           /\ windows'[p] \in Window
           /\ windows'[p].inflight = windows[p].inflight /\ windows'[p].limit = windows[p].limit
    <2>. SUFFICES ASSUME NEW p \in Providers
                  PROVE  /\ windows'[p] \in Window
                         /\ windows'[p].inflight = windows[p].inflight
                         /\ windows'[p].limit = windows[p].limit
      OBVIOUS
    <2>. DEFINE w == windows[p]
                since == IF w.limit > 0 /\ w.sinceCut < ForgetAfter THEN w.sinceCut + 1 ELSE w.sinceCut
    <2>1. w \in Window /\ windows'[p] = [w EXCEPT !.sinceCut = since]
      BY <1>1 DEF Tick, TypeOK
    <2>2. since \in Int
      BY <2>1 DEF Window
    <2>. HIDE DEF since
    <2>. QED BY <2>1, <2>2 DEF Window
  <1>3. TypeOK'
    <2>1. windows' \in [Providers -> Window]
      BY <1>2 DEF Tick
    <2>. QED BY <1>1, <2>1 DEF TypeOK
  <1>4. \A p \in Providers : CanAdmit(windows'[p], Ceiling[p]) = CanAdmit(windows[p], Ceiling[p])
    BY <1>2 DEF CanAdmit
  <1>5. ReqsOK' /\ CeilingHolds' /\ SlotsAccounted'
    BY <1>1, <1>2 DEF IInv, ReqsOK, CeilingHolds, SlotsAccounted, Holders, Holds
  <1>6. WaitersOK'
    <2>. SUFFICES ASSUME NEW r \in Requests PROVE WaiterOK(r)'
      BY DEF WaitersOK
    <2>1. WaiterOK(r) /\ reqs[r].busy \subseteq Providers
      BY <1>1 DEF IInv, WaitersOK, TypeOK, Request
    <2>. QED BY <1>1, <1>4, <2>1 DEF WaiterOK
  <1>. QED BY <1>3, <1>5, <1>6 DEF IInv

(* Stuttering. *)
LEMMA StutterStep ==
    ASSUME IInv, UNCHANGED vars
    PROVE  IInv'
  BY DEF vars, IInv, TypeOK, ReqsOK, SlotsAccounted, CeilingHolds, WaitersOK, WaiterOK,
         Holders, Holds

-----------------------------------------------------------------------------
(***************************************************************************)
(* The results.                                                            *)
(***************************************************************************)

(* Initially nothing is held, learned or waited for. *)
LEMMA InitIInv == Init => IInv
  <1>. SUFFICES ASSUME Init PROVE IInv
    OBVIOUS
  <1>1. NewWindow \in Window
    BY BoundsAssumption, RequestsAssumption, FS_CardinalityType DEF NewWindow, Window
  <1>2. TypeOK
    BY <1>1, IdleBetween DEF Init, TypeOK, Between, ReqOK
  <1>3. ReqsOK
    BY IdleBetween DEF Init, ReqsOK, Between, SettledOK
  <1>4. \A p \in Providers : Holders(p) = {} /\ windows[p].inflight = 0
    BY DEF Init, Holders, Holds, Idle, NewWindow
  <1>5. \A p \in Providers : Cardinality(Holders(p)) = 0 /\ Ceiling[p] \in Nat
    <2>1. Cardinality({}) = 0
      BY FS_EmptySet
    <2>. QED BY <1>4, <2>1, ProvidersAssumption
  <1>7. SlotsAccounted /\ CeilingHolds
    BY <1>4, <1>5 DEF SlotsAccounted, CeilingHolds
  <1>6. WaitersOK
    BY DEF Init, WaitersOK, WaiterOK, Idle
  <1>. QED BY <1>2, <1>3, <1>6, <1>7 DEF IInv

(* Every step of every request, and time, keep the invariant. *)
LEMMA NextIInv == IInv /\ [Next]_vars => IInv'
  <1>. SUFFICES ASSUME IInv, [Next]_vars PROVE IInv'
    OBVIOUS
  <1>1. CASE UNCHANGED vars
    BY <1>1, StutterStep
  <1>2. CASE Tick
    BY <1>2, TickStep
  <1>3. ASSUME NEW r \in Requests,
               \/ \E surface \in Surfaces[r] : Arrive(r, surface)
               \/ Busy(r) \/ Wake(r) \/ Expire(r)
               \/ \E failover \in BOOLEAN : Leave(r, failover)
               \/ Dispatch(r) \/ \E verdict \in Verdicts \ {"none"} : Judge(r, verdict)
        PROVE  IInv'
    BY <1>3, WalkSteps
  <1>4. ASSUME NEW r \in Requests,
               \/ \E how \in {"skipped", "failed", "ended"} : SendFails(r, how)
               \/ Drawn(r) \/ BodyEOF(r) \/ BodyClosed(r) \/ JudgedSettles(r)
               \/ \E forwarded \in BOOLEAN : DropRefusal(r, forwarded)
               \/ \E rejected \in BOOLEAN : PassthroughSettles(r, rejected)
        PROVE  IInv'
    BY <1>4, SettlingSteps
  <1>5. ASSUME NEW r \in Requests, Admitted(r) PROVE IInv'
    BY <1>5, AdmittedStep
  <1>6. ASSUME NEW r \in Requests, Snapshot(r) \/ Check(r) PROVE IInv'
    BY <1>6, WaitSteps
  <1>7. ASSUME NEW r \in Requests,
               \/ \E status \in {"ok", "saturated", "error"}, full \in BOOLEAN :
                      Answered(r, status, full)
               \/ \E retryAfter \in RetryAfters : CutOn429(r, retryAfter)
        PROVE  IInv'
    BY <1>7, NarrowingSteps
  <1>. QED BY <1>1, <1>2, <1>3, <1>4, <1>5, <1>6, <1>7 DEF Next

(* The inductive invariant holds in every reachable state. *)
THEOREM Inductive == Spec => []IInv
  BY InitIInv, NextIInv, PTL DEF Spec

(* Every window and request has its type throughout (inflightWindow,       *)
(* attemptSlot): no count goes negative and no allowance past its bound.   *)
THEOREM TypeCorrect == Spec => []TypeOK
  <1>1. IInv => TypeOK
    BY DEF IInv
  <1>. QED BY <1>1, Inductive, PTL

(* For any number of providers and requests, a window counts exactly the   *)
(* attempts between send and settlement: no slot leaks and none is         *)
(* returned twice (tryAcquire, attemptSlot.settle, release).               *)
THEOREM SlotsNeverLeak == Spec => []SlotsAccounted
  <1>1. IInv => SlotsAccounted
    BY DEF IInv
  <1>. QED BY <1>1, Inductive, PTL

(* No provider ever carries more requests than its max_in_flight, whatever *)
(* was learned about it (effectiveLimit, tryAcquire).                      *)
THEOREM CeilingNeverExceeded == Spec => []CeilingHolds
  <1>1. IInv => CeilingHolds
    BY DEF IInv
  <1>. QED BY <1>1, Inductive, PTL

(* No release can slip between the snapshot of the notify channel and the  *)
(* checks for room: a waiter asleep on an open channel has no room at any  *)
(* of its candidates (waitForSlot).                                        *)
THEOREM WakeupNeverLost == Spec => []NoLostWakeup
  <1>1. IInv => NoLostWakeup
    BY DEF IInv, WaitersOK, WaiterOK, NoLostWakeup
  <1>. QED BY <1>1, Inductive, PTL

(* An attempt about to cut does nothing else first. *)
LEMMA OnlyTheCutLeaves ==
    ASSUME IInv, Next, NEW r \in Requests, reqs[r].pc = "cut", reqs'[r].pc # "cut"
    PROVE  \E retryAfter \in RetryAfters : CutOn429(r, retryAfter)
  <1>1. reqs \in [Requests -> Request]
    BY DEF IInv, TypeOK
  <1>2. CASE Tick
    BY <1>2 DEF Tick
  <1>3. ASSUME NEW q \in Requests, NEW o, NEW after, Settle(q, o, after)
        PROVE  \A x \in Requests \ {q} : reqs'[x] = reqs[x]
    BY <1>1, <1>3 DEF Settle
  <1>4. ASSUME NEW q \in Requests,
               \/ \E surface \in Surfaces[q] : Arrive(q, surface)
               \/ Admitted(q) \/ Busy(q) \/ Snapshot(q) \/ Check(q) \/ Wake(q) \/ Expire(q)
               \/ \E status \in {"ok", "saturated", "error"}, full \in BOOLEAN :
                      Answered(q, status, full)
               \/ Dispatch(q) \/ \E verdict \in Verdicts \ {"none"} : Judge(q, verdict)
               \/ \E failover \in BOOLEAN : Leave(q, failover)
        PROVE  FALSE
    <2>1. reqs[q].pc # "cut"
      BY <1>4 DEF Arrive, Admitted, Busy, Snapshot, Check, Wake, Expire, Answered, Dispatch,
                  Judge, Leave
    <2>2. \A x \in Requests \ {q} : reqs'[x] = reqs[x]
      BY <1>1, <1>4 DEF Arrive, Admitted, Busy, Snapshot, Check, Wake, Expire, Answered,
                        Dispatch, Judge, Leave
    <2>. QED BY <2>1, <2>2
  <1>5. ASSUME NEW q \in Requests,
               \/ \E how \in {"skipped", "failed", "ended"} : SendFails(q, how)
               \/ Drawn(q) \/ BodyEOF(q) \/ BodyClosed(q) \/ JudgedSettles(q)
               \/ \E forwarded \in BOOLEAN : DropRefusal(q, forwarded)
               \/ \E rejected \in BOOLEAN : PassthroughSettles(q, rejected)
        PROVE  FALSE
    <2>1. reqs[q].pc # "cut"
      BY <1>5 DEF SendFails, Drawn, BodyEOF, BodyClosed, JudgedSettles, DropRefusal,
                  PassthroughSettles
    <2>2. \A x \in Requests \ {q} : reqs'[x] = reqs[x]
      BY <1>1, <1>3, <1>5 DEF SendFails, Drawn, BodyEOF, BodyClosed, JudgedSettles, DropRefusal,
                              PassthroughSettles
    <2>. QED BY <2>1, <2>2
  <1>6. ASSUME NEW q \in Requests, NEW retryAfter \in RetryAfters, CutOn429(q, retryAfter)
        PROVE  q = r
    BY <1>1, <1>6 DEF CutOn429
  <1>. QED BY <1>2, <1>4, <1>5, <1>6 DEF Next

(* Every cut leaves the provider capped at no more than the attempts that  *)
(* still fit and at no less than one, for any number of requests in        *)
(* flight: the refused attempt's own slot is settled before the cut reads  *)
(* the load (judge429AndRecordBreaker, cut).                               *)
THEOREM CutNeverExceedsLoad == Spec => CutMatchesLoad
  <1>. DEFINE Matches(r) ==
          (reqs[r].pc = "cut" /\ reqs'[r].pc # "cut") =>
              LET p == reqs[r].at
                  load == Cardinality(Holders(p) \ {r})
              IN  windows'[p].limit \in 1..(IF load > 1 THEN load ELSE 1)
  <1>1. ASSUME IInv, Next, NEW r \in Requests PROVE Matches(r)
    <2>. SUFFICES ASSUME reqs[r].pc = "cut", reqs'[r].pc # "cut"
                  PROVE  windows'[reqs[r].at].limit \in
                            1..(IF Cardinality(Holders(reqs[r].at) \ {r}) > 1
                                THEN Cardinality(Holders(reqs[r].at) \ {r}) ELSE 1)
      OBVIOUS
    <2>. DEFINE p == reqs[r].at
    <2>1. PICK retryAfter \in RetryAfters : CutOn429(r, retryAfter)
      BY <1>1, OnlyTheCutLeaves
    <2>2. p \in Providers /\ windows[p] \in Window /\ ~Holds(r)
      BY <1>1 DEF IInv, TypeOK, ReqsOK, ReqOK, SettledOK, Holds
    <2>3. Holders(p) \ {r} = Holders(p)
      BY <2>2 DEF Holders
    <2>4. windows[p].inflight = Cardinality(Holders(p)) /\ windows[p].inflight \in Nat
      BY <1>1, <2>2 DEF IInv, SlotsAccounted, Window
    <2>5. windows'[p] = Cut(windows[p], retryAfter)
      BY <1>1, <2>1, <2>2 DEF CutOn429, IInv, TypeOK
    <2>6. windows'[p].limit = Capped(windows[p])
      BY <2>2, <2>5 DEF Cut, Window
    <2>7. Capped(windows[p]) \in 1..(IF windows[p].inflight > 1 THEN windows[p].inflight ELSE 1)
      BY <2>2, <2>4 DEF Capped, Window
    <2>. QED BY <2>3, <2>4, <2>6, <2>7
  <1>2. IInv /\ [Next]_vars => [\A r \in Requests : Matches(r)]_vars
    BY <1>1
  <1>. QED BY <1>2, Inductive, PTL DEF Spec, CutMatchesLoad

-----------------------------------------------------------------------------
(***************************************************************************)
(* What a verdict and a settled slot have to do with one another.          *)
(***************************************************************************)

(* The body wrapper of an answer taken for good is clean, that of a        *)
(* refusal is not.                                                         *)
CleanOK(q) ==
    /\ q.pc \in {"answered", "reading", "judged"} => q.clean
    /\ q.pc \in {"drawn", "cut", "refused"} => ~q.clean

Chat == {"stream", "buffered"}

(* A chat answer: while it is read nothing but its verdict can settle its  *)
(* slot, because a stream holds the verdict and a buffered body does not   *)
(* settle at its EOF; and the verdict settles it clean only if it served.  *)
VerdictOK(q) ==
    /\ q.pc \notin {"judged", "over"} => q.verdict = "none"
    /\ q.pc \in {"reading", "judged"} =>
          /\ q.surface = "stream" => q.hold
          /\ q.surface = "buffered" => ~q.onEOF
    /\ q.pc \in {"sent", "answered"} => q.slot # "clean"
    /\ q.surface \in Chat =>
          /\ q.pc \in {"reading", "judged"} => q.slot # "clean"
          /\ q.pc = "over" /\ q.slot = "clean" => q.verdict = "served"

CleansOK   == \A r \in Requests : CleanOK(reqs[r])
VerdictsOK == \A r \in Requests : VerdictOK(reqs[r])

(* Every request is a chat completion: native-dialect and multimodal       *)
(* answers settle by status, and for them the property is false.           *)
OnlyChat == \A r \in Requests : Surfaces[r] \subseteq Chat

(* A step of one request. *)
RequestStep(r) ==
    \/ \E surface \in Surfaces[r] : Arrive(r, surface)
    \/ Admitted(r) \/ Busy(r)
    \/ Snapshot(r) \/ Check(r) \/ Wake(r) \/ Expire(r)
    \/ \E how \in {"skipped", "failed", "ended"} : SendFails(r, how)
    \/ \E status \in {"ok", "saturated", "error"}, full \in BOOLEAN :
           Answered(r, status, full)
    \/ Drawn(r)
    \/ \E retryAfter \in RetryAfters : CutOn429(r, retryAfter)
    \/ \E forwarded \in BOOLEAN : DropRefusal(r, forwarded)
    \/ Dispatch(r) \/ BodyEOF(r) \/ BodyClosed(r)
    \/ \E verdict \in Verdicts \ {"none"} : Judge(r, verdict)
    \/ JudgedSettles(r)
    \/ \E rejected \in BOOLEAN : PassthroughSettles(r, rejected)
    \/ \E failover \in BOOLEAN : Leave(r, failover)

LEMMA NextIsAStep == Next <=> (\E r \in Requests : RequestStep(r)) \/ Tick
  BY Zenon DEF Next, RequestStep

(* A step of one request leaves the others where they are. *)
LEMMA OthersStay ==
    ASSUME reqs \in [Requests -> Request], NEW r \in Requests, RequestStep(r)
    PROVE  \A x \in Requests \ {r} : reqs'[x] = reqs[x]
  <1>1. ASSUME NEW o, NEW after, Settle(r, o, after)
        PROVE  \A x \in Requests \ {r} : reqs'[x] = reqs[x]
    BY <1>1 DEF Settle
  <1>2. CASE \/ \E how \in {"skipped", "failed", "ended"} : SendFails(r, how)
             \/ Drawn(r) \/ BodyEOF(r) \/ BodyClosed(r) \/ JudgedSettles(r)
             \/ \E forwarded \in BOOLEAN : DropRefusal(r, forwarded)
             \/ \E rejected \in BOOLEAN : PassthroughSettles(r, rejected)
    BY <1>1, <1>2 DEF SendFails, Drawn, BodyEOF, BodyClosed, JudgedSettles, DropRefusal,
                      PassthroughSettles
  <1>3. CASE \/ \E surface \in Surfaces[r] : Arrive(r, surface)
             \/ Admitted(r) \/ Busy(r) \/ Snapshot(r) \/ Check(r) \/ Wake(r) \/ Expire(r)
             \/ \E status \in {"ok", "saturated", "error"}, full \in BOOLEAN :
                    Answered(r, status, full)
             \/ \E retryAfter \in RetryAfters : CutOn429(r, retryAfter)
             \/ Dispatch(r) \/ \E verdict \in Verdicts \ {"none"} : Judge(r, verdict)
             \/ \E failover \in BOOLEAN : Leave(r, failover)
    BY <1>3 DEF Arrive, Admitted, Busy, Snapshot, Check, Wake, Expire, Answered, CutOn429,
                Dispatch, Judge, Leave
  <1>. QED BY <1>2, <1>3 DEF RequestStep

(* A request that leaves its attempt starts afresh. *)
Fresh(a, q) ==
    /\ a.pc \in {"idle", "walk", "wait"} /\ a.slot = "none" /\ a.verdict = "none"
    /\ a.surface \in {"stream", q.surface}

LEMMA LeavesFresh ==
    ASSUME NEW q, NEW busy
    PROVE  /\ Fresh(Idle, q) /\ Fresh(NextCandidate(q, busy), q)
           /\ Fresh(FailedOver(q), q) /\ Fresh(Skipped(q), q)
  <1>1. Fresh(Idle, q) /\ \A b : Fresh(NextCandidate(q, b), q)
    BY DEF Fresh, Idle, NextCandidate
  <1>2. Fresh([Idle EXCEPT !.pc = "wait", !.busy = q.busy \ {q.at},
                           !.waited = TRUE, !.surface = q.surface], q)
    BY DEF Fresh, Idle
  <1>. QED BY <1>1, <1>2 DEF FailedOver, Skipped

(* How a settle leaves the request itself. *)
LEMMA SettledRequest ==
    ASSUME reqs \in [Requests -> Request], NEW r \in Requests, NEW o, NEW after,
           Settle(r, o, after)
    PROVE  reqs'[r] = IF reqs[r].slot = "held" /\ after.slot = "held"
                      THEN [after EXCEPT !.slot = o] ELSE after
  BY DEF Settle

(* Each step of a request keeps both. *)
LEMMA CleanKept ==
    ASSUME reqs \in [Requests -> Request], CleansOK, NEW r \in Requests, RequestStep(r)
    PROVE  CleanOK(reqs'[r])
  <1>. DEFINE q == reqs[r]
  <1>1. q \in Request /\ CleanOK(q)
    BY DEF CleansOK
  <1>2. ASSUME NEW a, Fresh(a, q) PROVE CleanOK(a)
    BY <1>2 DEF Fresh, CleanOK
  <1>3. ASSUME NEW o, NEW after, Settle(r, o, after),
               \/ Fresh(after, q)
               \/ after \in Request /\ CleanOK(after)
        PROVE  CleanOK(reqs'[r])
    <2>1. \/ reqs'[r] = after
          \/ after.slot = "held" /\ reqs'[r] = [after EXCEPT !.slot = o]
      BY <1>3, SettledRequest
    <2>2. CASE Fresh(after, q)
      BY <1>2, <2>1, <2>2 DEF Fresh
    <2>3. CASE after \in Request /\ CleanOK(after)
      BY <2>1, <2>3 DEF CleanOK, Request
    <2>. QED BY <1>3, <2>2, <2>3
  <1>4. CASE \E surface \in Surfaces[r] : Arrive(r, surface)
    BY <1>4 DEF Arrive, Idle, CleanOK
  <1>5. CASE Admitted(r)
    BY <1>1, <1>5 DEF Admitted, Request, CleanOK
  <1>6. CASE Busy(r)
    <2>1. CleanOK([q EXCEPT !.pc = "wait", !.at = 1])
      BY <1>1 DEF Request, CleanOK
    <2>2. CleanOK(NextCandidate(q, q.busy \cup {q.at}))
      BY <1>2, LeavesFresh
    <2>. QED BY <1>6, <2>1, <2>2 DEF Busy
  <1>7. CASE Snapshot(r) \/ Wake(r) \/ Expire(r)
    BY <1>1, <1>7 DEF Snapshot, Wake, Expire, Request, CleanOK, Idle
  <1>8. CASE Check(r)
    BY <1>1, <1>8 DEF Check, Request, CleanOK
  <1>9. ASSUME NEW how \in {"skipped", "failed", "ended"}, SendFails(r, how)
        PROVE  CleanOK(reqs'[r])
    BY <1>3, <1>9, LeavesFresh DEF SendFails
  <1>10. ASSUME NEW status \in {"ok", "saturated", "error"}, NEW full \in BOOLEAN,
                Answered(r, status, full)
         PROVE  CleanOK(reqs'[r])
    BY <1>1, <1>10 DEF Answered, Request, CleanOK
  <1>11. CASE Drawn(r)
    <2>. DEFINE a == [q EXCEPT !.pc = "cut"]
    <2>1. a \in Request
      BY <1>1, RequestFields DEF SlotPCs
    <2>2. CleanOK(a)
      BY <1>1, <1>11 DEF Drawn, CleanOK, Request
    <2>. QED BY <1>3, <1>11, <2>1, <2>2 DEF Drawn
  <1>12. ASSUME NEW retryAfter \in RetryAfters, CutOn429(r, retryAfter)
         PROVE  CleanOK(reqs'[r])
    BY <1>1, <1>12 DEF CutOn429, Request, CleanOK
  <1>13. ASSUME NEW forwarded \in BOOLEAN, DropRefusal(r, forwarded)
         PROVE  CleanOK(reqs'[r])
    BY <1>3, <1>13, LeavesFresh DEF DropRefusal
  <1>14. CASE Dispatch(r)
    BY <1>1, <1>14 DEF Dispatch, Request, CleanOK
  <1>15. CASE BodyEOF(r) \/ BodyClosed(r)
    <2>1. ASSUME NEW body \in {"open", "eof", "closed"},
                 \/ Settle(r, ByStatus(q), [q EXCEPT !.body = body])
                 \/ reqs' = [reqs EXCEPT ![r] = [q EXCEPT !.body = body]]
          PROVE  CleanOK(reqs'[r])
      <3>. DEFINE a == [q EXCEPT !.body = body]
      <3>1. a \in Request
        BY <1>1, RequestFields
      <3>2. CleanOK(a)
        BY <1>1 DEF CleanOK, Request
      <3>. QED BY <1>3, <2>1, <3>1, <3>2
    <2>. QED BY <1>15, <2>1 DEF BodyEOF, BodyClosed
  <1>16. ASSUME NEW verdict \in Verdicts \ {"none"}, Judge(r, verdict)
         PROVE  CleanOK(reqs'[r])
    BY <1>1, <1>16 DEF Judge, Request, CleanOK
  <1>17. CASE JudgedSettles(r) \/ \E rejected \in BOOLEAN : PassthroughSettles(r, rejected)
    <2>. DEFINE a == [q EXCEPT !.pc = "over"]
    <2>1. a \in Request
      BY <1>1, RequestFields DEF SlotPCs
    <2>2. CleanOK(a)
      BY <1>1 DEF CleanOK, Request
    <2>. QED BY <1>3, <1>17, <2>1, <2>2 DEF JudgedSettles, PassthroughSettles
  <1>18. ASSUME NEW failover \in BOOLEAN, Leave(r, failover)
         PROVE  CleanOK(reqs'[r])
    BY <1>2, <1>18, LeavesFresh DEF Leave
  <1>. QED BY <1>4, <1>5, <1>6, <1>7, <1>8, <1>9, <1>10, <1>11, <1>12, <1>13, <1>14, <1>15,
              <1>16, <1>17, <1>18 DEF RequestStep

LEMMA VerdictKept ==
    ASSUME reqs \in [Requests -> Request], VerdictsOK, NEW r \in Requests,
           RequestStep(r)
    PROVE  VerdictOK(reqs'[r])
  <1>. DEFINE q == reqs[r]
  <1>1. q \in Request /\ VerdictOK(q)
    BY DEF VerdictsOK
  <1>2. ASSUME NEW a, Fresh(a, q) PROVE VerdictOK(a)
    BY <1>1, <1>2 DEF Fresh, VerdictOK
  <1>3. ASSUME NEW o, NEW after, Settle(r, o, after), Fresh(after, q)
        PROVE  VerdictOK(reqs'[r])
    <2>1. reqs'[r] = after
      BY <1>3, SettledRequest DEF Fresh
    <2>. QED BY <1>2, <1>3, <2>1
  <1>4. ASSUME NEW surface \in Surfaces[r], Arrive(r, surface)
        PROVE  VerdictOK(reqs'[r])
    BY <1>4 DEF Arrive, Idle, VerdictOK
  <1>5. CASE Admitted(r)
    BY <1>1, <1>5 DEF Admitted, Request, VerdictOK
  <1>6. CASE Busy(r)
    <2>1. VerdictOK(NextCandidate(q, q.busy \cup {q.at}))
      BY <1>2, LeavesFresh
    <2>2. q.pc \in {"walk", "retry"} => VerdictOK([q EXCEPT !.pc = "wait", !.at = 1])
      BY <1>1 DEF Request, VerdictOK
    <2>. QED BY <1>6, <2>1, <2>2 DEF Busy
  <1>7. CASE Snapshot(r) \/ Wake(r) \/ Expire(r)
    BY <1>1, <1>7 DEF Snapshot, Wake, Expire, Request, VerdictOK, Idle
  <1>8. CASE Check(r)
    BY <1>1, <1>8 DEF Check, Request, VerdictOK
  <1>9. ASSUME NEW how \in {"skipped", "failed", "ended"}, SendFails(r, how)
        PROVE  VerdictOK(reqs'[r])
    BY <1>3, <1>9, LeavesFresh DEF SendFails
  <1>10. ASSUME NEW status \in {"ok", "saturated", "error"}, NEW full \in BOOLEAN,
                Answered(r, status, full)
         PROVE  VerdictOK(reqs'[r])
    BY <1>1, <1>10 DEF Answered, Request, VerdictOK
  <1>11. CASE Drawn(r)
    <2>. DEFINE a == [q EXCEPT !.pc = "cut"]
    <2>1. /\ a \in Request /\ a.pc = "cut" /\ a.surface = q.surface /\ a.verdict = "none"
      BY <1>1, <1>11 DEF Drawn, Request, SlotPCs, VerdictOK
    <2>2. reqs'[r] = a \/ reqs'[r] = [a EXCEPT !.slot = "unclean"]
      <3>1. Settle(r, "unclean", a)
        BY <1>11 DEF Drawn
      <3>. HIDE DEF a
      <3>. QED BY <3>1, SettledRequest
    <2>. QED BY <1>1, <2>1, <2>2 DEF VerdictOK, Request
  <1>12. ASSUME NEW retryAfter \in RetryAfters, CutOn429(r, retryAfter)
         PROVE  VerdictOK(reqs'[r])
    BY <1>1, <1>12 DEF CutOn429, Request, VerdictOK
  <1>13. ASSUME NEW forwarded \in BOOLEAN, DropRefusal(r, forwarded)
         PROVE  VerdictOK(reqs'[r])
    BY <1>3, <1>13, LeavesFresh DEF DropRefusal
  <1>14. CASE Dispatch(r)
    BY <1>1, <1>14 DEF Dispatch, Request, VerdictOK
  <1>15. CASE BodyEOF(r) \/ BodyClosed(r)
    <2>1. CASE q.surface \in Chat
      <3>1. (q.onEOF /\ ~q.hold) = FALSE
        BY <1>1, <1>15, <2>1 DEF BodyEOF, BodyClosed, VerdictOK, Chat
      <3>2. PICK body \in {"eof", "closed"} :
                reqs' = [reqs EXCEPT ![r] = [q EXCEPT !.body = body]]
        BY <1>1, <1>15, <2>1, <3>1 DEF BodyEOF, BodyClosed, VerdictOK, Chat
      <3>. QED BY <1>1, <3>2 DEF Request, VerdictOK
    <2>2. CASE q.surface \notin Chat
      <3>. DEFINE a == [q EXCEPT !.body = "eof"]
      <3>1. BodyEOF(r)
        BY <1>15, <2>2 DEF BodyClosed, Chat
      <3>2. /\ a \in Request /\ a.pc = "reading" /\ a.surface = q.surface
            /\ a.verdict = "none"
        BY <1>1, <3>1 DEF BodyEOF, Request, VerdictOK
      <3>3. reqs'[r] = a \/ \E o \in {"clean", "unclean"} : reqs'[r] = [a EXCEPT !.slot = o]
        <4>1. reqs'[r] = a \/ Settle(r, ByStatus(q), a)
          BY <3>1 DEF BodyEOF
        <4>2. ByStatus(q) \in {"clean", "unclean"}
          BY DEF ByStatus
        <4>. HIDE DEF a
        <4>. QED BY <4>1, <4>2, SettledRequest
      <3>. HIDE DEF a
      <3>. QED BY <2>2, <3>2, <3>3 DEF Request, VerdictOK, Chat
    <2>. QED BY <2>1, <2>2
  <1>16. ASSUME NEW verdict \in Verdicts \ {"none"}, Judge(r, verdict)
         PROVE  VerdictOK(reqs'[r])
    BY <1>1, <1>16 DEF Judge, Request, VerdictOK
  <1>17. CASE JudgedSettles(r)
    <2>. DEFINE a == [q EXCEPT !.pc = "over"]
                o == OutcomeOf(q.verdict)
    <2>1. /\ a \in Request /\ a.pc = "over" /\ a.surface = q.surface /\ a.slot # "clean"
          /\ a.verdict = q.verdict
      BY <1>1, <1>17 DEF JudgedSettles, Request, SlotPCs, VerdictOK, Chat
    <2>2. reqs'[r] = a \/ reqs'[r] = [a EXCEPT !.slot = o]
      <3>1. Settle(r, o, a)
        BY <1>17 DEF JudgedSettles
      <3>. HIDE DEF a, o
      <3>. QED BY <3>1, SettledRequest
    <2>3. o = "clean" => q.verdict = "served"
      BY DEF OutcomeOf
    <2>. HIDE DEF o, a
    <2>. QED BY <1>1, <2>1, <2>2, <2>3 DEF VerdictOK, Request
  <1>18. ASSUME NEW rejected \in BOOLEAN, PassthroughSettles(r, rejected)
         PROVE  VerdictOK(reqs'[r])
    <2>. DEFINE a == [q EXCEPT !.pc = "over"]
                o == IF rejected THEN OutcomeOf(q.verdict) ELSE ByStatus(q)
    <2>1. a \in Request /\ a.pc = "over" /\ a.surface \notin Chat
      BY <1>1, <1>18 DEF PassthroughSettles, Request, SlotPCs, Chat
    <2>2. reqs'[r] = a \/ reqs'[r] = [a EXCEPT !.slot = o]
      <3>1. Settle(r, o, a)
        BY <1>18 DEF PassthroughSettles
      <3>. HIDE DEF a, o
      <3>. QED BY <3>1, SettledRequest
    <2>. HIDE DEF a, o
    <2>. QED BY <2>1, <2>2 DEF VerdictOK, Request
  <1>19. ASSUME NEW failover \in BOOLEAN, Leave(r, failover)
         PROVE  VerdictOK(reqs'[r])
    BY <1>2, <1>19, LeavesFresh DEF Leave
  <1>. QED BY <1>4, <1>5, <1>6, <1>7, <1>8, <1>9, <1>10, <1>11, <1>12, <1>13, <1>14, <1>15,
              <1>16, <1>17, <1>18, <1>19 DEF RequestStep

LEMMA CleanInductive == IInv /\ CleansOK /\ [Next]_vars => CleansOK'
  <1>. SUFFICES ASSUME IInv, CleansOK, [Next]_vars, NEW x \in Requests
                PROVE  CleanOK(reqs'[x])
    BY DEF CleansOK
  <1>1. reqs \in [Requests -> Request] /\ CleanOK(reqs[x])
    BY DEF IInv, TypeOK, CleansOK
  <1>2. CASE Tick \/ UNCHANGED vars
    BY <1>1, <1>2 DEF Tick, vars
  <1>3. ASSUME NEW r \in Requests, RequestStep(r) PROVE CleanOK(reqs'[x])
    BY <1>1, <1>3, CleanKept, OthersStay
  <1>. QED BY <1>2, <1>3, NextIsAStep

LEMMA VerdictInductive ==
    IInv /\ VerdictsOK /\ [Next]_vars => VerdictsOK'
  <1>. SUFFICES ASSUME IInv, VerdictsOK, [Next]_vars, NEW x \in Requests
                PROVE  VerdictOK(reqs'[x])
    BY DEF VerdictsOK
  <1>1. reqs \in [Requests -> Request] /\ VerdictOK(reqs[x])
    BY DEF IInv, TypeOK, VerdictsOK
  <1>2. CASE Tick \/ UNCHANGED vars
    BY <1>1, <1>2 DEF Tick, vars
  <1>3. ASSUME NEW r \in Requests, RequestStep(r) PROVE VerdictOK(reqs'[x])
    BY <1>1, <1>3, VerdictKept, OthersStay
  <1>. QED BY <1>2, <1>3, NextIsAStep

(* Whatever the other requests ask for, a chat completion counts towards   *)
(* growing a window only if its answer was served, whatever goroutine ends *)
(* its body and whenever (holdVerdict, holdSlotForVerdict, slotOutcome).   *)
ChatCleanIsServed ==
    \A r \in Requests :
        (reqs[r].surface \in Chat /\ reqs[r].slot = "clean" /\ reqs[r].verdict # "none")
            => reqs[r].verdict = "served"

(* A chat answer that is charged to the breaker, empty or abandoned never  *)
(* counts towards growing a window, in any mix of surfaces: what           *)
(* CleanMeansServed gives up is pass-through answers only (slotOutcome).   *)
THEOREM ChatCleanAlwaysServed == Spec => []ChatCleanIsServed
  <1>1. Init => VerdictsOK
    BY DEF Init, VerdictsOK, VerdictOK, Idle
  <1>2. IInv /\ VerdictsOK => ChatCleanIsServed
    BY DEF VerdictsOK, VerdictOK, ChatCleanIsServed, IInv, TypeOK, Request
  <1>3. IInv /\ VerdictsOK /\ [Next]_vars => VerdictsOK'
    BY VerdictInductive
  <1>. QED BY <1>1, <1>2, <1>3, Inductive, PTL DEF Spec

(* A request keeps the surface it arrived on; an idle one reads "stream". *)
AskedChat == \A r \in Requests : reqs[r].surface \in Chat

LEMMA SurfaceKept ==
    ASSUME OnlyChat, reqs \in [Requests -> Request], AskedChat, NEW r \in Requests,
           RequestStep(r)
    PROVE  reqs'[r].surface \in Chat
  <1>. DEFINE q == reqs[r]
  <1>1. q \in Request /\ q.surface \in Chat
    BY DEF AskedChat
  <1>2. ASSUME NEW a, Fresh(a, q) PROVE a.surface \in Chat
    BY <1>1, <1>2 DEF Fresh, Chat
  <1>3. ASSUME NEW o, NEW after, after \in Request, Settle(r, o, after),
               after.surface \in Chat
        PROVE  reqs'[r].surface \in Chat
    <2>1. reqs'[r] = after \/ reqs'[r] = [after EXCEPT !.slot = o]
      BY <1>3, SettledRequest
    <2>. QED BY <1>3, <2>1 DEF Request
  <1>4. ASSUME NEW o, NEW after, Settle(r, o, after), Fresh(after, q)
        PROVE  reqs'[r].surface \in Chat
    <2>1. reqs'[r] = after
      BY <1>4, SettledRequest DEF Fresh
    <2>. QED BY <1>2, <1>4, <2>1
  <1>5. ASSUME NEW surface \in Surfaces[r], Arrive(r, surface)
        PROVE  reqs'[r].surface \in Chat
    BY <1>5 DEF Arrive, Idle, OnlyChat
  <1>6. CASE \/ Admitted(r) \/ Check(r) \/ Snapshot(r) \/ Wake(r) \/ Dispatch(r)
             \/ \E verdict \in Verdicts \ {"none"} : Judge(r, verdict)
             \/ \E retryAfter \in RetryAfters : CutOn429(r, retryAfter)
             \/ \E status \in {"ok", "saturated", "error"}, full \in BOOLEAN :
                    Answered(r, status, full)
    <2>1. CASE Admitted(r)
      BY <1>1, <2>1 DEF Admitted, Request
    <2>2. CASE Check(r)
      BY <1>1, <2>2 DEF Check, Request
    <2>3. CASE Snapshot(r) \/ Wake(r)
      BY <1>1, <2>3 DEF Snapshot, Wake, Request
    <2>4. CASE Dispatch(r)
      BY <1>1, <2>4 DEF Dispatch, Request
    <2>5. ASSUME NEW verdict \in Verdicts \ {"none"}, Judge(r, verdict)
          PROVE  reqs'[r].surface \in Chat
      BY <1>1, <2>5 DEF Judge, Request
    <2>6. ASSUME NEW retryAfter \in RetryAfters, CutOn429(r, retryAfter)
          PROVE  reqs'[r].surface \in Chat
      BY <1>1, <2>6 DEF CutOn429, Request
    <2>7. ASSUME NEW status \in {"ok", "saturated", "error"}, NEW full \in BOOLEAN,
                 Answered(r, status, full)
          PROVE  reqs'[r].surface \in Chat
      BY <1>1, <2>7 DEF Answered, Request
    <2>. QED BY <1>6, <2>1, <2>2, <2>3, <2>4, <2>5, <2>6, <2>7
  <1>7. CASE Busy(r)
    <2>1. NextCandidate(q, q.busy \cup {q.at}).surface \in Chat
      BY <1>2, LeavesFresh
    <2>. QED BY <1>1, <1>7, <2>1 DEF Busy, Request
  <1>8. CASE Expire(r)
    BY <1>8 DEF Expire, Idle, Chat
  <1>9. CASE \/ \E how \in {"skipped", "failed", "ended"} : SendFails(r, how)
             \/ \E forwarded \in BOOLEAN : DropRefusal(r, forwarded)
    BY <1>4, <1>9, LeavesFresh DEF SendFails, DropRefusal
  <1>10. CASE \/ Drawn(r) \/ JudgedSettles(r)
              \/ \E rejected \in BOOLEAN : PassthroughSettles(r, rejected)
    <2>1. \A pc \in SlotPCs : LET a == [q EXCEPT !.pc = pc]
                               IN  a \in Request /\ a.surface \in Chat
      BY <1>1 DEF Request
    <2>. QED BY <1>3, <1>10, <2>1 DEF Drawn, JudgedSettles, PassthroughSettles, SlotPCs
  <1>11. CASE BodyEOF(r) \/ BodyClosed(r)
    <2>1. \A b \in {"eof", "closed"} : LET a == [q EXCEPT !.body = b]
                                       IN  a \in Request /\ a.surface \in Chat
      BY <1>1 DEF Request
    <2>. QED BY <1>1, <1>3, <1>11, <2>1 DEF BodyEOF, BodyClosed
  <1>12. ASSUME NEW failover \in BOOLEAN, Leave(r, failover)
         PROVE  reqs'[r].surface \in Chat
    BY <1>2, <1>12, LeavesFresh DEF Leave
  <1>. QED BY <1>5, <1>6, <1>7, <1>8, <1>9, <1>10, <1>11, <1>12 DEF RequestStep

(* Where every request is a chat completion, only an answer that was       *)
(* served counts towards growing a window, whatever goroutine ends its     *)
(* body and whenever (holdVerdict, holdSlotForVerdict, slotOutcome).       *)
THEOREM OnlyServedIsClean ==
    ASSUME OnlyChat
    PROVE  Spec => []CleanMeansServed
  <1>1. Init => AskedChat
    BY DEF Init, AskedChat, Idle, Chat
  <1>2. IInv /\ AskedChat /\ [Next]_vars => AskedChat'
    <2>. SUFFICES ASSUME IInv, AskedChat, [Next]_vars, NEW x \in Requests
                  PROVE  reqs'[x].surface \in Chat
      BY DEF AskedChat
    <2>1. reqs \in [Requests -> Request] /\ reqs[x].surface \in Chat
      BY DEF IInv, TypeOK, AskedChat
    <2>2. CASE Tick \/ UNCHANGED vars
      BY <2>1, <2>2 DEF Tick, vars
    <2>3. ASSUME NEW r \in Requests, RequestStep(r) PROVE reqs'[x].surface \in Chat
      BY <2>1, <2>3, SurfaceKept, OthersStay
    <2>. QED BY <2>2, <2>3, NextIsAStep
  <1>3. AskedChat /\ ChatCleanIsServed => CleanMeansServed
    BY DEF AskedChat, ChatCleanIsServed, CleanMeansServed
  <1>. QED BY <1>1, <1>2, <1>3, Inductive, ChatCleanAlwaysServed, PTL DEF Spec

(* What a release does to a learned allowance. *)
LEMMA ReleaseLimit ==
    ASSUME NEW w \in Window, NEW o, w.limit > 0, Release(w, o).limit # w.limit
    PROVE  \/ w.sinceCut >= ForgetAfter
           \/ o \notin {"unclean", "neutral"} /\ Release(w, o).limit = w.limit + 1
  <1>. DEFINE n == IF w.inflight > 0 THEN w.inflight - 1 ELSE 0
              freed == [w EXCEPT !.inflight = n]
  <1>1. /\ freed.limit = w.limit
        /\ [freed EXCEPT !.goodRuns = 0].limit = w.limit
        /\ [freed EXCEPT !.goodRuns = @ + 1].limit = w.limit
        /\ [freed EXCEPT !.goodRuns = 0,
                         !.limit = IF @ < MaxLimit THEN @ + 1 ELSE @].limit \in
              {w.limit, w.limit + 1}
    BY DEF Window
  <1>. QED BY <1>1 DEF Release, Window

(* The settle of a request is the one way a window is released. *)
LEMMA SettleWidens ==
    ASSUME IInv, NEW r \in Requests, reqs[r].at \in Providers, NEW o, NEW after, Settle(r, o, after),
           o \notin {"unclean", "neutral"} =>
               reqs[r].clean /\ reqs[r].pc \in {"reading", "judged"},
           NEW p \in Providers, windows[p].limit > 0, windows'[p].limit # windows[p].limit
    PROVE  \/ windows[p].sinceCut >= ForgetAfter
           \/ /\ windows'[p].limit = windows[p].limit + 1
              /\ \E x \in Holders(p) : reqs[x].clean /\ reqs[x].pc \in {"reading", "judged"}
  <1>1. windows \in [Providers -> Window]
    BY DEF IInv, TypeOK
  <1>2. reqs[r].slot = "held" /\ windows' = [windows EXCEPT ![reqs[r].at] = Release(@, o)]
    BY DEF Settle
  <1>3. p = reqs[r].at /\ windows'[p] = Release(windows[p], o)
    BY <1>1, <1>2
  <1>4. r \in Holders(p)
    BY <1>2, <1>3 DEF Holders, Holds
  <1>. QED BY <1>1, <1>3, <1>4, ReleaseLimit

(* A learned allowance widens only by one step on a clean completion of an *)
(* attempt that holds a slot, or after the quiet stretch, however many     *)
(* attempts end at once and whatever they end with (release, cut,          *)
(* hintFull).                                                              *)
THEOREM WideningNeedsEvidence == Spec => WidensOnEvidence
  <1>. DEFINE Evidence(p) ==
          \/ windows'[p].limit \in 1..(windows[p].limit - 1)
          \/ windows[p].sinceCut >= ForgetAfter
          \/ /\ windows'[p].limit = windows[p].limit + 1
             /\ \E r \in Holders(p) : reqs[r].clean /\ reqs[r].pc \in {"reading", "judged"}
              Widens(p) == windows[p].limit > 0 /\ windows'[p].limit # windows[p].limit
                              => Evidence(p)
  <1>1. ASSUME IInv, CleansOK, NEW r \in Requests, RequestStep(r), NEW p \in Providers,
               windows[p].limit > 0, windows'[p].limit # windows[p].limit
        PROVE  Evidence(p)
    <2>. DEFINE q == reqs[r]
    <2>1. /\ windows \in [Providers -> Window] /\ q \in Request /\ CleanOK(q)
          /\ q.pc # "checking" => q.at \in Providers
      BY <1>1 DEF IInv, TypeOK, CleansOK, ReqsOK, ReqOK
    <2>2. ASSUME NEW o, NEW after, Settle(r, o, after), q.pc # "checking",
                 o \notin {"unclean", "neutral"} => q.clean /\ q.pc \in {"reading", "judged"}
          PROVE  Evidence(p)
      BY <1>1, <2>1, <2>2, SettleWidens
    <2>3. CASE \/ \E surface \in Surfaces[r] : Arrive(r, surface)
               \/ Busy(r) \/ Snapshot(r) \/ Check(r) \/ Wake(r) \/ Expire(r)
               \/ Dispatch(r) \/ \E verdict \in Verdicts \ {"none"} : Judge(r, verdict)
               \/ \E failover \in BOOLEAN : Leave(r, failover)
      BY <1>1, <2>3 DEF Arrive, Busy, Snapshot, Check, Wake, Expire, Dispatch, Judge, Leave
    <2>4. CASE Admitted(r)
      BY <1>1, <2>1, <2>4 DEF Admitted, Window
    <2>5. ASSUME NEW how \in {"skipped", "failed", "ended"}, SendFails(r, how)
          PROVE  Evidence(p)
      BY <2>2, <2>5 DEF SendFails
    <2>6. CASE Drawn(r)
      BY <2>2, <2>6 DEF Drawn
    <2>7. ASSUME NEW forwarded \in BOOLEAN, DropRefusal(r, forwarded) PROVE Evidence(p)
      <3>1. ByStatus(q) = "unclean"
        BY <2>1, <2>7 DEF DropRefusal, ByStatus, CleanOK
      <3>. QED BY <2>2, <2>7, <3>1 DEF DropRefusal
    <2>8. CASE BodyEOF(r) \/ BodyClosed(r)
      <3>1. q.pc = "reading" /\ q.clean
        BY <2>1, <2>8 DEF BodyEOF, BodyClosed, CleanOK
      <3>2. (\E after : Settle(r, ByStatus(q), after)) \/ windows' = windows
        BY <2>8 DEF BodyEOF, BodyClosed
      <3>. QED BY <1>1, <2>2, <3>1, <3>2
    <2>9. CASE JudgedSettles(r) \/ \E rejected \in BOOLEAN : PassthroughSettles(r, rejected)
      <3>1. q.pc = "judged" /\ q.clean
        BY <2>1, <2>9 DEF JudgedSettles, PassthroughSettles, CleanOK
      <3>2. \E o, after : Settle(r, o, after)
        BY <2>9, Zenon DEF JudgedSettles, PassthroughSettles
      <3>. QED BY <2>2, <3>1, <3>2
    <2>10. ASSUME NEW w \in Window, w.limit > 0, Capped(w) # w.limit
           PROVE  Capped(w) \in 1..(w.limit - 1)
      BY <2>10 DEF Capped, Window
    <2>11. ASSUME NEW status \in {"ok", "saturated", "error"}, NEW full \in BOOLEAN,
                  Answered(r, status, full)
           PROVE  Evidence(p)
      <3>1. q.at \in Providers /\ p = q.at /\ windows'[p] = HintFull(windows[p])
        BY <1>1, <2>1, <2>11 DEF Answered
      <3>2. windows'[p].limit = Capped(windows[p])
        BY <1>1, <2>1, <3>1 DEF HintFull, Window
      <3>. QED BY <1>1, <2>1, <2>10, <3>2
    <2>12. ASSUME NEW retryAfter \in RetryAfters, CutOn429(r, retryAfter)
           PROVE  Evidence(p)
      <3>1. q.at \in Providers /\ p = q.at /\ windows'[p] = Cut(windows[p], retryAfter)
        BY <1>1, <2>1, <2>12 DEF CutOn429
      <3>2. windows'[p].limit = Capped(windows[p])
        BY <1>1, <2>1, <3>1 DEF Cut, Window
      <3>. QED BY <1>1, <2>1, <2>10, <3>2
    <2>. HIDE DEF Evidence
    <2>. QED BY <1>1, <2>3, <2>4, <2>5, <2>6, <2>7, <2>8, <2>9, <2>11, <2>12 DEF RequestStep
  <1>2. ASSUME IInv, Tick, NEW p \in Providers
        PROVE  windows'[p].limit = windows[p].limit
    BY <1>2 DEF Tick, IInv, TypeOK, Window
  <1>3. ASSUME IInv, CleansOK, Next, NEW p \in Providers PROVE Widens(p)
    <2>. HIDE DEF Evidence
    <2>. QED BY <1>1, <1>2, <1>3, NextIsAStep
  <1>4. IInv /\ CleansOK /\ [Next]_vars => [\A p \in Providers : Widens(p)]_vars
    BY <1>3
  <1>5. Init => CleansOK
    BY DEF Init, CleansOK, CleanOK, Idle
  <1>. QED BY <1>4, <1>5, CleanInductive, Inductive, PTL DEF Spec, WidensOnEvidence

-----------------------------------------------------------------------------
(***************************************************************************)
(* The limiter implements the pools of slots.                              *)
(***************************************************************************)

(* A request that moves joins or leaves the holders as its slot says. *)
LEMMA HoldersMove ==
    ASSUME reqs \in [Requests -> Request], NEW r \in Requests, NEW after,
           reqs' = [reqs EXCEPT ![r] = after], NEW p
    PROVE  Holders(p)' = IF after.at = p /\ after.slot = "held"
                         THEN Holders(p) \cup {r} ELSE Holders(p) \ {r}
  <1>1. reqs'[r] = after /\ \A x \in Requests \ {r} : reqs'[x] = reqs[x]
    OBVIOUS
  <1>. QED BY <1>1 DEF Holders, Holds

(* Where no slot changes hands and no allowance moves, the pools rest. *)
LEMMA PoolsRest ==
    ASSUME \A p \in Providers : Holders(p)' = Holders(p),
           \A p \in Providers : windows'[p].limit = windows[p].limit
    PROVE  UNCHANGED Pool!vars
  <1>1. [p \in Providers |-> Holders(p)]' = [p \in Providers |-> Holders(p)]
    BY Zenon
  <1>2. [p \in Providers |-> windows[p].limit]' = [p \in Providers |-> windows[p].limit]
    BY Zenon
  <1>. QED BY <1>1, <1>2 DEF Pool!vars

(* A request keeps the slot it holds, or holds none before and after. *)
SlotStays(a, q) == (a.slot # "held" /\ q.slot # "held") \/ SameSlot(a, q)

LEMMA HoldersStay ==
    ASSUME reqs \in [Requests -> Request], NEW r \in Requests, NEW after,
           reqs' = [reqs EXCEPT ![r] = after], SlotStays(after, reqs[r]), NEW p
    PROVE  Holders(p)' = Holders(p)
  <1>1. r \in Holders(p) <=> after.at = p /\ after.slot = "held"
    BY DEF SlotStays, SameSlot, Holders, Holds
  <1>2. Holders(p)' = IF after.at = p /\ after.slot = "held"
                      THEN Holders(p) \cup {r} ELSE Holders(p) \ {r}
    BY HoldersMove
  <1>. QED BY <1>1, <1>2

(* The walk, the wait, and an attempt between its settlements. *)
LEMMA WalkRests ==
    ASSUME IInv, NEW r \in Requests,
           \/ \E surface \in Surfaces[r] : Arrive(r, surface)
           \/ Busy(r) \/ Snapshot(r) \/ Check(r) \/ Wake(r) \/ Expire(r)
           \/ Dispatch(r) \/ \E verdict \in Verdicts \ {"none"} : Judge(r, verdict)
           \/ \E failover \in BOOLEAN : Leave(r, failover)
    PROVE  UNCHANGED Pool!vars
  <1>. DEFINE q == reqs[r]
  <1>1. /\ ReqOK(q) /\ SettledOK(q) /\ q \in Request /\ reqs \in [Requests -> Request]
    BY DEF IInv, ReqsOK, ReqOK, TypeOK
  <1>2. windows' = windows
    BY DEF Arrive, Busy, Snapshot, Check, Wake, Expire, Dispatch, Judge, Leave
  <1>3. SUFFICES ASSUME NEW after, reqs' = [reqs EXCEPT ![r] = after], SlotStays(after, q)
                 PROVE  UNCHANGED Pool!vars
    <2>1. ASSUME NEW b PROVE NextCandidate(q, b).slot = "none" /\ FailedOver(q).slot = "none"
      BY LeavesFresh DEF Fresh
    <2>2. \A surface : [Idle EXCEPT !.pc = "walk", !.surface = surface].slot = "none"
      BY DEF Idle
    <2>3. Idle.slot = "none"
      BY DEF Idle
    <2>4. CASE q.pc \notin SlotPCs \/ q.pc = "over"
      <3>1. q.slot # "held"
        BY <1>1, <2>4 DEF ReqOK, SettledOK
      <3>2. \A x, y : /\ [q EXCEPT !.pc = x].slot = q.slot
                      /\ [q EXCEPT !.at = y].slot = q.slot
                      /\ [q EXCEPT !.pc = x, !.at = y].slot = q.slot
        BY <1>1 DEF Request
      <3>3. \E after : reqs' = [reqs EXCEPT ![r] = after] /\ after.slot # "held"
        <4>1. CASE \E surface \in Surfaces[r] : Arrive(r, surface)
          BY <2>2, <4>1, Zenon DEF Arrive
        <4>2. CASE Busy(r)
          <5>. DEFINE a == IF q.waited THEN [q EXCEPT !.pc = "wait", !.at = 1]
                           ELSE NextCandidate(q, q.busy \cup {q.at})
          <5>1. a.slot # "held"
            BY <2>1, <3>1, <3>2, Zenon
          <5>2. reqs' = [reqs EXCEPT ![r] = a]
            BY <4>2 DEF Busy
          <5>. QED BY <5>1, <5>2, Zenon
        <4>3. CASE Snapshot(r)
          <5>. DEFINE a == [q EXCEPT !.pc = "checking", !.at = 1]
          <5>1. a.slot # "held"
            BY <3>1, <3>2, Zenon
          <5>2. reqs' = [reqs EXCEPT ![r] = a]
            BY <4>3 DEF Snapshot
          <5>. QED BY <5>1, <5>2, Zenon
        <4>4. CASE Check(r)
          <5>. DEFINE a == IF q.at > NumProviders THEN [q EXCEPT !.pc = "asleep", !.at = 1]
                           ELSE IF q.at \in q.busy /\ CanAdmit(windows[q.at], Ceiling[q.at])
                           THEN [q EXCEPT !.pc = "retry"]
                           ELSE [q EXCEPT !.at = q.at + 1]
          <5>1. a.slot # "held"
            BY <3>1, <3>2, Zenon
          <5>2. reqs' = [reqs EXCEPT ![r] = a]
            BY <4>4 DEF Check
          <5>. QED BY <5>1, <5>2, Zenon
        <4>5. CASE Wake(r)
          BY <3>1, <3>2, <4>5 DEF Wake
        <4>6. CASE Expire(r)
          BY <2>3, <4>6 DEF Expire
        <4>7. CASE \E failover \in BOOLEAN : Leave(r, failover)
          BY <2>1, <2>3, <4>7 DEF Leave
        <4>8. ~Dispatch(r) /\ ~(\E verdict \in Verdicts \ {"none"} : Judge(r, verdict))
          BY <2>4 DEF Dispatch, Judge, SlotPCs
        <4>. QED BY <4>1, <4>2, <4>3, <4>4, <4>5, <4>6, <4>7, <4>8
      <3>. QED BY <1>3, <3>1, <3>3 DEF SlotStays
    <2>5. CASE ~(q.pc \notin SlotPCs \/ q.pc = "over")
      <3>1. Dispatch(r) \/ \E verdict \in Verdicts \ {"none"} : Judge(r, verdict)
        BY <2>5 DEF Arrive, Busy, Snapshot, Check, Wake, Expire, Leave, SlotPCs
      <3>2. CASE Dispatch(r)
        <4>. DEFINE a == [q EXCEPT !.pc = "reading", !.hold = (q.surface = "stream"),
                                   !.onEOF = q.surface \notin {"buffered", "passthrough"}]
        <4>1. SameSlot(a, q)
          BY <1>1 DEF SameSlot, Request
        <4>2. reqs' = [reqs EXCEPT ![r] = a]
          BY <3>2 DEF Dispatch
        <4>. HIDE DEF a
        <4>. QED BY <1>3, <4>1, <4>2 DEF SlotStays
      <3>3. ASSUME NEW verdict \in Verdicts \ {"none"}, Judge(r, verdict)
            PROVE  UNCHANGED Pool!vars
        <4>. DEFINE a == [q EXCEPT !.pc = "judged", !.verdict = verdict]
        <4>1. SameSlot(a, q)
          BY <1>1 DEF SameSlot, Request
        <4>2. reqs' = [reqs EXCEPT ![r] = a]
          BY <3>3 DEF Judge
        <4>. HIDE DEF a
        <4>. QED BY <1>3, <4>1, <4>2 DEF SlotStays
      <3>. QED BY <3>1, <3>2, <3>3
    <2>. QED BY <2>4, <2>5
  <1>4. \A p \in Providers : Holders(p)' = Holders(p)
    BY <1>1, <1>3, HoldersStay
  <1>. QED BY <1>2, <1>4, PoolsRest

(* What a release teaches about the allowance: nothing, one more, or       *)
(* that there is none.                                                     *)
LEMMA ReleaseTeaches ==
    ASSUME NEW w \in Window, NEW o, Release(w, o).limit # w.limit
    PROVE  w.limit > 0 /\ Release(w, o).limit \in {0, w.limit + 1}
  <1>. DEFINE n == IF w.inflight > 0 THEN w.inflight - 1 ELSE 0
              freed == [w EXCEPT !.inflight = n]
  <1>1. /\ freed.limit = w.limit
        /\ Forgotten(freed).limit = 0
        /\ [freed EXCEPT !.goodRuns = 0].limit = w.limit
        /\ [freed EXCEPT !.goodRuns = @ + 1].limit = w.limit
        /\ [freed EXCEPT !.goodRuns = 0,
                         !.limit = IF @ < MaxLimit THEN @ + 1 ELSE @].limit \in
              {w.limit, w.limit + 1}
    BY DEF Window, Forgotten
  <1>. QED BY <1>1 DEF Release, Window

(* The first settle of an attempt gives its slot back; a later one finds   *)
(* nothing to give.                                                        *)
LEMMA SettleGivesBack ==
    ASSUME IInv, NEW r \in Requests, reqs[r].at \in Providers, NEW o \in Outcomes, NEW after,
           after.slot # "held" \/ (after \in Request /\ SameSlot(after, reqs[r])),
           Settle(r, o, after)
    PROVE  [Pool!Next]_(Pool!vars)
  <1>. PICK p \in Providers : p = reqs[r].at
    OBVIOUS
  <1>. DEFINE end == IF reqs[r].slot = "held" /\ after.slot = "held"
                     THEN [after EXCEPT !.slot = o] ELSE after
  <1>1. windows \in [Providers -> Window] /\ reqs \in [Requests -> Request]
    BY DEF IInv, TypeOK
  <1>2. reqs' = [reqs EXCEPT ![r] = end]
    BY DEF Settle
  <1>3. CASE ~Holds(r)
    <2>1. SlotStays(end, reqs[r])
      BY <1>3 DEF SlotStays, SameSlot, Holds
    <2>2. windows' = windows
      BY <1>3 DEF Settle, Holds
    <2>. HIDE DEF end
    <2>3. \A x \in Providers : Holders(x)' = Holders(x)
      BY <1>1, <1>2, <2>1, HoldersStay
    <2>4. UNCHANGED Pool!vars
      BY <2>2, <2>3, PoolsRest
    <2>. QED BY <2>4
  <1>4. CASE Holds(r)
    <2>1. end.slot # "held"
      BY <1>4 DEF Holds, Request, Outcomes
    <2>2. windows' = [windows EXCEPT ![p] = Release(@, o)]
      BY <1>4 DEF Settle, Holds
    <2>. HIDE DEF end
    <2>3. \A x \in Providers : Holders(x)' = Holders(x) \ {r}
      BY <1>1, <1>2, <2>1, HoldersMove
    <2>4. r \in Holders(p) /\ \A x \in Providers \ {p} : r \notin Holders(x)
      BY <1>4 DEF Holders
    <2>5. [x \in Providers |-> Holders(x)]' =
             [[x \in Providers |-> Holders(x)] EXCEPT ![p] = @ \ {r}]
      <3>1. \A x \in Providers : Holders(x)' = IF x = p THEN Holders(x) \ {r} ELSE Holders(x)
        <4>1. \A x \in Providers \ {p} : Holders(x) \ {r} = Holders(x)
          BY <2>4
        <4>. QED BY <2>3, <4>1
      <3>. QED BY <3>1
    <2>6. \A x \in Providers \ {p} : windows'[x].limit = windows[x].limit
      BY <1>1, <2>2
    <2>7. windows[p] \in Window /\ windows'[p] = Release(windows[p], o)
      BY <1>1, <2>2
    <2>8. CASE windows'[p].limit = windows[p].limit
      <3>1. [x \in Providers |-> windows[x].limit]' = [x \in Providers |-> windows[x].limit]
        BY <2>6, <2>8
      <3>2. Pool!GiveBack(r, p)
        BY <2>4, <2>5, <3>1 DEF Pool!GiveBack
      <3>. QED BY <3>2 DEF Pool!Next
    <2>9. CASE windows'[p].limit # windows[p].limit
      <3>1. windows[p].limit > 0 /\ windows'[p].limit \in {0, windows[p].limit + 1}
        BY <2>7, <2>9, ReleaseTeaches
      <3>2. [x \in Providers |-> windows[x].limit]' =
               [[x \in Providers |-> windows[x].limit] EXCEPT ![p] = windows'[p].limit]
        BY <2>6
      <3>3. Pool!GiveBack(r, p)
        BY <2>4, <2>5, <3>1, <3>2 DEF Pool!GiveBack
      <3>. QED BY <3>3 DEF Pool!Next
    <2>. QED BY <2>8, <2>9
  <1>. QED BY <1>3, <1>4

(* Every way an attempt ends, or its body does. *)
LEMMA EndingsRefine ==
    ASSUME IInv, NEW r \in Requests,
           \/ \E how \in {"skipped", "failed", "ended"} : SendFails(r, how)
           \/ Drawn(r) \/ BodyEOF(r) \/ BodyClosed(r) \/ JudgedSettles(r)
           \/ \E forwarded \in BOOLEAN : DropRefusal(r, forwarded)
           \/ \E rejected \in BOOLEAN : PassthroughSettles(r, rejected)
    PROVE  [Pool!Next]_(Pool!vars)
  <1>. DEFINE q == reqs[r]
  <1>1. ReqOK(q) /\ q \in Request /\ reqs \in [Requests -> Request]
    BY DEF IInv, ReqsOK, ReqOK, TypeOK
  <1>2. q.at \in Providers
    BY <1>1 DEF SendFails, Drawn, BodyEOF, BodyClosed, JudgedSettles, DropRefusal,
                PassthroughSettles, ReqOK
  <1>3. ByStatus(q) \in Outcomes /\ OutcomeOf(q.verdict) \in Outcomes
        /\ "unclean" \in Outcomes /\ "neutral" \in Outcomes
    BY DEF ByStatus, OutcomeOf, Outcomes
  <1>4. Idle.slot = "none" /\ FailedOver(q).slot = "none" /\ Skipped(q).slot = "none"
    BY LeavesFresh DEF Fresh
  <1>5. ASSUME NEW pc \in {"cut", "over"}
        PROVE  [q EXCEPT !.pc = pc] \in Request /\ SameSlot([q EXCEPT !.pc = pc], q)
    <2>1. pc \in SlotPCs
      BY DEF SlotPCs
    <2>. QED BY <1>1, <1>2, <2>1, AttemptGoesOn, Zenon DEF ReqOK
  <1>6. ASSUME NEW body \in {"eof", "closed"}
        PROVE  [q EXCEPT !.body = body] \in Request /\ SameSlot([q EXCEPT !.body = body], q)
    <2>1. body \in {"open", "eof", "closed"}
      OBVIOUS
    <2>2. [q EXCEPT !.body = body] \in Request
      BY <1>1, <2>1, RequestFields, Zenon
    <2>3. SameSlot([q EXCEPT !.body = body], q)
      BY <1>1 DEF Request, SameSlot
    <2>. QED BY <2>2, <2>3
  <1>7. ASSUME NEW how \in {"skipped", "failed", "ended"}, SendFails(r, how)
        PROVE  [Pool!Next]_(Pool!vars)
    <2>1. \E o \in Outcomes : \E after : after.slot = "none" /\ Settle(r, o, after)
      BY <1>3, <1>4, <1>7, Zenon DEF SendFails
    <2>. QED BY <1>2, <2>1, SettleGivesBack
  <1>8. CASE Drawn(r)
    BY <1>2, <1>3, <1>5, <1>8, SettleGivesBack DEF Drawn
  <1>9. ASSUME NEW body \in {"eof", "closed"},
               \/ Settle(r, ByStatus(q), [q EXCEPT !.body = body])
               \/ reqs' = [reqs EXCEPT ![r] = [q EXCEPT !.body = body]]
                  /\ UNCHANGED <<windows, signalled>>
        PROVE  [Pool!Next]_(Pool!vars)
    <2>. DEFINE after == [q EXCEPT !.body = body]
    <2>1. after \in Request /\ SameSlot(after, q)
      BY <1>6
    <2>2. \/ Settle(r, ByStatus(q), after)
          \/ reqs' = [reqs EXCEPT ![r] = after] /\ UNCHANGED <<windows, signalled>>
      BY <1>9
    <2>. HIDE DEF after
    <2>3. CASE Settle(r, ByStatus(q), after)
      BY <1>2, <1>3, <2>1, <2>3, SettleGivesBack
    <2>4. CASE reqs' = [reqs EXCEPT ![r] = after] /\ UNCHANGED <<windows, signalled>>
      <3>1. \A x \in Providers : Holders(x)' = Holders(x)
        BY <1>1, <2>1, <2>4, HoldersStay DEF SlotStays
      <3>. QED BY <2>4, <3>1, PoolsRest
    <2>. QED BY <2>2, <2>3, <2>4
  <1>10. CASE BodyEOF(r)
    BY <1>9, <1>10 DEF BodyEOF
  <1>11. CASE BodyClosed(r)
    BY <1>9, <1>11 DEF BodyClosed
  <1>12. CASE JudgedSettles(r)
    BY <1>2, <1>3, <1>5, <1>12, SettleGivesBack DEF JudgedSettles
  <1>13. ASSUME NEW forwarded \in BOOLEAN, DropRefusal(r, forwarded)
         PROVE  [Pool!Next]_(Pool!vars)
    <2>1. \E after : after.slot = "none" /\ Settle(r, ByStatus(q), after)
      BY <1>4, <1>13, Zenon DEF DropRefusal
    <2>. QED BY <1>2, <1>3, <2>1, SettleGivesBack
  <1>14. ASSUME NEW rejected \in BOOLEAN, PassthroughSettles(r, rejected)
         PROVE  [Pool!Next]_(Pool!vars)
    BY <1>2, <1>3, <1>5, <1>14, SettleGivesBack DEF PassthroughSettles
  <1>. QED BY <1>7, <1>8, <1>10, <1>11, <1>12, <1>13, <1>14

(* The load of a pool is the number of its holders. *)
LEMMA PoolLoad ==
    ASSUME NEW p \in Providers
    PROVE  Pool!Load(p) = Cardinality(Holders(p))
  BY DEF Pool!Load, Pool!Cardinality, Cardinality

(* A hint and a cut narrow the allowance to the load that is really there, *)
(* or leave it alone.                                                      *)
LEMMA NarrowingRefines ==
    ASSUME IInv, NEW r \in Requests,
           \/ \E status \in {"ok", "saturated", "error"}, full \in BOOLEAN : Answered(r, status, full)
           \/ \E retryAfter \in RetryAfters : CutOn429(r, retryAfter)
    PROVE  [Pool!Next]_(Pool!vars)
  <1>. DEFINE q == reqs[r]
  <1>1. /\ ReqOK(q) /\ q \in Request /\ reqs \in [Requests -> Request]
        /\ windows \in [Providers -> Window]
    BY DEF IInv, ReqsOK, ReqOK, TypeOK
  <1>2. PICK p \in Providers : p = q.at
    BY <1>1 DEF Answered, CutOn429, ReqOK
  <1>3. \E after : reqs' = [reqs EXCEPT ![r] = after] /\ SameSlot(after, q)
    <2>1. ASSUME NEW status \in {"ok", "saturated", "error"}, NEW full \in BOOLEAN,
                 Answered(r, status, full)
          PROVE  \E after : reqs' = [reqs EXCEPT ![r] = after] /\ SameSlot(after, q)
      <3>. DEFINE a == [q EXCEPT !.pc = IF status = "ok" THEN "answered"
                                        ELSE IF status = "saturated" THEN "drawn"
                                        ELSE "refused",
                                 !.clean = (status = "ok"), !.onEOF = TRUE]
      <3>1. SameSlot(a, q)
        BY <1>1 DEF SameSlot, Request
      <3>2. reqs' = [reqs EXCEPT ![r] = a]
        BY <2>1 DEF Answered
      <3>. HIDE DEF a
      <3>. QED BY <3>1, <3>2
    <2>2. ASSUME NEW retryAfter \in RetryAfters, CutOn429(r, retryAfter)
          PROVE  \E after : reqs' = [reqs EXCEPT ![r] = after] /\ SameSlot(after, q)
      <3>. DEFINE a == [q EXCEPT !.pc = "refused"]
      <3>1. SameSlot(a, q)
        BY <1>1 DEF SameSlot, Request
      <3>2. reqs' = [reqs EXCEPT ![r] = a]
        BY <2>2 DEF CutOn429
      <3>. HIDE DEF a
      <3>. QED BY <3>1, <3>2
    <2>. QED BY <2>1, <2>2
  <1>4. \A x \in Providers : Holders(x)' = Holders(x)
    BY <1>1, <1>3, HoldersStay DEF SlotStays
  <1>5. /\ \A x \in Providers \ {p} : windows'[x].limit = windows[x].limit
        /\ windows'[p].limit \in {windows[p].limit, Capped(windows[p])}
    <2>1. \A n : Cut(windows[p], n).limit = Capped(windows[p])
      BY <1>1 DEF Cut, Window
    <2>2. HintFull(windows[p]).limit = Capped(windows[p])
      BY <1>1 DEF HintFull, Window
    <2>3. ASSUME NEW status, NEW full, Answered(r, status, full)
          PROVE  /\ \A x \in Providers \ {p} : windows'[x] = windows[x]
                 /\ windows'[p] \in {windows[p], HintFull(windows[p])}
      BY <1>1, <1>2, <2>3 DEF Answered
    <2>4. ASSUME NEW retryAfter, CutOn429(r, retryAfter)
          PROVE  /\ \A x \in Providers \ {p} : windows'[x] = windows[x]
                 /\ windows'[p] = Cut(windows[p], retryAfter)
      BY <1>1, <1>2, <2>4 DEF CutOn429
    <2>. QED BY <2>1, <2>2, <2>3, <2>4
  <1>6. CASE windows'[p].limit = windows[p].limit
    BY <1>4, <1>5, <1>6, PoolsRest
  <1>7. CASE windows'[p].limit # windows[p].limit
    <2>. DEFINE load == IF Cardinality(Holders(p)) > 1 THEN Cardinality(Holders(p)) ELSE 1
    <2>1. windows[p].inflight = Cardinality(Holders(p))
      BY DEF IInv, SlotsAccounted
    <2>2. windows'[p].limit = load /\ (windows[p].limit > 0 => load < windows[p].limit)
      BY <1>1, <1>5, <1>7, <2>1 DEF Capped, Window
    <2>3. [x \in Providers |-> windows[x].limit]' =
             [[x \in Providers |-> windows[x].limit] EXCEPT ![p] = load]
      BY <1>5, <2>2
    <2>4. [x \in Providers |-> Holders(x)]' = [x \in Providers |-> Holders(x)]
      BY <1>4, Zenon
    <2>5. [x \in Providers |-> Holders(x)][p] = Holders(p)
          /\ [x \in Providers |-> windows[x].limit][p] = windows[p].limit
      OBVIOUS
    <2>6. Pool!Narrow(p)
      BY <2>2, <2>3, <2>4, <2>5, PoolLoad DEF Pool!Narrow
    <2>. QED BY <2>6 DEF Pool!Next
  <1>. QED BY <1>6, <1>7

(* An admission takes a slot under both limits, counted in holders. *)
LEMMA AdmissionRefines ==
    ASSUME IInv, NEW r \in Requests, Admitted(r)
    PROVE  Pool!Next
  <1>. DEFINE q == reqs[r]
              after == [q EXCEPT !.pc = "sent", !.slot = "held"]
  <1>1. /\ ReqOK(q) /\ q \in Request /\ reqs \in [Requests -> Request]
        /\ windows \in [Providers -> Window] /\ ~Holds(r)
    BY DEF IInv, ReqsOK, ReqOK, TypeOK, Admitted, Holds, SlotPCs
  <1>2. PICK p \in Providers : p = q.at
    BY <1>1 DEF Admitted, ReqOK
  <1>3. reqs' = [reqs EXCEPT ![r] = after] /\ after.slot = "held" /\ after.at = p
    BY <1>1, <1>2 DEF Admitted, Request
  <1>. HIDE DEF after
  <1>4. \A x \in Providers : r \notin Holders(x)
    BY <1>1 DEF Holders
  <1>5. [x \in Providers |-> Holders(x)]' =
           [[x \in Providers |-> Holders(x)] EXCEPT ![p] = @ \cup {r}]
    <2>1. \A x \in Providers : Holders(x)' = IF x = p THEN Holders(x) \cup {r} ELSE Holders(x)
      <3>1. \A x \in Providers : Holders(x)' = IF p = x THEN Holders(x) \cup {r} ELSE Holders(x) \ {r}
        <4>. SUFFICES ASSUME NEW x \in Providers
                      PROVE  Holders(x)' = IF p = x THEN Holders(x) \cup {r} ELSE Holders(x) \ {r}
          OBVIOUS
        <4>1. Holders(x)' = IF after.at = x /\ after.slot = "held"
                            THEN Holders(x) \cup {r} ELSE Holders(x) \ {r}
          BY <1>1, <1>3, HoldersMove
        <4>. QED BY <1>3, <4>1
      <3>2. \A x \in Providers : Holders(x) \ {r} = Holders(x)
        BY <1>4
      <3>. QED BY <3>1, <3>2
    <2>. QED BY <2>1
  <1>6. [x \in Providers |-> windows[x].limit]' = [x \in Providers |-> windows[x].limit]
    <2>1. \A x \in Providers : windows'[x].limit = windows[x].limit
      BY <1>1, <1>2 DEF Admitted, Window
    <2>. QED BY <2>1, Zenon
  <1>7. /\ Ceiling[p] > 0 => Cardinality(Holders(p)) < Ceiling[p]
        /\ windows[p].limit > 0 => Cardinality(Holders(p)) < windows[p].limit
    <2>1. windows[p].inflight = Cardinality(Holders(p))
      BY DEF IInv, SlotsAccounted
    <2>2. CanAdmit(windows[p], Ceiling[p])
      BY <1>2 DEF Admitted
    <2>3. windows[p] \in Window /\ Ceiling[p] \in Nat
      BY <1>1, ProvidersAssumption
    <2>. QED BY <2>1, <2>2, <2>3 DEF CanAdmit, EffectiveLimit, Window
  <1>8. [x \in Providers |-> Holders(x)][p] = Holders(p)
        /\ [x \in Providers |-> windows[x].limit][p] = windows[p].limit
    OBVIOUS
  <1>9. Pool!Acquire(r, p)
    BY <1>4, <1>5, <1>6, <1>7, <1>8, PoolLoad DEF Pool!Acquire
  <1>. QED BY <1>9 DEF Pool!Next

(* The in-flight limiter is a pool of slots per provider, for any number   *)
(* of requests and providers, any settings and any surfaces: a request     *)
(* holds one slot at most and gives it back once to the pool it came from, *)
(* however many of EOF, close, verdict and forced settle it goes through;  *)
(* admissions are judged by the requests that really hold a slot, and an   *)
(* allowance moves only to the load, by one as a slot is given back, or    *)
(* away (tryAcquire, attemptSlot.settle, release, cut, hintFull).          *)
THEOREM LimiterRefinesPool == Spec => PoolSpec
  <1>1. Init => Pool!Init
    <2>. SUFFICES ASSUME Init PROVE Pool!Init
      OBVIOUS
    <2>1. \A p \in Providers : Holders(p) = {} /\ windows[p].limit = 0
      BY DEF Init, Holders, Holds, Idle, NewWindow
    <2>. QED BY <2>1, Zenon DEF Pool!Init
  <1>2. ASSUME IInv, [Next]_vars PROVE [Pool!Next]_(Pool!vars)
    <2>1. ASSUME NEW r \in Requests, RequestStep(r) PROVE [Pool!Next]_(Pool!vars)
      BY <1>2, <2>1, WalkRests, EndingsRefine, NarrowingRefines, AdmissionRefines
      DEF RequestStep
    <2>2. CASE Tick \/ UNCHANGED vars
      <3>1. \A p \in Providers : Holders(p)' = Holders(p)
        BY <2>2 DEF Tick, vars, Holders, Holds
      <3>2. \A p \in Providers : windows'[p].limit = windows[p].limit
        BY <1>2, <2>2 DEF Tick, vars, IInv, TypeOK, Window
      <3>. QED BY <3>1, <3>2, PoolsRest
    <2>. QED BY <1>2, <2>1, <2>2, NextIsAStep
  <1>. QED BY <1>1, <1>2, Inductive, PTL DEF Spec, PoolSpec, Pool!Spec
=============================================================================
