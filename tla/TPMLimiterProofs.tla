-------------------------- MODULE TPMLimiterProofs --------------------------
(***************************************************************************)
(* The tokens-per-minute limiter charges what it should for any requests,  *)
(* buckets, caps, costs and bounds: types, a bucket that is never fuller   *)
(* than it would be had it never been swept, and a debit that always lands *)
(* on the bucket its request was admitted against.                         *)
(***************************************************************************)
EXTENDS TPMLimiter, TLAPS

(* The books of one bucket e, with its ledger g and its flag d.  Unless it *)
(* owed more than the idle cutoff pays off, a bucket is no fuller than its *)
(* ledger and has been paid back for every tick it was idle, so that one   *)
(* idle past the cutoff is whole; and a bucket that was swept was whole.   *)
BookOK(e, g, d) ==
    /\ g.level <= g.cap
    /\ e # None =>
          /\ g.cap = e.cap
          /\ ~d => e.level <= g.level
          /\ ~d => g.level = g.cap \/ g.level >= (e.idle - IdleCutoff) * g.cap
    /\ (e = None /\ ~d) => g.level = g.cap
BooksOK == \A b \in Bucket : BookOK(buckets[b], ledger[b], deep[b])

(* The buckets used within the tick, those a request is busy with among them. *)
InUse == {b \in Bucket : buckets[b] # None /\ buckets[b].idle = 0}

(* A request in state s is busy with buckets that are in use. *)
BusyOK(r, s, used) ==
    /\ s.pc \in {"debit", "chunk", "reserve"} => s.at \in Bucket
    /\ s.pc \in {"chunk", "reserve"} => s.at \in used
    /\ s.pc = "reserve" => s.n <= s.rem
    /\ s.pc \in {"key", "handback"} => s.held \subseteq used
    /\ s.pc = "key" => s.held \subseteq {OwnerOf[r]}
    /\ s.pc = "handback" => OwnerOf[r] \in s.held
RequestsOK == \A r \in Request : BusyOK(r, req[r], InUse)

(* The inductive invariant of the books. *)
IInv == TokenTypeOK /\ BooksOK /\ RequestsOK

(* The types of the buckets, of the memos and of the requests. *)
BucketTypes ==
    /\ buckets \in [Bucket -> TokenEntry \cup {None}]
    /\ \A b \in Bucket : buckets[b] # None => buckets[b].level <= buckets[b].cap
    /\ ledger \in [Bucket -> [level : Int, cap : Nat]] /\ deep \in [Bucket -> BOOLEAN]
MemoTypes ==
    /\ caps \in [Bucket -> CapMemo \cup {None}]
    /\ timeout \in Timeout /\ known \in Timeout \cup {0} /\ mark \in Horizon \cup {0}
    /\ arrivals \in 0..MaxArrivals /\ upset \in 0..MaxUpset
RequestTypes ==
    req \in [Request -> Attempt] /\ \A r \in Request : req[r].rem <= req[r].cost

(* For how long the memos of a request must still be there. *)
Needs(s) ==
    IF s.pc = "serving" THEN s.left
    ELSE IF s.pc \in {"key", "handback", "admitted"} THEN s.claimed ELSE 0

(* A request that is not excused has a memo at every bucket it was         *)
(* admitted against, one that outlives it.                                 *)
MemoOK(s, memos) ==
    /\ s.dropped => s.excused
    /\ s.pc = "idle" => s.held = {}
    /\ s.held # {} => s.claimed # -1
    /\ ~s.excused => \A b \in s.held : memos[b] # None /\ memos[b].ttl >= Needs(s)
MemosOK ==
    /\ \A r \in Request : MemoOK(req[r], caps)
    /\ known = 0 \/ mark >= capMemoTTL(known)

(* No request lives past the ceiling of a memo, a year in the code ("far   *)
(* past any request_timeout a gateway can be run on").                     *)
WithinCeiling == \A t \in Timeout : t <= MaxCapMemoTTL

-----------------------------------------------------------------------------
(* Arithmetic and the shapes of the records.                               *)

(* A memo is kept between the floor and the ceiling, and for longer when   *)
(* requests live longer (capMemoTTL).                                      *)
LEMMA HorizonBounds ==
    /\ \A t \in Nat : capMemoTTL(t) \in 0..MaxCapMemoTTL
    /\ \A t, u \in Nat : t <= u => capMemoTTL(t) <= capMemoTTL(u)
    /\ \A t \in Nat : t <= MaxCapMemoTTL => t <= capMemoTTL(t)
BY TokensAssumption DEF capMemoTTL, Larger, Smaller

(* The caps a request may carry are positive numbers of its bucket. *)
LEMMA CapIsNat ==
    /\ AnyCap \subseteq Nat
    /\ \A b \in Bucket : Cap[b] \subseteq AnyCap
BY TokensAssumption DEF AnyCap

(* What is left of a bucket, or of a new one, at the cap c. *)
LEMMA ResolvedType ==
    ASSUME TokenTypeOK, NEW b \in Bucket, NEW c \in AnyCap \ {0}
    PROVE  /\ Resolved(b, c) \in TokenEntry
           /\ Resolved(b, c) # None
           /\ Resolved(b, c).cap = c /\ Resolved(b, c).idle = 0
           /\ Resolved(b, c).level <= c
           /\ buckets[b] = None => Resolved(b, c).level = c
           /\ buckets[b] # None => Resolved(b, c).level = Smaller(buckets[b].level, c)
<1>1. c \in Nat /\ IdleCutoff \in Nat /\ 0 \in 0..(IdleCutoff + 1)
  BY CapIsNat, TokensAssumption
<1>2. CASE buckets[b] = None
  BY <1>1, <1>2, NoneAssumption DEF Resolved, newTPMEntry, TokenEntry
<1>3. CASE buckets[b] # None
  <2>1. buckets[b] \in TokenEntry
    BY <1>3 DEF TokenTypeOK
  <2>2. Smaller(buckets[b].level, c) \in Int /\ Smaller(buckets[b].level, c) <= c
    BY <2>1, <1>1 DEF TokenEntry, Smaller
  <2>. DEFINE m == Smaller(buckets[b].level, c)
              f == [buckets[b] EXCEPT !.cap = c, !.level = m, !.idle = 0]
  <2>3. Resolved(b, c) = f
    BY <1>3, <2>1 DEF Resolved, TokenEntry
  <2>. HIDE DEF m
  <2>4. m \in Int
    BY <2>2 DEF m
  <2>5. f \in TokenEntry /\ f.cap = c /\ f.idle = 0 /\ f.level = m
    BY <1>1, <2>1, <2>4 DEF TokenEntry
  <2>. HIDE DEF f
  <2>. QED
    BY <1>3, <2>2, <2>3, <2>5, NoneAssumption DEF m
<1>. QED
  BY <1>2, <1>3

(* A reservation takes its tokens off the level. *)
LEMMA ReservedType ==
    ASSUME NEW e \in TokenEntry, NEW n \in Nat
    PROVE  /\ Reserved(e, n) \in TokenEntry /\ Reserved(e, n) # None
           /\ Reserved(e, n).cap = e.cap /\ Reserved(e, n).idle = e.idle
           /\ Reserved(e, n).level = e.level - n
<1>1. e.level \in Int /\ e.level - n \in Int /\ n - e.level \in Int
  BY DEF TokenEntry
<1>2. Larger(0, n - e.level) \in Nat
  BY <1>1 DEF Larger
<1>. DEFINE l == e.level - n
            d == Larger(0, n - e.level)
            f == [e EXCEPT !.level = l, !.due = d]
<1>3. Reserved(e, n) = f
  BY DEF Reserved, TokenEntry
<1>4. l \in Int /\ d \in Nat
  BY <1>1, <1>2
<1>. HIDE DEF l, d
<1>5. f \in TokenEntry /\ f.cap = e.cap /\ f.idle = e.idle /\ f.level = l
  BY <1>4 DEF TokenEntry
<1>. HIDE DEF f
<1>. QED
  BY <1>3, <1>5, NoneAssumption DEF l

(* The books of a bucket just used, whatever they were before, are in      *)
(* order when the bucket is no fuller than its new ledger.                 *)
LEMMA Rebooked ==
    ASSUME NEW e \in TokenEntry, e.idle = 0, e.level <= e.cap,
           NEW l \in Int, l <= e.cap, NEW d \in BOOLEAN, ~d => e.level <= l
    PROVE  BookOK(e, [level |-> l, cap |-> e.cap],
                  l < e.cap /\ (d \/ l < -(IdleCutoff * e.cap)))
<1>1. e.cap \in Nat /\ e.level \in Int /\ IdleCutoff \in Nat /\ e # None
  BY CapIsNat, TokensAssumption, NoneAssumption DEF TokenEntry
<1>2. (e.idle - IdleCutoff) * e.cap = -(IdleCutoff * e.cap) /\ IdleCutoff * e.cap \in Int
  BY <1>1
<1>. DEFINE f == l < e.cap /\ (d \/ l < -(IdleCutoff * e.cap))
<1>3. ~f => l = e.cap \/ (~d /\ l >= -(IdleCutoff * e.cap))
  BY <1>1, <1>2
<1>4. ~f => e.level <= l
  BY <1>1, <1>3
<1>. HIDE DEF f
<1>5. BookOK(e, [level |-> l, cap |-> e.cap], f)
  BY <1>1, <1>2, <1>3, <1>4 DEF BookOK
<1>. QED
  BY <1>5 DEF f

-----------------------------------------------------------------------------
(* Steps, by the part of the state they change.                            *)

LEMMA TypesSplit == TokenTypeOK <=> BucketTypes /\ MemoTypes /\ RequestTypes
BY DEF TokenTypeOK, BucketTypes, MemoTypes, RequestTypes

LEMMA PartsNext ==
    BucketTypes' /\ MemoTypes' /\ RequestTypes' /\ BooksOK' /\ RequestsOK' => IInv'
BY DEF IInv, TokenTypeOK, BucketTypes, MemoTypes, RequestTypes

(* A step that uses bucket b and leaves it no fuller than its ledger. *)
LEMMA BucketUsed ==
    ASSUME BucketTypes, BooksOK, NEW b \in Bucket,
           NEW e \in TokenEntry, e.idle = 0, e.level <= e.cap,
           NEW l \in Int, l <= e.cap, ~deep[b] => e.level <= l,
           buckets' = [buckets EXCEPT ![b] = e], Books(b, l, e.cap)
    PROVE  /\ BucketTypes' /\ BooksOK'
           /\ b \in InUse'
           /\ InUse \subseteq InUse'
<1>. DEFINE g == [level |-> l, cap |-> e.cap]
            d == l < e.cap /\ (deep[b] \/ l < -(IdleCutoff * e.cap))
<1>1. ledger' = [ledger EXCEPT ![b] = g] /\ deep' = [deep EXCEPT ![b] = d]
  BY DEF Books
<1>2. e.cap \in Nat /\ e # None
  BY CapIsNat, NoneAssumption DEF TokenEntry
<1>3. g \in [level : Int, cap : Nat] /\ d \in BOOLEAN
  BY <1>2
<1>4. BookOK(e, g, d)
  BY Rebooked DEF BucketTypes
<1>. HIDE DEF g, d
<1>5. \A x \in Bucket : /\ buckets'[x] = IF x = b THEN e ELSE buckets[x]
                        /\ ledger'[x] = IF x = b THEN g ELSE ledger[x]
                        /\ deep'[x] = IF x = b THEN d ELSE deep[x]
  BY <1>1 DEF BucketTypes
<1>6. BucketTypes'
  BY <1>1, <1>3, <1>5 DEF BucketTypes
<1>7. BooksOK'
  BY <1>4, <1>5 DEF BooksOK
<1>8. b \in InUse' /\ InUse \subseteq InUse'
  BY <1>2, <1>5 DEF InUse
<1>. QED
  BY <1>6, <1>7, <1>8

(* A step of request r to a state s that is in order, while no bucket that *)
(* is in use is let go of.                                                 *)
LEMMA RequestMoves ==
    ASSUME RequestTypes, RequestsOK, NEW r \in Request,
           NEW s \in Attempt, s.rem <= s.cost, W(r, s), BusyOK(r, s, InUse'),
           InUse \subseteq InUse'
    PROVE  RequestTypes' /\ RequestsOK'
<1>1. \A q \in Request : req'[q] = IF q = r THEN s ELSE req[q]
  BY DEF RequestTypes, W
<1>2. RequestTypes'
  BY <1>1 DEF RequestTypes, W
<1>3. ASSUME NEW q \in Request, q # r
      PROVE  BusyOK(q, req'[q], InUse')
  <2>1. BusyOK(q, req[q], InUse) /\ req'[q] = req[q]
    BY <1>1, <1>3 DEF RequestsOK
  <2>. QED
    BY <2>1 DEF BusyOK
<1>4. RequestsOK'
  BY <1>1, <1>3 DEF RequestsOK
<1>. QED
  BY <1>2, <1>4

(* Nobody is let go of where no bucket changes. *)
LEMMA BucketsRest ==
    ASSUME BucketTypes, BooksOK, UNCHANGED <<buckets, books>>
    PROVE  /\ BucketTypes' /\ BooksOK'
           /\ InUse \subseteq InUse'
BY DEF BucketTypes, BooksOK, BookOK, InUse, books

(* What a read of request_timeout leaves behind (rememberHorizon). *)
LEMMA HorizonRemembered ==
    ASSUME MemoTypes, NEW how \in Read, rememberHorizon(how)
    PROVE  /\ mark' \in Horizon \cup {0} /\ known' \in Timeout \cup {0}
           /\ upset' \in 0..MaxUpset
           /\ memoHorizon(how) \in 0..MaxCapMemoTTL
<1>1. Timeout \subseteq Nat /\ DefaultTimeout \in Timeout /\ MaxUpset \in Nat /\ MaxCapMemoTTL \in Nat
  BY TokensAssumption
<1>2. Horizon \subseteq 0..MaxCapMemoTTL
  BY <1>1, HorizonBounds DEF Horizon
<1>3. readHorizon(how) \in Horizon
  BY <1>1 DEF readHorizon, Horizon, MemoTypes
<1>4. mark' \in Horizon \cup {0}
  BY <1>1, <1>2, <1>3 DEF rememberHorizon, MemoTypes, Larger
<1>5. known' \in Timeout \cup {0} /\ upset' \in 0..MaxUpset
  BY <1>1 DEF rememberHorizon, MemoTypes, Larger, Upset
<1>6. memoHorizon(how) \in 0..MaxCapMemoTTL
  <2>1. memoHorizon(how) \in Horizon \cup {0}
    BY <1>1, <1>2, <1>3 DEF memoHorizon, MemoTypes, Larger
  <2>2. 0 \in 0..MaxCapMemoTTL
    BY <1>1
  <2>. QED
    BY <2>1, <2>2, <1>2
<1>. QED
  BY <1>4, <1>5, <1>6

(* A memo claimed at bucket b (getEntry). *)
LEMMA MemoClaimed ==
    ASSUME MemoTypes, NEW b \in Bucket, NEW c \in AnyCap \ {0},
           NEW h \in 0..MaxCapMemoTTL
    PROVE  /\ Claimed(b, c, h) \in CapMemo /\ Claimed(b, c, h) # None
           /\ Claimed(b, c, h).ttl >= h
           /\ caps[b] # None => Claimed(b, c, h).ttl >= caps[b].ttl
<1>1. MaxCapMemoTTL \in Nat
  BY TokensAssumption
<1>. DEFINE m == IF caps[b] = None THEN h ELSE Larger(caps[b].ttl, h)
<1>2. caps[b] # None => caps[b].ttl \in -1..MaxCapMemoTTL
  BY DEF MemoTypes, CapMemo
<1>3. /\ m \in -1..MaxCapMemoTTL /\ m >= h
      /\ caps[b] # None => m >= caps[b].ttl
  BY <1>1, <1>2 DEF Larger
<1>4. Claimed(b, c, h) = [tpm |-> c, ttl |-> m]
  BY DEF Claimed
<1>. HIDE DEF m
<1>. QED
  BY <1>3, <1>4, NoneAssumption DEF CapMemo

(* The ledger of a bucket that is published at the cap c (getEntry,        *)
(* debitBucket): the bucket is no fuller than it.                          *)
LEMMA OwingBound ==
    ASSUME BucketTypes, MemoTypes, RequestTypes, BooksOK, NEW b \in Bucket, NEW c \in AnyCap \ {0}
    PROVE  /\ Owing(b, c) \in Int /\ Owing(b, c) <= c
           /\ ~deep[b] => Resolved(b, c).level <= Owing(b, c)
<1>1. c \in Nat /\ ledger[b] \in [level : Int, cap : Nat]
  BY CapIsNat DEF BucketTypes
<1>2. Owing(b, c) \in Int /\ Owing(b, c) <= c
  BY <1>1 DEF Owing, Smaller
<1>3. BookOK(buckets[b], ledger[b], deep[b])
  BY DEF BooksOK
<1>4. CASE buckets[b] = None
  <2>1. Resolved(b, c).level = c
    BY <1>4, TypesSplit, ResolvedType
  <2>2. ~deep[b] => Owing(b, c) = c
    BY <1>3, <1>4 DEF BookOK, Owing
  <2>. QED
    BY <1>1, <1>2, <2>1, <2>2
<1>5. CASE buckets[b] # None
  <2>1. Resolved(b, c).level = Smaller(buckets[b].level, c) /\ buckets[b].level \in Int
    BY <1>5, TypesSplit, ResolvedType DEF BucketTypes, TokenEntry
  <2>2. ~deep[b] => buckets[b].level <= ledger[b].level
    BY <1>3, <1>5 DEF BookOK
  <2>3. Owing(b, c) = Smaller(ledger[b].level, c)
    BY <1>5 DEF Owing
  <2>. QED
    BY <1>1, <2>1, <2>2, <2>3 DEF Smaller
<1>. QED
  BY <1>2, <1>4, <1>5

(* An admission stage (getEntry and the reservation). *)
LEMMA Staged ==
    ASSUME IInv, NEW r \in Request, NEW s \in Attempt, s.rem <= s.cost,
           NEW b \in Bucket, NEW c \in AnyCap \ {0}, NEW how \in Read, NEW take \in BOOLEAN,
           Stage(r, s, b, c, how, take), arrivals' \in 0..MaxArrivals,
           BusyOK(r, s, InUse \cup {b})
    PROVE  IInv'
<1>1. BucketTypes /\ MemoTypes /\ RequestTypes /\ BooksOK /\ RequestsOK
  BY TypesSplit DEF IInv
<1>. DEFINE e == Resolved(b, c)
            f == IF take THEN Reserved(e, 1) ELSE e
            l == IF take THEN Owing(b, c) - 1 ELSE Owing(b, c)
<1>2. /\ e \in TokenEntry /\ e.cap = c /\ e.idle = 0 /\ e.level <= c /\ e.level \in Int
      /\ c \in Nat
  BY <1>1, TypesSplit, ResolvedType, CapIsNat DEF TokenEntry
<1>3. Owing(b, c) \in Int /\ Owing(b, c) <= c /\ (~deep[b] => e.level <= Owing(b, c))
  BY <1>1, OwingBound
<1>. HIDE DEF e
<1>4. /\ f \in TokenEntry /\ f.cap = c /\ f.idle = 0
      /\ f.level = IF take THEN e.level - 1 ELSE e.level
  BY <1>2, ReservedType
<1>5. l \in Int /\ l <= c /\ f.level <= c /\ (~deep[b] => f.level <= l)
  BY <1>2, <1>3, <1>4
<1>6. buckets' = [buckets EXCEPT ![b] = f] /\ Books(b, l, c)
  BY DEF Stage, e
<1>. HIDE DEF f, l
<1>7. BucketTypes' /\ BooksOK' /\ b \in InUse' /\ InUse \subseteq InUse'
  BY <1>1, <1>4, <1>5, <1>6, BucketUsed
<1>8. MemoTypes'
  <2>1. rememberHorizon(how) /\ caps' = [caps EXCEPT ![b] = Claimed(b, c, memoHorizon(how))]
        /\ timeout' = timeout
    BY DEF Stage
  <2>2. /\ mark' \in Horizon \cup {0} /\ known' \in Timeout \cup {0} /\ upset' \in 0..MaxUpset
        /\ memoHorizon(how) \in 0..MaxCapMemoTTL
    BY <1>1, <2>1, HorizonRemembered
  <2>3. Claimed(b, c, memoHorizon(how)) \in CapMemo
    BY <1>1, <2>2, MemoClaimed
  <2>. QED
    BY <1>1, <2>1, <2>2, <2>3 DEF MemoTypes
<1>9. RequestTypes' /\ RequestsOK'
  <2>. DEFINE x == s.excused \/ Excused(how)
              t == IF s.claimed = -1 THEN timeout ELSE Smaller(s.claimed, timeout)
              u == [s EXCEPT !.excused = x, !.claimed = t]
  <2>1. W(r, u)
    BY DEF Stage, Attempt
  <2>2. x \in BOOLEAN /\ t \in Timeout \cup {-1}
    BY <1>1 DEF Smaller, Attempt, MemoTypes
  <2>. HIDE DEF x, t
  <2>3. /\ u \in Attempt /\ u.rem = s.rem /\ u.cost = s.cost
        /\ u.pc = s.pc /\ u.held = s.held /\ u.at = s.at /\ u.n = s.n
    BY <2>2 DEF Attempt
  <2>. HIDE DEF u
  <2>4. BusyOK(r, u, InUse') /\ u.rem <= u.cost
    BY <2>3, <1>7 DEF BusyOK
  <2>. QED
    BY <1>1, <1>7, <2>1, <2>3, <2>4, RequestMoves
<1>. QED
  BY <1>7, <1>8, <1>9, PartsNext

(* A step of a request that leaves the buckets and the memos alone. *)
LEMMA RequestAlone ==
    ASSUME IInv, NEW r \in Request, NEW s \in Attempt, s.rem <= s.cost, W(r, s),
           BusyOK(r, s, InUse), arrivals' \in 0..MaxArrivals, upset' = upset \/ Upset,
           UNCHANGED <<buckets, caps, timeout, mark, known, books>>
    PROVE  IInv'
<1>1. BucketTypes /\ MemoTypes /\ RequestTypes /\ BooksOK /\ RequestsOK
  BY TypesSplit DEF IInv
<1>2. BucketTypes' /\ BooksOK' /\ InUse \subseteq InUse' /\ InUse' = InUse
  BY <1>1, BucketsRest DEF InUse
<1>3. MemoTypes'
  BY <1>1, TokensAssumption DEF MemoTypes, Upset
<1>4. RequestTypes' /\ RequestsOK'
  BY <1>1, <1>2, RequestMoves
<1>. QED
  BY <1>2, <1>3, <1>4, PartsNext

-----------------------------------------------------------------------------
(* The actions keep the books.                                             *)

LEMMA NoRequestType ==
    /\ NoRequest \in Attempt
    /\ NoRequest.pc = "idle" /\ NoRequest.held = {} /\ NoRequest.rem = 0 /\ NoRequest.cost = 0
    /\ NoRequest.claimed = -1 /\ NoRequest.left = 0
    /\ NoRequest.excused = FALSE /\ NoRequest.dropped = FALSE
BY DEF NoRequest, Attempt

LEMMA OwnedBuckets ==
    ASSUME NEW r \in Request
    PROVE  /\ KeyOf[r] \in Key \cup {None} /\ OwnerOf[r] \in Owner \cup {None}
           /\ KeyOf[r] # None => KeyOf[r] \in Bucket
           /\ OwnerOf[r] # None => OwnerOf[r] \in Bucket
BY TokensAssumption DEF Bucket

LEMMA AdmitsOwner ==
    ASSUME IInv, NEW r \in Request, OwnerOf[r] # None, NEW c \in Cap[OwnerOf[r]] \ {0},
           NEW how \in Read, admitUserTPM(r, c, how)
    PROVE  IInv'
<1>. DEFINE o == OwnerOf[r]
            i == IF Resolved(o, c).level < 1 THEN "handback" ELSE AfterOwner(r)
            d == Larger(0, 1 - Resolved(o, c).level)
            s == [NoRequest EXCEPT !.pc = i, !.held = {o}, !.due = d]
<1>1. o \in Bucket /\ c \in AnyCap \ {0}
  BY OwnedBuckets, CapIsNat
<1>2. Stage(r, s, o, c, how, TRUE) /\ Arrives
  BY DEF admitUserTPM
<1>3. i \in {"handback", "key", "admitted"} /\ d \in Nat
  <2>1. Resolved(o, c).level \in Int
    BY <1>1, ResolvedType DEF IInv, TokenEntry
  <2>. QED
    BY <2>1 DEF AfterOwner, Larger
<1>4. arrivals' \in 0..MaxArrivals
  BY <1>2, TokensAssumption DEF Arrives, IInv, TokenTypeOK
<1>. HIDE DEF i, d, o
<1>5. /\ s \in Attempt /\ s.pc = i /\ s.held = {o} /\ s.rem = 0 /\ s.cost = 0
  BY <1>1, <1>3, NoRequestType DEF Attempt
<1>. HIDE DEF s
<1>6. BusyOK(r, s, InUse \cup {o})
  BY <1>3, <1>5 DEF BusyOK, o
<1>7. s.rem <= s.cost
  BY <1>5
<1>. QED
  BY <1>1, <1>2, <1>4, <1>5, <1>6, <1>7, Staged

LEMMA AdmitsKey ==
    ASSUME IInv, NEW r \in Request, KeyOf[r] # None, NEW c \in Cap[KeyOf[r]] \ {0},
           NEW how \in Read, Allow(r, c, how)
    PROVE  IInv'
<1>. DEFINE k == KeyOf[r]
            ok == Resolved(k, c).level >= 1
            i == IF ok THEN "admitted" ELSE IF req[r].held = {} THEN "idle" ELSE "handback"
            h == IF ok THEN req[r].held \cup {k} ELSE req[r].held
            s == [req[r] EXCEPT !.pc = i, !.held = h]
<1>1. k \in Bucket /\ c \in AnyCap \ {0}
  BY OwnedBuckets, CapIsNat
<1>2. req[r] \in Attempt /\ req[r].rem <= req[r].cost /\ BusyOK(r, req[r], InUse)
  BY DEF IInv, TokenTypeOK, RequestsOK
<1>3. Stage(r, s, k, c, how, ok) /\ req[r].pc = "key" /\ arrivals' = arrivals
  BY <1>2 DEF Allow, Attempt
<1>4. /\ i \in {"admitted", "idle", "handback"} /\ h \subseteq Bucket
      /\ i = "handback" => h # {} /\ h = req[r].held
  BY <1>1, <1>2 DEF Attempt
<1>5. ok \in BOOLEAN
  OBVIOUS
<1>. HIDE DEF i, h, k, ok
<1>6. /\ s \in Attempt /\ s.pc = i /\ s.held = h /\ s.rem = req[r].rem /\ s.cost = req[r].cost
  BY <1>2, <1>4 DEF Attempt
<1>. HIDE DEF s
<1>7. BusyOK(r, s, InUse \cup {k})
  BY <1>2, <1>3, <1>4, <1>6 DEF BusyOK
<1>8. s.rem <= s.cost /\ arrivals' \in 0..MaxArrivals
  BY <1>2, <1>3, <1>6 DEF IInv, TokenTypeOK
<1>. QED
  BY <1>1, <1>3, <1>5, <1>6, <1>7, <1>8, Staged

(* Stages without a cap, and the proxy's own read of the timeout. *)
LEMMA AdmitsUncapped ==
    ASSUME IInv, NEW r \in Request, admitUncapped(r) \/ AllowUncapped(r) \/ Serve(r)
    PROVE  IInv'
<1>1. req[r] \in Attempt /\ req[r].rem <= req[r].cost
  BY DEF IInv, TokenTypeOK
<1>2. CASE admitUncapped(r)
  <2>. DEFINE i == AfterOwner(r)
              s == [NoRequest EXCEPT !.pc = i]
  <2>1. i \in {"key", "admitted"}
    BY DEF AfterOwner
  <2>. HIDE DEF i
  <2>2. s \in Attempt /\ s.pc = i /\ s.held = {} /\ s.rem = 0 /\ s.cost = 0
    BY <2>1, NoRequestType DEF Attempt
  <2>3. /\ W(r, s) /\ arrivals' \in 0..MaxArrivals
        /\ UNCHANGED <<buckets, caps, timeout, mark, known, books, upset>>
    BY <1>2, TokensAssumption DEF admitUncapped, Arrives, IInv, TokenTypeOK, i
  <2>. HIDE DEF s
  <2>4. BusyOK(r, s, InUse) /\ s.rem <= s.cost
    BY <2>1, <2>2 DEF BusyOK
  <2>. QED
    BY <2>2, <2>3, <2>4, RequestAlone
<1>3. CASE AllowUncapped(r)
  <2>. DEFINE s == [req[r] EXCEPT !.pc = "admitted"]
  <2>1. s \in Attempt /\ s.pc = "admitted" /\ s.rem = req[r].rem /\ s.cost = req[r].cost
    BY <1>1 DEF Attempt
  <2>2. /\ W(r, s) /\ arrivals' \in 0..MaxArrivals
        /\ UNCHANGED <<buckets, caps, timeout, mark, known, books, upset>>
    BY <1>3 DEF AllowUncapped, count, IInv, TokenTypeOK
  <2>. HIDE DEF s
  <2>3. BusyOK(r, s, InUse) /\ s.rem <= s.cost
    BY <1>1, <2>1 DEF BusyOK
  <2>. QED
    BY <2>1, <2>2, <2>3, RequestAlone
<1>4. CASE Serve(r)
  <2>1. PICK t \in {timeout, DefaultTimeout} :
            /\ W(r, [req[r] EXCEPT !.pc = "serving", !.left = t,
                                   !.excused = req[r].excused \/ t > req[r].claimed])
            /\ upset' = upset \/ Upset
    BY <1>1, <1>4, Zenon DEF Serve
  <2>. DEFINE x == req[r].excused \/ t > req[r].claimed
              s == [req[r] EXCEPT !.pc = "serving", !.left = t, !.excused = x]
  <2>2. /\ W(r, s) /\ arrivals' \in 0..MaxArrivals
        /\ UNCHANGED <<buckets, caps, timeout, mark, known, books>>
    BY <1>4, <2>1 DEF Serve, IInv, TokenTypeOK
  <2>3. x \in BOOLEAN /\ t \in Nat
    BY <1>1, TokensAssumption DEF IInv, TokenTypeOK, Attempt
  <2>. HIDE DEF x
  <2>4. s \in Attempt /\ s.pc = "serving" /\ s.rem = req[r].rem /\ s.cost = req[r].cost
    BY <1>1, <2>3 DEF Attempt
  <2>. HIDE DEF s
  <2>5. BusyOK(r, s, InUse) /\ s.rem <= s.cost
    BY <1>1, <2>4 DEF BusyOK
  <2>. QED
    BY <2>1, <2>2, <2>4, <2>5, RequestAlone
<1>. QED
  BY <1>2, <1>3, <1>4

(* A request back at rest, or that it moves on to debit the bucket b, is   *)
(* busy with nothing.                                                      *)
LEMMA OverType ==
    ASSUME NEW s \in Attempt
    PROVE  /\ Over(s) \in Attempt /\ Over(s).pc = "idle" /\ Over(s).held = {}
           /\ Over(s).rem = 0 /\ Over(s).cost = 0
           /\ Over(s).dropped = s.dropped /\ Over(s).excused = s.excused
<1>1. s.dropped \in BOOLEAN /\ s.excused \in BOOLEAN
  BY DEF Attempt
<1>. DEFINE d == s.dropped
            x == s.excused
            o == [NoRequest EXCEPT !.dropped = d, !.excused = x]
<1>2. Over(s) = o
  BY DEF Over
<1>3. d \in BOOLEAN /\ x \in BOOLEAN
  BY <1>1
<1>. HIDE DEF d, x
<1>4. /\ o \in Attempt /\ o.pc = "idle" /\ o.held = {} /\ o.rem = 0 /\ o.cost = 0
      /\ o.dropped = d /\ o.excused = x
  BY <1>3, NoRequestType DEF Attempt
<1>. HIDE DEF o
<1>. QED
  BY <1>2, <1>4 DEF d, x

LEMMA DebitsType ==
    ASSUME NEW s \in Attempt, NEW b \in Bucket
    PROVE  /\ Debits(s, b) \in Attempt /\ Debits(s, b).pc = "debit"
           /\ Debits(s, b).at = b /\ Debits(s, b).held = s.held
           /\ Debits(s, b).rem = s.cost /\ Debits(s, b).cost = s.cost
           /\ Debits(s, b).dropped = s.dropped /\ Debits(s, b).excused = s.excused
           /\ Debits(s, b).claimed = s.claimed /\ Debits(s, b).left = s.left
BY DEF Debits, Attempt

LEMMA NextDebitType ==
    ASSUME NEW r \in Request, NEW s \in Attempt
    PROVE  /\ NextDebit(r, s) \in Attempt
           /\ NextDebit(r, s).rem <= NextDebit(r, s).cost
           /\ \A used : BusyOK(r, NextDebit(r, s), used)
<1>1. CASE s.at = KeyOf[r] /\ OwnerOf[r] # None
  <2>. DEFINE t == Debits(s, OwnerOf[r])
  <2>1. OwnerOf[r] \in Bucket
    BY <1>1, OwnedBuckets
  <2>2. t \in Attempt /\ t.pc = "debit" /\ t.at \in Bucket /\ t.rem = t.cost /\ t.rem \in Nat
    BY <2>1, DebitsType DEF Attempt
  <2>3. NextDebit(r, s) = t
    BY <1>1 DEF NextDebit
  <2>. HIDE DEF t
  <2>. QED
    BY <2>2, <2>3 DEF BusyOK
<1>2. CASE ~(s.at = KeyOf[r] /\ OwnerOf[r] # None)
  <2>. DEFINE t == Over(s)
  <2>1. t \in Attempt /\ t.pc = "idle" /\ t.rem = 0 /\ t.cost = 0
    BY OverType
  <2>2. NextDebit(r, s) = t
    BY <1>2 DEF NextDebit
  <2>. HIDE DEF t
  <2>. QED
    BY <2>1, <2>2 DEF BusyOK
<1>. QED
  BY <1>1, <1>2

LEMMA HandsBack ==
    ASSUME IInv, NEW r \in Request, CancelAt(r)
    PROVE  IInv'
<1>. DEFINE o == OwnerOf[r]
            e == buckets[o]
            l == Smaller(e.cap, ledger[o].level + 1)
            m == Smaller(e.cap, e.level + 1)
            d == Larger(0, e.due - 1)
            f == [e EXCEPT !.level = m, !.due = d]
<1>1. BucketTypes /\ MemoTypes /\ RequestTypes /\ BooksOK /\ RequestsOK
  BY TypesSplit DEF IInv
<1>2. o \in InUse
  BY <1>1 DEF CancelAt, RequestsOK, BusyOK
<1>3. /\ o \in Bucket /\ e \in TokenEntry /\ e.idle = 0 /\ e # None
      /\ e.level <= e.cap /\ e.cap \in Nat /\ e.level \in Int /\ e.due \in Nat
      /\ ledger[o].level \in Int
  BY <1>1, <1>2, CapIsNat DEF InUse, BucketTypes, TokenEntry
<1>4. ~deep[o] => e.level <= ledger[o].level
  BY <1>1, <1>3 DEF BooksOK, BookOK
<1>5. /\ l \in Int /\ l <= e.cap /\ m \in Int /\ m <= e.cap /\ d \in Nat
      /\ ~deep[o] => m <= l
  BY <1>3, <1>4 DEF Smaller, Larger
<1>6. W(r, NoRequest) /\ UNCHANGED <<caps, timeout, mark, known, count>>
  BY DEF CancelAt
<1>7. BucketTypes' /\ BooksOK' /\ InUse \subseteq InUse'
  <2>1. CASE Restores(e, req[r].due)
    <3>1. buckets' = [buckets EXCEPT ![o] = f] /\ Books(o, l, e.cap)
      BY <1>1, <1>3, <2>1 DEF CancelAt, BucketTypes, TokenEntry
    <3>. HIDE DEF l, m, d, e, o
    <3>2. f \in TokenEntry /\ f.cap = e.cap /\ f.idle = 0 /\ f.level = m
      BY <1>3, <1>5 DEF TokenEntry
    <3>. HIDE DEF f
    <3>. QED
      BY <1>1, <1>3, <1>5, <3>1, <3>2, BucketUsed
  <2>2. CASE ~Restores(e, req[r].due)
    BY <1>1, <2>2, BucketsRest DEF CancelAt
  <2>. QED
    BY <2>1, <2>2
<1>8. MemoTypes'
  BY <1>1, <1>6 DEF MemoTypes, count
<1>9. BusyOK(r, NoRequest, InUse') /\ NoRequest.rem <= NoRequest.cost
  BY NoRequestType DEF BusyOK
<1>10. RequestTypes' /\ RequestsOK'
  BY <1>1, <1>6, <1>7, <1>9, NoRequestType, RequestMoves
<1>. QED
  BY <1>7, <1>8, <1>10, PartsNext

LEMMA RecordsUsage ==
    ASSUME IInv, NEW r \in Request, NEW tokens \in Cost, recordTokenUsage(r, tokens)
    PROVE  IInv'
<1>. DEFINE s == [req[r] EXCEPT !.cost = tokens]
            b == IF KeyOf[r] = None THEN OwnerOf[r] ELSE KeyOf[r]
            t == IF tokens = 0 \/ b = None THEN Over(s) ELSE Debits(s, b)
<1>1. req[r] \in Attempt /\ tokens \in Nat
  BY TokensAssumption DEF IInv, TokenTypeOK
<1>2. s \in Attempt
  BY <1>1 DEF Attempt
<1>3. b # None => b \in Bucket
  BY OwnedBuckets
<1>4. /\ W(r, t) /\ arrivals' \in 0..MaxArrivals
      /\ UNCHANGED <<buckets, caps, timeout, mark, known, books, upset>>
  BY DEF recordTokenUsage, count, IInv, TokenTypeOK
<1>. HIDE DEF s, b
<1>5. /\ t \in Attempt /\ t.rem = t.cost /\ t.rem \in Nat
      /\ t.pc = "idle" \/ (t.pc = "debit" /\ t.at \in Bucket)
  <2>1. CASE tokens = 0 \/ b = None
    <3>1. t = Over(s)
      BY <2>1
    <3>2. Over(s) \in Attempt /\ Over(s).pc = "idle" /\ Over(s).rem = 0 /\ Over(s).cost = 0
      BY <1>2, OverType
    <3>. HIDE DEF t
    <3>3. t \in Attempt /\ t.pc = "idle" /\ t.rem = 0 /\ t.cost = 0
      BY <3>1, <3>2, Zenon
    <3>4. t.rem \in Nat /\ t.rem = t.cost
      BY <3>3 DEF Attempt
    <3>. QED
      BY <3>3, <3>4
  <2>2. CASE ~(tokens = 0 \/ b = None)
    <3>1. t = Debits(s, b) /\ b \in Bucket
      BY <1>3, <2>2
    <3>2. s.cost \in Nat
      BY <1>2 DEF Attempt
    <3>. HIDE DEF t
    <3>. QED
      BY <1>2, <3>1, <3>2, DebitsType
  <2>. QED
    BY <2>1, <2>2
<1>. HIDE DEF t
<1>6. BusyOK(r, t, InUse) /\ t.rem <= t.cost
  BY <1>5 DEF BusyOK
<1>. QED
  BY <1>4, <1>5, <1>6, RequestAlone

LEMMA BeginsDebit ==
    ASSUME IInv, NEW r \in Request, debitBucket(r)
    PROVE  IInv'
<1>. DEFINE s == req[r]
            b == s.at
            found == buckets[b] # None \/ caps[b] # None
            c == IF buckets[b] = None THEN caps[b].tpm ELSE buckets[b].cap
<1>1. BucketTypes /\ MemoTypes /\ RequestTypes /\ BooksOK /\ RequestsOK
  BY TypesSplit DEF IInv
<1>2. s \in Attempt /\ s.rem <= s.cost /\ s.pc = "debit" /\ b \in Bucket
  BY <1>1 DEF debitBucket, RequestTypes, RequestsOK, BusyOK
<1>3. MemoTypes'
  BY <1>1 DEF debitBucket, MemoTypes, count
<1>4. CASE found
  <2>1. c \in AnyCap \ {0}
    BY <1>1, <1>2, <1>4 DEF BucketTypes, MemoTypes, TokenEntry, CapMemo
  <2>. DEFINE t == [s EXCEPT !.pc = "chunk"]
  <2>2. W(r, t) /\ buckets' = [buckets EXCEPT ![b] = Resolved(b, c)] /\ Books(b, Owing(b, c), c)
    BY <1>4 DEF debitBucket
  <2>. HIDE DEF c
  <2>3. /\ t \in Attempt /\ t.pc = "chunk" /\ t.at = b /\ t.rem = s.rem /\ t.cost = s.cost
    BY <1>2 DEF Attempt
  <2>. HIDE DEF t, s, b
  <2>4. /\ Resolved(b, c) \in TokenEntry /\ Resolved(b, c).cap = c
        /\ Resolved(b, c).idle = 0 /\ Resolved(b, c).level <= c
    BY <1>2, <2>1, ResolvedType DEF IInv
  <2>5. /\ Owing(b, c) \in Int /\ Owing(b, c) <= c
        /\ ~deep[b] => Resolved(b, c).level <= Owing(b, c)
    BY <1>1, <1>2, <2>1, OwingBound
  <2>6. BucketTypes' /\ BooksOK' /\ b \in InUse' /\ InUse \subseteq InUse'
    BY <1>1, <1>2, <2>2, <2>4, <2>5, BucketUsed
  <2>7. BusyOK(r, t, InUse') /\ t.rem <= t.cost
    BY <1>2, <2>3, <2>6 DEF BusyOK
  <2>8. RequestTypes' /\ RequestsOK'
    BY <1>1, <2>2, <2>3, <2>6, <2>7, RequestMoves
  <2>. QED
    BY <1>3, <2>6, <2>8, PartsNext
<1>5. CASE ~found
  <2>. DEFINE d == s.dropped \/ b \in s.held
              t == [s EXCEPT !.dropped = d]
  <2>1. W(r, NextDebit(r, t)) /\ UNCHANGED <<buckets, books>>
    BY <1>2, <1>5 DEF debitBucket, Attempt
  <2>2. d \in BOOLEAN
    BY <1>2 DEF Attempt
  <2>. HIDE DEF d
  <2>3. t \in Attempt
    BY <1>2, <2>2 DEF Attempt
  <2>. HIDE DEF t
  <2>4. BucketTypes' /\ BooksOK' /\ InUse \subseteq InUse'
    BY <1>1, <2>1, BucketsRest
  <2>5. /\ NextDebit(r, t) \in Attempt /\ NextDebit(r, t).rem <= NextDebit(r, t).cost
        /\ BusyOK(r, NextDebit(r, t), InUse')
    BY <2>3, NextDebitType
  <2>6. RequestTypes' /\ RequestsOK'
    BY <1>1, <2>1, <2>4, <2>5, RequestMoves
  <2>. QED
    BY <1>3, <2>4, <2>6, PartsNext
<1>. QED
  BY <1>4, <1>5

LEMMA ReadsBurst ==
    ASSUME IInv, NEW r \in Request, ReadBurst(r)
    PROVE  IInv'
<1>. DEFINE s == req[r]
            n == Smaller(s.rem, buckets[s.at].cap)
            t == [s EXCEPT !.pc = "reserve", !.n = n]
<1>1. BucketTypes /\ MemoTypes /\ RequestTypes /\ BooksOK /\ RequestsOK
  BY TypesSplit DEF IInv
<1>2. s \in Attempt /\ s.rem <= s.cost /\ s.pc = "chunk" /\ s.at \in InUse /\ s.at \in Bucket
  BY <1>1 DEF ReadBurst, RequestTypes, RequestsOK, BusyOK
<1>3. buckets[s.at].cap \in Nat /\ s.rem \in Nat
  BY <1>1, <1>2, CapIsNat DEF InUse, BucketTypes, TokenEntry, Attempt
<1>4. n \in Nat /\ n <= s.rem
  BY <1>3 DEF Smaller
<1>5. /\ W(r, t) /\ arrivals' \in 0..MaxArrivals
      /\ UNCHANGED <<buckets, caps, timeout, mark, known, books, upset>>
  BY <1>1 DEF ReadBurst, count, MemoTypes
<1>. HIDE DEF n
<1>6. /\ t \in Attempt /\ t.pc = "reserve" /\ t.at = s.at /\ t.n = n
      /\ t.rem = s.rem /\ t.cost = s.cost
  BY <1>2, <1>4 DEF Attempt
<1>. HIDE DEF t, s
<1>7. BusyOK(r, t, InUse) /\ t.rem <= t.cost
  BY <1>2, <1>4, <1>6 DEF BusyOK
<1>. QED
  BY <1>5, <1>6, <1>7, RequestAlone

LEMMA ReservesChunk ==
    ASSUME IInv, NEW r \in Request, ReserveChunk(r)
    PROVE  IInv'
<1>. DEFINE s == req[r]
            b == s.at
            e == buckets[b]
            fits == s.n <= e.cap
            m == IF fits THEN s.rem - s.n ELSE s.rem
            t == [s EXCEPT !.pc = "chunk", !.rem = m, !.n = 0]
            f == IF fits THEN Reserved(e, s.n) ELSE e
            l == ledger[b].level - (s.rem - t.rem)
            u == IF t.rem = 0 THEN NextDebit(r, t) ELSE t
<1>1. BucketTypes /\ MemoTypes /\ RequestTypes /\ BooksOK /\ RequestsOK
  BY TypesSplit DEF IInv
<1>2. /\ s \in Attempt /\ s.rem <= s.cost /\ s.pc = "reserve" /\ s.n <= s.rem
      /\ b \in InUse /\ b \in Bucket
  BY <1>1 DEF ReserveChunk, RequestTypes, RequestsOK, BusyOK
<1>3. /\ e \in TokenEntry /\ e.idle = 0 /\ e.level <= e.cap
      /\ e.cap \in Nat /\ e.level \in Int
      /\ s.n \in Nat /\ s.rem \in Nat /\ s.cost \in Nat
      /\ ledger[b] \in [level : Int, cap : Nat]
  BY <1>1, <1>2, CapIsNat DEF InUse, BucketTypes, TokenEntry, Attempt
<1>4. ledger[b].cap = e.cap /\ ledger[b].level <= ledger[b].cap
      /\ (~deep[b] => e.level <= ledger[b].level)
  BY <1>1, <1>2 DEF BooksOK, BookOK, InUse
<1>5. /\ W(r, u) /\ Books(b, l, e.cap) /\ buckets' = [buckets EXCEPT ![b] = f]
      /\ UNCHANGED <<caps, timeout, mark, known, count>>
  BY <1>2 DEF ReserveChunk, ChunkCounts, Attempt
<1>6. m \in Nat /\ m <= s.cost /\ (s.rem - m = IF fits THEN s.n ELSE 0)
  BY <1>2, <1>3
<1>. HIDE DEF m
<1>7. t \in Attempt /\ t.pc = "chunk" /\ t.at = b /\ t.rem = m /\ t.cost = s.cost
  BY <1>2, <1>6 DEF Attempt
<1>. HIDE DEF t
<1>8. f \in TokenEntry /\ f.cap = e.cap /\ f.idle = 0
      /\ (f.level = IF fits THEN e.level - s.n ELSE e.level)
  BY <1>3, ReservedType
<1>9. l = IF fits THEN ledger[b].level - s.n ELSE ledger[b].level
  BY <1>3, <1>6, <1>7
<1>10. /\ l \in Int /\ l <= e.cap /\ f.level <= f.cap /\ (~deep[b] => f.level <= l)
  <2>. HIDE DEF f, l, e, s, b, fits
  <2>1. CASE fits
    BY <1>3, <1>4, <1>8, <1>9, <2>1
  <2>2. CASE ~fits
    BY <1>3, <1>4, <1>8, <1>9, <2>2
  <2>. QED
    BY <2>1, <2>2
<1>. HIDE DEF f, l, fits
<1>11. BucketTypes' /\ BooksOK' /\ b \in InUse' /\ InUse \subseteq InUse'
  <2>. HIDE DEF e, b, s
  <2>. QED
    BY <1>1, <1>2, <1>5, <1>8, <1>10, BucketUsed
<1>12. MemoTypes'
  BY <1>1, <1>5 DEF MemoTypes, count
<1>13. u \in Attempt /\ u.rem <= u.cost /\ BusyOK(r, u, InUse')
  <2>. HIDE DEF s, b, e
  <2>1. CASE t.rem = 0
    <3>1. u = NextDebit(r, t)
      BY <2>1
    <3>. HIDE DEF u
    <3>. QED
      BY <1>7, <3>1, NextDebitType
  <2>2. CASE t.rem # 0
    <3>1. u = t
      BY <2>2
    <3>. HIDE DEF u
    <3>2. BusyOK(r, t, InUse') /\ t.rem <= t.cost
      BY <1>2, <1>6, <1>7, <1>11 DEF BusyOK
    <3>. QED
      BY <1>7, <3>1, <3>2
  <2>. QED
    BY <2>1, <2>2
<1>. HIDE DEF u
<1>14. RequestTypes' /\ RequestsOK'
  BY <1>1, <1>5, <1>11, <1>13, RequestMoves
<1>. QED
  BY <1>11, <1>12, <1>14, PartsNext

(* A bucket idle past the cutoff owed nothing by then, or was in deep. *)
LEMMA Sweeps ==
    ASSUME IInv, NEW how \in Read, sweep(how)
    PROVE  IInv'
<1>1. BucketTypes /\ MemoTypes /\ RequestTypes /\ BooksOK /\ RequestsOK
  BY TypesSplit DEF IInv
<1>2. IdleCutoff \in Nat
  BY TokensAssumption
<1>3. /\ buckets' = [b \in Bucket |-> IF buckets[b] # None /\ buckets[b].idle > IdleCutoff
                                      THEN None ELSE buckets[b]]
      /\ rememberHorizon(how) /\ UNCHANGED <<timeout, req, ledger, deep, arrivals>>
      /\ caps' = [b \in Bucket |-> IF caps[b] # None /\ caps[b].ttl < 0 THEN None ELSE caps[b]]
  BY DEF sweep, books
<1>4. \A b \in Bucket : buckets'[b] = buckets[b] \/ (buckets'[b] = None /\ buckets[b].idle > IdleCutoff)
  BY <1>3
<1>5. BucketTypes'
  BY <1>1, <1>3 DEF BucketTypes
<1>6. ASSUME NEW b \in Bucket
      PROVE  BookOK(buckets'[b], ledger[b], deep[b])
  <2>1. BookOK(buckets[b], ledger[b], deep[b])
    BY <1>1 DEF BooksOK
  <2>2. CASE buckets[b] # None /\ buckets[b].idle > IdleCutoff
    <3>. DEFINE i == buckets[b].idle
                g == ledger[b]
    <3>1. i \in Nat /\ i >= IdleCutoff + 1 /\ g.level \in Int /\ g.cap \in Nat
      BY <1>1, <1>2, <2>2 DEF BucketTypes, TokenEntry
    <3>2. ~deep[b] => g.level = g.cap \/ g.level >= (i - IdleCutoff) * g.cap
      BY <2>1, <2>2 DEF BookOK
    <3>3. g.level <= g.cap
      BY <2>1 DEF BookOK
    <3>4. (i - IdleCutoff) * g.cap >= g.cap
      <4>. DEFINE k == i - IdleCutoff - 1
                  x == g.cap
      <4>1. k \in Nat /\ x \in Nat
        BY <1>2, <3>1
      <4>2. k * x \in Nat /\ (k + 1) * x = k * x + x
        <5>. HIDE DEF k, x
        <5>. QED
          BY <4>1
      <4>3. k + 1 = i - IdleCutoff
        BY <1>2, <3>1
      <4>. HIDE DEF k
      <4>. QED
        BY <4>1, <4>2, <4>3
    <3>5. ~deep[b] => g.level = g.cap
      <4>. DEFINE y == (i - IdleCutoff) * g.cap
      <4>1. y \in Int
        BY <1>2, <3>1
      <4>. HIDE DEF y
      <4>. QED
        BY <3>1, <3>2, <3>3, <3>4, <4>1 DEF y
    <3>6. buckets'[b] = None
      BY <1>3, <2>2
    <3>. QED
      BY <3>3, <3>5, <3>6 DEF BookOK
  <2>3. CASE ~(buckets[b] # None /\ buckets[b].idle > IdleCutoff)
    BY <1>3, <2>1, <2>3
  <2>. QED
    BY <2>2, <2>3
<1>7. BooksOK'
  BY <1>3, <1>6 DEF BooksOK
<1>8. InUse \subseteq InUse'
  BY <1>2, <1>3 DEF InUse
<1>9. MemoTypes'
  <2>1. caps' \in [Bucket -> CapMemo \cup {None}]
    BY <1>1, <1>3 DEF MemoTypes
  <2>. QED
    BY <1>1, <1>3, <2>1, HorizonRemembered DEF MemoTypes
<1>10. RequestTypes' /\ RequestsOK'
  BY <1>1, <1>3, <1>8 DEF RequestTypes, RequestsOK, BusyOK
<1>. QED
  BY <1>5, <1>7, <1>9, <1>10, PartsNext

(* A tick pays every bucket and its ledger the same. *)
LEMMA TickBook ==
    ASSUME NEW e \in TokenEntry, NEW g \in [level : Int, cap : Nat], NEW d \in BOOLEAN,
           e.level <= e.cap, BookOK(e, g, d),
           NEW f \in TokenEntry, f.cap = e.cap,
           f.level = Smaller(e.cap, e.level + e.cap),
           f.idle = Smaller(e.idle + 1, IdleCutoff + 1),
           NEW h \in [level : Int, cap : Nat], h.cap = g.cap,
           h.level = Smaller(g.cap, g.level + g.cap)
    PROVE  BookOK(f, h, d /\ g.level < 0) /\ f.level <= f.cap
<1>. DEFINE c == g.cap
            i == e.idle - IdleCutoff
            j == f.idle - IdleCutoff
            p == i * c
<1>1. /\ e # None /\ f # None /\ e.cap = c /\ f.cap = c /\ h.cap = c
      /\ c \in Nat /\ c # 0 /\ IdleCutoff \in Nat /\ e.idle \in 0..(IdleCutoff + 1)
      /\ e.level \in Int /\ f.level \in Int /\ g.level \in Int /\ h.level \in Int
  BY CapIsNat, NoneAssumption, TokensAssumption DEF TokenEntry, BookOK
<1>2. g.level <= c /\ (~d => e.level <= g.level) /\ (~d => g.level = c \/ g.level >= p)
  BY <1>1 DEF BookOK
<1>3. i \in Int /\ j \in Int /\ i <= 1 /\ (j = i + 1 \/ j = 1) /\ (i = 1 \/ j = i + 1)
  BY <1>1 DEF Smaller
<1>4. p \in Int /\ 1 * c = c /\ (i + 1) * c = p + c
  <2>. HIDE DEF i, c
  <2>. QED
    BY <1>1, <1>3
<1>5. i = 1 => p = c
  BY <1>4
<1>6. j * c = IF i = 1 THEN c ELSE p + c
  <2>1. CASE i = 1
    <3>1. j = 1 \/ j = 2
      BY <1>3, <2>1
    <3>2. j = 1
      BY <1>1, <2>1 DEF Smaller
    <3>. QED
      BY <1>4, <2>1, <3>2
  <2>2. CASE i # 1
    <3>1. j = i + 1
      BY <1>3, <2>2
    <3>. QED
      BY <1>4, <2>2, <3>1
  <2>. QED
    BY <2>1, <2>2
<1>7. f.level <= c /\ h.level <= c
  BY <1>1 DEF Smaller
<1>8. (~d => f.level <= h.level) /\ (g.level >= 0 => h.level = c)
  BY <1>1, <1>2 DEF Smaller
<1>. DEFINE q == j * c
<1>9. ~d => h.level = c \/ h.level >= q
  <2>1. q = (IF i = 1 THEN c ELSE p + c) /\ q \in Int
    BY <1>1, <1>4, <1>6
  <2>. HIDE DEF p, q, i, j
  <2>2. CASE i = 1
    BY <1>1, <1>2, <1>5, <1>7, <2>1, <2>2 DEF Smaller
  <2>3. CASE i # 1
    BY <1>1, <1>2, <1>4, <2>1, <2>3 DEF Smaller
  <2>. QED
    BY <2>2, <2>3
<1>. DEFINE x == d /\ g.level < 0
<1>10. x \in BOOLEAN /\ (~x => ~d \/ h.level = c)
  BY <1>1, <1>8
<1>11. ~x => f.level <= h.level
  BY <1>1, <1>7, <1>8, <1>10
<1>12. ~x => h.level = c \/ h.level >= (f.idle - IdleCutoff) * h.cap
  BY <1>1, <1>9, <1>10
<1>. HIDE DEF x
<1>13. BookOK(f, h, x)
  BY <1>1, <1>7, <1>11, <1>12 DEF BookOK
<1>. QED
  BY <1>1, <1>7, <1>13 DEF x

LEMMA TickKeeps ==
    ASSUME IInv, TokenTick
    PROVE  IInv'
<1>1. BucketTypes /\ MemoTypes /\ RequestTypes /\ BooksOK /\ RequestsOK
  BY TypesSplit DEF IInv
<1>2. IdleCutoff \in Nat /\ MaxCapMemoTTL \in Nat
  BY TokensAssumption
<1>3. ASSUME NEW b \in Bucket
      PROVE  /\ buckets'[b] \in TokenEntry \cup {None}
             /\ ledger'[b] \in [level : Int, cap : Nat]
             /\ deep'[b] \in BOOLEAN
             /\ buckets'[b] # None => buckets'[b].level <= buckets'[b].cap
             /\ BookOK(buckets'[b], ledger'[b], deep'[b])
  <2>. DEFINE e == buckets[b]
              g == ledger[b]
              x == Smaller(e.cap, e.level + e.cap)
              i == Smaller(e.idle + 1, IdleCutoff + 1)
              u == Larger(0, e.due - e.cap)
              f == [e EXCEPT !.level = x, !.idle = i, !.due = u]
              y == Smaller(g.cap, g.level + g.cap)
              h == [g EXCEPT !.level = y]
  <2>1. g \in [level : Int, cap : Nat] /\ deep[b] \in BOOLEAN /\ BookOK(e, g, deep[b])
    BY <1>1 DEF BucketTypes, BooksOK
  <2>2. ledger'[b] = h /\ deep'[b] = (deep[b] /\ g.level < 0)
    BY <2>1 DEF TokenTick
  <2>3. y \in Int /\ y <= g.cap /\ (g.level >= 0 => y = g.cap)
    BY <2>1 DEF Smaller
  <2>. HIDE DEF y
  <2>4. h \in [level : Int, cap : Nat] /\ h.level = y /\ h.cap = g.cap
    BY <2>1, <2>3
  <2>5. CASE e = None
    <3>1. buckets'[b] = None
      BY <2>5 DEF TokenTick
    <3>. HIDE DEF h
    <3>2. ~deep[b] => g.level = g.cap
      BY <2>1, <2>5 DEF BookOK
    <3>3. ~deep'[b] => h.level = h.cap
      BY <2>1, <2>2, <2>3, <2>4, <3>2
    <3>. QED
      BY <2>1, <2>2, <2>3, <2>4, <3>1, <3>3 DEF BookOK
  <2>6. CASE e # None
    <3>1. /\ e \in TokenEntry /\ e.level <= e.cap
          /\ e.level \in Int /\ e.cap \in Nat /\ e.idle \in 0..(IdleCutoff + 1) /\ e.due \in Nat
      BY <1>1, <2>6, CapIsNat DEF BucketTypes, TokenEntry
    <3>2. buckets'[b] = f
      BY <2>6, <3>1 DEF TokenTick, TokenEntry
    <3>3. x \in Int /\ i \in 0..(IdleCutoff + 1) /\ u \in Nat
      BY <1>2, <3>1 DEF Smaller, Larger
    <3>. HIDE DEF x, i, u
    <3>4. f \in TokenEntry /\ f.cap = e.cap /\ f.level = x /\ f.idle = i
      BY <3>1, <3>3 DEF TokenEntry
    <3>. HIDE DEF f, h
    <3>5. BookOK(f, h, deep[b] /\ g.level < 0) /\ f.level <= f.cap
      <4>1. /\ f.level = Smaller(e.cap, e.level + e.cap)
            /\ f.idle = Smaller(e.idle + 1, IdleCutoff + 1)
            /\ h.level = Smaller(g.cap, g.level + g.cap)
        BY <3>4, <2>4 DEF x, i, y
      <4>. QED
        BY <2>1, <2>4, <3>1, <3>4, <4>1, TickBook
    <3>. QED
      BY <2>1, <2>2, <2>4, <3>2, <3>4, <3>5
  <2>. QED
    BY <2>5, <2>6
<1>4. BucketTypes' /\ BooksOK'
  <2>1. /\ buckets' = [b \in Bucket |-> buckets'[b]]
        /\ ledger' = [b \in Bucket |-> ledger'[b]]
        /\ deep' = [b \in Bucket |-> deep'[b]]
    BY DEF TokenTick
  <2>. QED
    BY <1>3, <2>1 DEF BucketTypes, BooksOK
<1>5. MemoTypes'
  <2>1. ASSUME NEW b \in Bucket
        PROVE  caps'[b] \in CapMemo \cup {None}
    <3>1. CASE caps[b] = None
      BY <3>1 DEF TokenTick
    <3>2. CASE caps[b] # None
      <4>. DEFINE m == caps[b]
                  x == Larger(-1, m.ttl - 1)
                  f == [m EXCEPT !.ttl = x]
      <4>1. m \in CapMemo /\ m.ttl \in -1..MaxCapMemoTTL
        BY <1>1, <3>2 DEF MemoTypes, CapMemo
      <4>2. caps'[b] = f
        BY <3>2, <4>1 DEF TokenTick, CapMemo
      <4>3. x \in -1..MaxCapMemoTTL
        BY <1>2, <4>1 DEF Larger
      <4>. HIDE DEF x
      <4>4. f \in CapMemo
        BY <4>1, <4>3 DEF CapMemo
      <4>. QED
        BY <4>2, <4>4
    <3>. QED
      BY <3>1, <3>2
  <2>2. caps' = [b \in Bucket |-> caps'[b]] /\ UNCHANGED <<timeout, mark, known, arrivals, upset>>
    BY DEF TokenTick, count
  <2>3. caps' \in [Bucket -> CapMemo \cup {None}]
    BY <2>1, <2>2
  <2>. QED
    BY <1>1, <2>2, <2>3 DEF MemoTypes
<1>6. RequestTypes' /\ RequestsOK'
  <2>1. ASSUME NEW r \in Request
        PROVE  /\ req'[r] \in Attempt /\ req'[r].rem <= req'[r].cost
               /\ req'[r].pc = req[r].pc
    <3>. DEFINE s == req[r]
                x == Larger(0, s.left - 1)
                t == [s EXCEPT !.left = x]
    <3>1. s \in Attempt /\ s.rem <= s.cost /\ s.left \in Nat
      BY <1>1 DEF RequestTypes, Attempt
    <3>2. req'[r] = t
      BY <3>1 DEF TokenTick, Attempt
    <3>3. x \in Nat
      BY <3>1 DEF Larger
    <3>. HIDE DEF x
    <3>4. t \in Attempt /\ t.rem = s.rem /\ t.cost = s.cost /\ t.pc = s.pc
      BY <3>1, <3>3 DEF Attempt
    <3>. HIDE DEF t
    <3>. QED
      BY <3>1, <3>2, <3>4
  <2>2. req' = [r \in Request |-> req'[r]]
    BY DEF TokenTick
  <2>3. RequestTypes'
    BY <2>1, <2>2 DEF RequestTypes
  <2>4. \A r \in Request : req'[r].pc \in {"idle", "serving"}
    BY <2>1 DEF TokenTick
  <2>5. RequestsOK'
    BY <2>4 DEF RequestsOK, BusyOK
  <2>. QED
    BY <2>3, <2>5
<1>. QED
  BY <1>4, <1>5, <1>6, PartsNext

LEMMA SetsTimeout ==
    ASSUME IInv, NEW t \in Timeout, SetTimeout(t)
    PROVE  IInv'
<1>1. BucketTypes /\ MemoTypes /\ RequestTypes /\ BooksOK /\ RequestsOK
  BY TypesSplit DEF IInv
<1>2. BucketTypes' /\ BooksOK' /\ InUse' = InUse
  BY <1>1, BucketsRest DEF SetTimeout, InUse
<1>3. MemoTypes'
  BY <1>1, TokensAssumption DEF SetTimeout, MemoTypes, Upset
<1>4. RequestTypes' /\ RequestsOK'
  BY <1>1, <1>2 DEF SetTimeout, RequestTypes, RequestsOK
<1>. QED
  BY <1>2, <1>3, <1>4, PartsNext

LEMMA StartsRight == TokenInit => IInv
<1>. SUFFICES ASSUME TokenInit PROVE IInv
  OBVIOUS
<1>1. BucketTypes /\ BooksOK
  BY DEF TokenInit, BucketTypes, BooksOK, BookOK
<1>2. MemoTypes
  BY TokensAssumption DEF TokenInit, MemoTypes
<1>3. \A r \in Request : req[r] = NoRequest
  BY DEF TokenInit
<1>4. RequestTypes
  BY <1>3, NoRequestType DEF TokenInit, RequestTypes
<1>5. RequestsOK
  BY <1>3, NoRequestType DEF RequestsOK, BusyOK
<1>. QED
  BY <1>1, <1>2, <1>4, <1>5, TypesSplit DEF IInv

LEMMA StepKeeps == ASSUME IInv, NEW r \in Request, Step(r) PROVE IInv'
<1>1. ASSUME NEW how \in Read, OwnerOf[r] # None, NEW c \in Cap[OwnerOf[r]] \ {0}, admitUserTPM(r, c, how)
      PROVE  IInv'
  BY <1>1, AdmitsOwner
<1>2. ASSUME NEW how \in Read, KeyOf[r] # None, NEW c \in Cap[KeyOf[r]] \ {0}, Allow(r, c, how)
      PROVE  IInv'
  BY <1>2, AdmitsKey
<1>3. ASSUME NEW c \in Cost, recordTokenUsage(r, c) PROVE IInv'
  BY <1>3, RecordsUsage
<1>. QED
  BY <1>1, <1>2, <1>3, AdmitsUncapped, HandsBack, BeginsDebit, ReadsBurst, ReservesChunk DEF Step

(* The books stay in order: the types, every bucket against its ledger,    *)
(* and no bucket idle while a request is busy with it.                     *)
THEOREM Inductive == TokenSpec => []IInv
<1>1. IInv /\ [TokenNext]_tpm => IInv'
  <2>. SUFFICES ASSUME IInv, [TokenNext]_tpm PROVE IInv'
    OBVIOUS
  <2>1. CASE TokenNext
    BY <2>1, StepKeeps, Sweeps, SetsTimeout, TickKeeps DEF TokenNext
  <2>2. CASE UNCHANGED tpm
    <3>1. UNCHANGED <<buckets, caps, timeout, mark, known, req, ledger, deep, arrivals, upset>>
      BY <2>2 DEF tpm, books, count
    <3>. QED
      BY <3>1 DEF IInv, TokenTypeOK, BooksOK, RequestsOK, BookOK, BusyOK, InUse
  <2>. QED
    BY <2>1, <2>2
<1>. QED
  BY <1>1, StartsRight, PTL DEF TokenSpec

(* Every bucket, memo and request keeps its type, no bucket is fuller than *)
(* its cap, and no debit has more left than it began with.                 *)
THEOREM TypeCorrect == TokenSpec => []TokenTypeOK
BY Inductive, PTL DEF IInv

(* An idle sweep, a rebuild or a resize forgives nothing that the idle     *)
(* cutoff has not paid off, and no chunk of a debit is lost: no bucket is  *)
(* ever fuller than it would be had it never been swept (sweep, getEntry,  *)
(* debitBucket).                                                           *)
THEOREM NothingForgiven == TokenSpec => []SpendCounted
<1>1. IInv => SpendCounted
  BY DEF IInv, BooksOK, BookOK, SpendCounted
<1>. QED
  BY <1>1, Inductive, PTL

-----------------------------------------------------------------------------
(* A memo outlives every request that was admitted against it.             *)

(* What the mark remembers is kept for the longest timeout a read has      *)
(* answered.                                                               *)
MarkOK == known = 0 \/ mark >= capMemoTTL(known)

(* A step of one request that takes no memo away and shortens none. *)
LEMMA MemoMoves ==
    ASSUME IInv, MemosOK, NEW r \in Request, NEW s, W(r, s), MemoOK(s, caps'),
           caps' \in [Bucket -> CapMemo \cup {None}],
           \A b \in Bucket : caps[b] # None => caps'[b] # None /\ caps'[b].ttl >= caps[b].ttl,
           MarkOK'
    PROVE  MemosOK'
<1>1. /\ req \in [Request -> Attempt] /\ caps \in [Bucket -> CapMemo \cup {None}]
      /\ Timeout \subseteq Nat
  BY TokensAssumption DEF IInv, TokenTypeOK
<1>2. ASSUME NEW q \in Request
      PROVE  MemoOK(req'[q], caps')
  <2>1. CASE q = r
    BY <1>1, <2>1 DEF W
  <2>2. CASE q # r
    <3>1. req'[q] = req[q] /\ MemoOK(req[q], caps) /\ req[q] \in Attempt
      BY <1>1, <2>2 DEF W, MemosOK
    <3>2. req[q].held \subseteq Bucket /\ Needs(req[q]) \in Int
      <4>1. /\ req[q].held \subseteq Bucket /\ req[q].left \in Int
            /\ req[q].claimed \in Timeout \/ req[q].claimed = -1
        BY <3>1 DEF Attempt
      <4>2. req[q].claimed \in Int
        <5>1. CASE req[q].claimed \in Timeout
          <6>1. req[q].claimed \in Nat
            BY <1>1, <5>1, Zenon
          <6>. QED
            BY <6>1
        <5>2. CASE req[q].claimed = -1
          BY <5>2
        <5>. QED
          BY <4>1, <5>1, <5>2
      <4>. QED
        BY <4>1, <4>2 DEF Needs
    <3>3. ASSUME ~req[q].excused, NEW b \in req[q].held
          PROVE  caps'[b] # None /\ caps'[b].ttl >= Needs(req[q])
      <4>1. caps[b] # None /\ caps[b].ttl >= Needs(req[q]) /\ b \in Bucket
        BY <3>1, <3>2, <3>3 DEF MemoOK
      <4>2. caps'[b] # None /\ caps'[b].ttl >= caps[b].ttl
        BY <4>1
      <4>3. caps[b].ttl \in Int /\ caps'[b].ttl \in Int
        BY <1>1, <4>1, <4>2, TokensAssumption DEF CapMemo
      <4>. HIDE DEF Needs
      <4>. QED
        BY <3>2, <4>1, <4>2, <4>3
    <3>. QED
      BY <3>1, <3>3 DEF MemoOK
  <2>. QED
    BY <2>1, <2>2
<1>. QED
  BY <1>2 DEF MemosOK, MarkOK

(* A read that was answered leaves a mark as long as its own horizon. *)
LEMMA MarkClimbs ==
    ASSUME IInv, MemosOK, NEW how \in Read, rememberHorizon(how)
    PROVE  MarkOK'
<1>1. /\ Timeout \subseteq Nat /\ timeout \in Timeout /\ DefaultTimeout \in Timeout
      /\ known \in Nat /\ mark \in Nat /\ (known = 0 \/ mark >= capMemoTTL(known))
  <2>1. Horizon \subseteq Nat
    BY TokensAssumption, HorizonBounds DEF Horizon
  <2>. QED
    BY <2>1, TokensAssumption DEF IInv, TokenTypeOK, MemosOK
<1>2. /\ capMemoTTL(timeout) \in Nat /\ capMemoTTL(known) \in Nat
      /\ capMemoTTL(DefaultTimeout) \in Nat
  BY <1>1, HorizonBounds, TokensAssumption
<1>3. CASE how = "answered"
  <2>1. mark' = Larger(mark, capMemoTTL(timeout)) /\ known' = Larger(known, timeout)
    BY <1>3 DEF rememberHorizon, readHorizon
  <2>2. mark' >= mark /\ mark' >= capMemoTTL(timeout) /\ mark' \in Nat
    BY <1>1, <1>2, <2>1 DEF Larger
  <2>3. CASE known' = known
    BY <1>1, <1>2, <2>2, <2>3 DEF MarkOK
  <2>4. CASE known' = timeout
    BY <1>1, <1>2, <2>2, <2>4 DEF MarkOK
  <2>. QED
    BY <2>1, <2>3, <2>4 DEF Larger
<1>4. CASE how # "answered"
  <2>1. mark' = Larger(mark, capMemoTTL(DefaultTimeout)) /\ known' = known
    BY <1>4 DEF rememberHorizon, readHorizon
  <2>2. mark' >= mark /\ mark' \in Nat
    BY <1>1, <1>2, <2>1 DEF Larger
  <2>. QED
    BY <1>1, <1>2, <2>1, <2>2 DEF MarkOK
<1>. QED
  BY <1>3, <1>4

(* The horizon of an admission that is not excused is as long as the       *)
(* timeout it was claimed under (memoHorizon).                             *)
LEMMA HorizonSuffices ==
    ASSUME WithinCeiling, IInv, MemosOK, NEW how \in Read, ~Excused(how)
    PROVE  memoHorizon(how) >= timeout
<1>1. /\ Timeout \subseteq Nat /\ timeout \in Timeout /\ DefaultTimeout \in Timeout
      /\ known \in Nat /\ mark \in Nat /\ (known = 0 \/ mark >= capMemoTTL(known))
  <2>1. Horizon \subseteq Nat
    BY TokensAssumption, HorizonBounds DEF Horizon
  <2>. QED
    BY <2>1, TokensAssumption DEF IInv, TokenTypeOK, MemosOK
<1>2. /\ capMemoTTL(timeout) \in Nat /\ capMemoTTL(known) \in Nat
      /\ capMemoTTL(DefaultTimeout) \in Nat
      /\ timeout <= capMemoTTL(timeout)
  BY <1>1, HorizonBounds, TokensAssumption DEF WithinCeiling
<1>3. CASE how = "answered"
  BY <1>1, <1>2, <1>3 DEF memoHorizon, readHorizon
<1>4. CASE how = "slow"
  <2>1. timeout <= known
    BY <1>1, <1>4 DEF Excused
  <2>2. known = 0 \/ capMemoTTL(timeout) <= capMemoTTL(known)
    BY <1>1, <2>1, HorizonBounds
  <2>3. memoHorizon(how) = Larger(mark, capMemoTTL(DefaultTimeout))
    BY <1>4 DEF memoHorizon, readHorizon
  <2>4. memoHorizon(how) >= mark /\ memoHorizon(how) \in Nat
    BY <1>1, <1>2, <2>3 DEF Larger
  <2>. QED
    BY <1>1, <1>2, <2>1, <2>2, <2>4
<1>. QED
  BY <1>3, <1>4 DEF Read, Excused

(* An admission stage that leaves request r in state s. *)
LEMMA StagedMemo ==
    ASSUME WithinCeiling, IInv, MemosOK, NEW r \in Request, NEW s \in Attempt,
           NEW b \in Bucket, NEW c \in AnyCap \ {0}, NEW how \in Read, NEW take \in BOOLEAN,
           Stage(r, s, b, c, how, take),
           s.pc \in {"idle", "key", "handback", "admitted"},
           s.pc = "idle" => s.held = {},
           s.dropped => s.excused,
           ~s.excused => \A x \in s.held \ {b} :
                            s.claimed # -1 /\ caps[x] # None /\ caps[x].ttl >= s.claimed
    PROVE  MemosOK'
<1>. DEFINE x == s.excused \/ Excused(how)
            t == IF s.claimed = -1 THEN timeout ELSE Smaller(s.claimed, timeout)
            u == [s EXCEPT !.excused = x, !.claimed = t]
            h == memoHorizon(how)
<1>1. /\ timeout \in Timeout /\ Timeout \subseteq Nat /\ MaxCapMemoTTL \in Nat
      /\ caps \in [Bucket -> CapMemo \cup {None}] /\ MemoTypes
  BY TokensAssumption, TypesSplit DEF IInv, TokenTypeOK
<1>2. /\ W(r, u) /\ caps' = [caps EXCEPT ![b] = Claimed(b, c, h)] /\ rememberHorizon(how)
  BY DEF Stage, Attempt
<1>3. x \in BOOLEAN /\ t \in Timeout /\ t <= timeout /\ (s.claimed # -1 => t <= s.claimed)
  <2>1. /\ s.excused \in BOOLEAN /\ (s.claimed \in Timeout \/ s.claimed = -1)
    BY DEF Attempt
  <2>2. x \in BOOLEAN
    BY <2>1
  <2>3. CASE s.claimed = -1
    BY <1>1, <2>2, <2>3
  <2>4. CASE s.claimed # -1
    <3>1. s.claimed \in Timeout /\ s.claimed \in Nat /\ timeout \in Nat
      BY <1>1, <2>1, <2>4
    <3>. QED
      BY <1>1, <2>2, <2>4, <3>1 DEF Smaller
  <2>. QED
    BY <2>3, <2>4
<1>4. h \in 0..MaxCapMemoTTL /\ (~x => h >= timeout)
  BY <1>1, <1>2, HorizonRemembered, HorizonSuffices
<1>. HIDE DEF h
<1>5. /\ Claimed(b, c, h) \in CapMemo /\ Claimed(b, c, h) # None
      /\ Claimed(b, c, h).ttl >= h
      /\ caps[b] # None => Claimed(b, c, h).ttl >= caps[b].ttl
  BY <1>1, <1>4, MemoClaimed
<1>6. /\ caps' \in [Bucket -> CapMemo \cup {None}]
      /\ \A y \in Bucket : caps'[y] = IF y = b THEN Claimed(b, c, h) ELSE caps[y]
  BY <1>1, <1>2, <1>5
<1>7. ASSUME NEW y \in Bucket, caps[y] # None
      PROVE  caps'[y] # None /\ caps'[y].ttl >= caps[y].ttl
  <2>1. caps[y].ttl \in Int
    BY <1>1, <1>7 DEF CapMemo
  <2>. QED
    BY <1>5, <1>6, <1>7, <2>1
<1>8. ~x => ~s.excused
  OBVIOUS
<1>9. s.excused => x
  OBVIOUS
<1>10. s.excused \in BOOLEAN /\ s.claimed \in Timeout \cup {-1} /\ s.held \subseteq Bucket
  BY DEF Attempt
<1>. HIDE DEF x, t
<1>11. /\ u \in Attempt /\ u.pc = s.pc /\ u.held = s.held /\ u.dropped = s.dropped
       /\ u.excused = x /\ u.claimed = t
  BY <1>3 DEF Attempt
<1>. HIDE DEF u
<1>12. Needs(u) = IF s.pc = "idle" THEN 0 ELSE t
  BY <1>11 DEF Needs
<1>13. ASSUME ~x, NEW y \in s.held
       PROVE  caps'[y] # None /\ caps'[y].ttl >= t
  <2>1. CASE y = b
    <3>1. caps'[y] = Claimed(b, c, h) /\ caps'[y].ttl \in Int
      BY <1>5, <1>6, <2>1, <1>1 DEF CapMemo
    <3>. QED
      BY <1>1, <1>3, <1>4, <1>5, <1>13, <3>1
  <2>2. CASE y # b
    <3>1. caps'[y] = caps[y] /\ s.claimed # -1 /\ caps[y] # None /\ caps[y].ttl >= s.claimed
      BY <1>6, <1>8, <1>10, <1>13, <2>2
    <3>2. caps[y].ttl \in Int
      BY <1>1, <1>10, <1>13, <3>1 DEF CapMemo
    <3>3. s.claimed \in Timeout
      BY <1>10, <3>1, Zenon
    <3>4. s.claimed \in Nat /\ t \in Nat
      BY <1>1, <1>3, <3>3, Zenon
    <3>. QED
      BY <1>3, <3>1, <3>2, <3>4
  <2>. QED
    BY <2>1, <2>2
<1>14. MemoOK(u, caps')
  <2>1. t # -1
    BY <1>1, <1>3
  <2>2. s.pc # "idle" \/ s.held = {}
    OBVIOUS
  <2>3. u.dropped => u.excused
    BY <1>9, <1>11
  <2>4. ~u.excused => \A y \in u.held : caps'[y] # None /\ caps'[y].ttl >= Needs(u)
    BY <1>11, <1>12, <1>13, <2>2
  <2>. QED
    BY <1>11, <2>1, <2>2, <2>3, <2>4 DEF MemoOK
<1>15. MarkOK'
  BY <1>2, MarkClimbs
<1>. QED
  BY <1>2, <1>6, <1>7, <1>14, <1>15, MemoMoves

(* The state of a request that an invariant speaks of, in one place. *)
LEMMA MemoOf ==
    ASSUME IInv, MemosOK, NEW r \in Request
    PROVE  /\ req[r] \in Attempt /\ MemoOK(req[r], caps)
           /\ caps \in [Bucket -> CapMemo \cup {None}]
           /\ \A b \in Bucket : caps[b] # None => caps[b].ttl \in Int
           /\ req[r].held \subseteq Bucket
           /\ req[r].claimed # -1 => req[r].claimed \in Nat
           /\ req[r].left \in Nat /\ timeout \in Nat
<1>1. /\ req[r] \in Attempt /\ MemoOK(req[r], caps)
      /\ caps \in [Bucket -> CapMemo \cup {None}] /\ timeout \in Timeout
  BY DEF IInv, TokenTypeOK, MemosOK
<1>2. Timeout \subseteq Nat /\ MaxCapMemoTTL \in Nat
  BY TokensAssumption
<1>3. \A b \in Bucket : caps[b] # None => caps[b].ttl \in Int
  BY <1>1, <1>2 DEF CapMemo
<1>4. /\ req[r].held \subseteq Bucket /\ req[r].left \in Nat
      /\ req[r].claimed \in Timeout \cup {-1}
  BY <1>1 DEF Attempt
<1>. QED
  BY <1>1, <1>2, <1>3, <1>4

(* A step of one request that leaves the memos and the mark alone. *)
LEMMA MemosRest ==
    ASSUME IInv, MemosOK, NEW r \in Request, NEW s, W(r, s), MemoOK(s, caps),
           UNCHANGED <<caps, mark, known>>
    PROVE  MemosOK'
<1>1. caps \in [Bucket -> CapMemo \cup {None}] /\ \A b \in Bucket : caps[b] # None => caps[b].ttl \in Int
  BY MemoOf
<1>2. MarkOK'
  BY DEF MemosOK, MarkOK
<1>. QED
  BY <1>1, <1>2, MemoMoves

(* A request that is over, or that goes on to its next debit, needs no     *)
(* more than it did.                                                       *)
LEMMA MemoOver ==
    ASSUME NEW s \in Attempt, s.dropped => s.excused
    PROVE  MemoOK(Over(s), caps)
BY OverType DEF MemoOK

LEMMA MemoDebits ==
    ASSUME NEW s \in Attempt, NEW b \in Bucket, s.dropped => s.excused,
           s.held # {} => s.claimed # -1,
           ~s.excused => \A x \in s.held : caps[x] # None /\ caps[x].ttl >= 0
    PROVE  MemoOK(Debits(s, b), caps)
<1>. DEFINE t == Debits(s, b)
<1>1. /\ t.pc = "debit" /\ t.held = s.held /\ t.dropped = s.dropped
      /\ t.excused = s.excused /\ t.claimed = s.claimed
  BY DebitsType
<1>. HIDE DEF t
<1>2. Needs(t) = 0
  BY <1>1 DEF Needs
<1>3. MemoOK(t, caps)
  BY <1>1, <1>2 DEF MemoOK
<1>. QED
  BY <1>3 DEF t

LEMMA MemoNextDebit ==
    ASSUME NEW r \in Request, NEW s \in Attempt, s.dropped => s.excused,
           s.held # {} => s.claimed # -1,
           ~s.excused => \A x \in s.held : caps[x] # None /\ caps[x].ttl >= 0
    PROVE  MemoOK(NextDebit(r, s), caps)
<1>1. CASE s.at = KeyOf[r] /\ OwnerOf[r] # None
  <2>1. OwnerOf[r] \in Bucket /\ NextDebit(r, s) = Debits(s, OwnerOf[r])
    BY <1>1, OwnedBuckets DEF NextDebit
  <2>. QED
    BY <2>1, MemoDebits
<1>2. CASE ~(s.at = KeyOf[r] /\ OwnerOf[r] # None)
  BY <1>2, MemoOver DEF NextDebit
<1>. QED
  BY <1>1, <1>2

LEMMA MemoAdmits ==
    ASSUME WithinCeiling, IInv, MemosOK, NEW r \in Request, NEW how \in Read, NEW c,
           \/ OwnerOf[r] # None /\ c \in Cap[OwnerOf[r]] \ {0} /\ admitUserTPM(r, c, how)
           \/ KeyOf[r] # None /\ c \in Cap[KeyOf[r]] \ {0} /\ Allow(r, c, how)
    PROVE  MemosOK'
<1>1. CASE OwnerOf[r] # None /\ c \in Cap[OwnerOf[r]] \ {0} /\ admitUserTPM(r, c, how)
  <2>. DEFINE o == OwnerOf[r]
              i == IF Resolved(o, c).level < 1 THEN "handback" ELSE AfterOwner(r)
              d == Larger(0, 1 - Resolved(o, c).level)
              s == [NoRequest EXCEPT !.pc = i, !.held = {o}, !.due = d]
  <2>1. o \in Bucket /\ c \in AnyCap \ {0}
    BY <1>1, OwnedBuckets, CapIsNat
  <2>2. Stage(r, s, o, c, how, TRUE)
    BY <1>1 DEF admitUserTPM
  <2>3. i \in {"handback", "key", "admitted"} /\ d \in Nat
    <3>1. Resolved(o, c).level \in Int
      BY <2>1, ResolvedType DEF IInv, TokenEntry
    <3>. QED
      BY <3>1 DEF AfterOwner, Larger
  <2>. HIDE DEF i, d, o
  <2>4. /\ s \in Attempt /\ s.pc = i /\ s.held = {o} /\ s.dropped = FALSE
    BY <2>1, <2>3, NoRequestType DEF Attempt
  <2>. HIDE DEF s
  <2>5. \A x \in s.held \ {o} : FALSE
    BY <2>4
  <2>. QED
    BY <2>1, <2>2, <2>3, <2>4, <2>5, StagedMemo
<1>2. CASE KeyOf[r] # None /\ c \in Cap[KeyOf[r]] \ {0} /\ Allow(r, c, how)
  <2>. DEFINE k == KeyOf[r]
              ok == Resolved(k, c).level >= 1
              i == IF ok THEN "admitted" ELSE IF req[r].held = {} THEN "idle" ELSE "handback"
              h == IF ok THEN req[r].held \cup {k} ELSE req[r].held
              s == [req[r] EXCEPT !.pc = i, !.held = h]
  <2>1. k \in Bucket /\ c \in AnyCap \ {0}
    BY <1>2, OwnedBuckets, CapIsNat
  <2>2. req[r] \in Attempt /\ MemoOK(req[r], caps) /\ req[r].held \subseteq Bucket
    BY MemoOf
  <2>3. Stage(r, s, k, c, how, ok) /\ req[r].pc = "key"
    BY <1>2, <2>2 DEF Allow, Attempt
  <2>4. /\ i \in {"admitted", "idle", "handback"} /\ h \subseteq Bucket
        /\ (i = "idle" => h = {}) /\ h \subseteq req[r].held \cup {k}
    BY <2>1, <2>2
  <2>5. ok \in BOOLEAN
    OBVIOUS
  <2>. HIDE DEF i, h, k, ok
  <2>6. /\ s \in Attempt /\ s.pc = i /\ s.held = h /\ s.dropped = req[r].dropped
        /\ s.excused = req[r].excused /\ s.claimed = req[r].claimed
    BY <2>2, <2>4 DEF Attempt
  <2>. HIDE DEF s
  <2>7. Needs(req[r]) = req[r].claimed
    BY <2>3 DEF Needs
  <2>8. /\ s.dropped => s.excused
        /\ ~s.excused => \A x \in s.held \ {k} :
                            s.claimed # -1 /\ caps[x] # None /\ caps[x].ttl >= s.claimed
    BY <2>2, <2>4, <2>6, <2>7 DEF MemoOK
  <2>. QED
    BY <2>1, <2>3, <2>4, <2>5, <2>6, <2>8, StagedMemo
<1>. QED
  BY <1>1, <1>2

LEMMA MemoProceeds ==
    ASSUME IInv, MemosOK, NEW r \in Request,
           admitUncapped(r) \/ AllowUncapped(r) \/ CancelAt(r) \/ Serve(r)
    PROVE  MemosOK'
<1>1. /\ req[r] \in Attempt /\ MemoOK(req[r], caps)
      /\ \A b \in Bucket : caps[b] # None => caps[b].ttl \in Int
      /\ req[r].held \subseteq Bucket
      /\ req[r].claimed # -1 => req[r].claimed \in Nat
      /\ req[r].left \in Nat /\ timeout \in Nat
  BY MemoOf
<1>2. CASE admitUncapped(r)
  <2>. DEFINE i == AfterOwner(r)
              s == [NoRequest EXCEPT !.pc = i]
  <2>1. W(r, s) /\ UNCHANGED <<caps, mark, known>>
    BY <1>2 DEF admitUncapped
  <2>2. i \in {"key", "admitted"}
    BY DEF AfterOwner
  <2>. HIDE DEF i
  <2>3. s.held = {} /\ s.pc = i /\ s.dropped = FALSE
    BY <2>2 DEF NoRequest
  <2>. HIDE DEF s
  <2>4. MemoOK(s, caps)
    BY <2>2, <2>3 DEF MemoOK
  <2>. QED
    BY <2>1, <2>4, MemosRest
<1>3. CASE AllowUncapped(r)
  <2>. DEFINE s == [req[r] EXCEPT !.pc = "admitted"]
  <2>1. W(r, s) /\ UNCHANGED <<caps, mark, known>> /\ req[r].pc = "key"
    BY <1>3 DEF AllowUncapped
  <2>2. /\ s.pc = "admitted" /\ s.held = req[r].held /\ s.dropped = req[r].dropped
        /\ s.excused = req[r].excused /\ s.claimed = req[r].claimed
    BY <1>1 DEF Attempt
  <2>. HIDE DEF s
  <2>3. Needs(s) = Needs(req[r])
    BY <2>1, <2>2 DEF Needs
  <2>4. MemoOK(s, caps)
    BY <1>1, <2>2, <2>3 DEF MemoOK
  <2>. QED
    BY <2>1, <2>4, MemosRest
<1>4. CASE CancelAt(r)
  <2>1. W(r, NoRequest) /\ UNCHANGED <<caps, mark, known>>
    BY <1>4 DEF CancelAt
  <2>2. MemoOK(NoRequest, caps)
    BY NoRequestType DEF MemoOK
  <2>. QED
    BY <2>1, <2>2, MemosRest
<1>5. CASE Serve(r)
  <2>0. PICK t \in {timeout, DefaultTimeout} :
            W(r, [req[r] EXCEPT !.pc = "serving", !.left = t,
                                !.excused = req[r].excused \/ t > req[r].claimed])
    BY <1>1, <1>5, Zenon DEF Serve
  <2>. DEFINE x == req[r].excused \/ t > req[r].claimed
              s == [req[r] EXCEPT !.pc = "serving", !.left = t, !.excused = x]
  <2>1. W(r, s) /\ UNCHANGED <<caps, mark, known>> /\ req[r].pc = "admitted"
    BY <1>5, <2>0 DEF Serve
  <2>2. (~x => ~req[r].excused /\ ~(t > req[r].claimed)) /\ (req[r].excused => x)
    OBVIOUS
  <2>. HIDE DEF x
  <2>3. /\ s.pc = "serving" /\ s.held = req[r].held /\ s.dropped = req[r].dropped
        /\ s.excused = x /\ s.claimed = req[r].claimed /\ s.left = t
    BY <1>1 DEF Attempt
  <2>. HIDE DEF s
  <2>4. Needs(s) = t /\ Needs(req[r]) = req[r].claimed
    BY <2>1, <2>3 DEF Needs
  <2>5. ASSUME ~x, NEW b \in req[r].held
        PROVE  caps[b] # None /\ caps[b].ttl >= t
    <3>1. req[r].claimed # -1 /\ caps[b] # None /\ caps[b].ttl >= req[r].claimed
      BY <1>1, <2>2, <2>4, <2>5 DEF MemoOK
    <3>2. req[r].claimed \in Nat /\ caps[b].ttl \in Int
      BY <1>1, <3>1
    <3>3. t \in Nat
      BY <1>1, TokensAssumption
    <3>. QED
      BY <2>2, <2>5, <3>1, <3>2, <3>3
  <2>6. MemoOK(s, caps)
    BY <1>1, <2>2, <2>3, <2>4, <2>5 DEF MemoOK
  <2>. QED
    BY <2>1, <2>6, MemosRest
<1>. QED
  BY <1>2, <1>3, <1>4, <1>5

LEMMA MemoDebited ==
    ASSUME IInv, MemosOK, NEW r \in Request,
           \/ \E c \in Cost : recordTokenUsage(r, c)
           \/ debitBucket(r) \/ ReadBurst(r) \/ ReserveChunk(r)
    PROVE  MemosOK'
<1>. DEFINE s == req[r]
<1>1. /\ s \in Attempt /\ MemoOK(s, caps)
      /\ \A b \in Bucket : caps[b] # None => caps[b].ttl \in Int
      /\ s.held \subseteq Bucket /\ s.left \in Nat
  BY MemoOf
<1>2. (s.dropped => s.excused) /\ (s.held # {} => s.claimed # -1)
  BY <1>1 DEF MemoOK
<1>3. ASSUME s.pc \in {"serving", "debit", "chunk", "reserve"}, ~s.excused, NEW b \in s.held
      PROVE  caps[b] # None /\ caps[b].ttl >= 0
  <2>1. Needs(s) \in Nat
    BY <1>1, <1>3 DEF Needs
  <2>2. caps[b] # None /\ caps[b].ttl >= Needs(s) /\ caps[b].ttl \in Int
    BY <1>1, <1>3 DEF MemoOK
  <2>. QED
    BY <2>1, <2>2
<1>4. ASSUME NEW tokens \in Cost, recordTokenUsage(r, tokens)
      PROVE  MemosOK'
  <2>. DEFINE v == [s EXCEPT !.cost = tokens]
              b == IF KeyOf[r] = None THEN OwnerOf[r] ELSE KeyOf[r]
              t == IF tokens = 0 \/ b = None THEN Over(v) ELSE Debits(v, b)
  <2>1. W(r, t) /\ UNCHANGED <<caps, mark, known>> /\ s.pc = "serving" /\ tokens \in Nat
    BY <1>4, TokensAssumption DEF recordTokenUsage
  <2>2. /\ v \in Attempt /\ v.held = s.held /\ v.dropped = s.dropped
        /\ v.excused = s.excused /\ v.claimed = s.claimed
    BY <1>1, <2>1 DEF Attempt
  <2>3. b # None => b \in Bucket
    BY OwnedBuckets
  <2>. HIDE DEF s, v, b
  <2>4. /\ v.dropped => v.excused
        /\ v.held # {} => v.claimed # -1
        /\ ~v.excused => \A x \in v.held : caps[x] # None /\ caps[x].ttl >= 0
    BY <1>2, <1>3, <2>1, <2>2
  <2>5. MemoOK(t, caps)
    <3>1. CASE tokens = 0 \/ b = None
      BY <2>2, <2>4, <3>1, MemoOver
    <3>2. CASE ~(tokens = 0 \/ b = None)
      BY <2>2, <2>3, <2>4, <3>2, MemoDebits
    <3>. QED
      BY <3>1, <3>2
  <2>. HIDE DEF t
  <2>. QED
    BY <2>1, <2>5, MemosRest
<1>5. CASE debitBucket(r)
  <2>. DEFINE b == s.at
              found == buckets[b] # None \/ caps[b] # None
  <2>1. s.pc = "debit" /\ UNCHANGED <<caps, mark, known>>
    BY <1>5 DEF debitBucket
  <2>2. CASE found
    <3>. DEFINE t == [s EXCEPT !.pc = "chunk"]
    <3>1. W(r, t)
      BY <1>5, <2>2 DEF debitBucket
    <3>2. /\ t.pc = "chunk" /\ t.held = s.held /\ t.dropped = s.dropped
          /\ t.excused = s.excused /\ t.claimed = s.claimed
      BY <1>1 DEF Attempt
    <3>. HIDE DEF t, s
    <3>3. Needs(t) = 0
      BY <3>2 DEF Needs
    <3>4. MemoOK(t, caps)
      BY <1>2, <1>3, <2>1, <3>2, <3>3 DEF MemoOK
    <3>. QED
      BY <2>1, <3>1, <3>4, MemosRest
  <2>3. CASE ~found
    <3>. DEFINE d == s.dropped \/ b \in s.held
                t == [s EXCEPT !.dropped = d]
    <3>1. W(r, NextDebit(r, t))
      BY <1>1, <1>5, <2>3 DEF debitBucket, Attempt
    <3>2. d \in BOOLEAN
      BY <1>1 DEF Attempt
    <3>3. d => s.excused
      BY <1>2, <1>3, <2>1, <2>3
    <3>. HIDE DEF d
    <3>4. /\ t \in Attempt /\ t.held = s.held /\ t.dropped = d
          /\ t.excused = s.excused /\ t.claimed = s.claimed
      BY <1>1, <3>2 DEF Attempt
    <3>. HIDE DEF t, s
    <3>5. /\ t.dropped => t.excused
          /\ t.held # {} => t.claimed # -1
          /\ ~t.excused => \A x \in t.held : caps[x] # None /\ caps[x].ttl >= 0
      BY <1>2, <1>3, <2>1, <3>3, <3>4
    <3>6. MemoOK(NextDebit(r, t), caps)
      BY <3>4, <3>5, MemoNextDebit
    <3>. QED
      BY <2>1, <3>1, <3>6, MemosRest
  <2>. QED
    BY <2>2, <2>3
<1>6. CASE ReadBurst(r)
  <2>. DEFINE n == Smaller(s.rem, buckets[s.at].cap)
              t == [s EXCEPT !.pc = "reserve", !.n = n]
  <2>1. W(r, t) /\ s.pc = "chunk" /\ UNCHANGED <<caps, mark, known>>
    BY <1>6 DEF ReadBurst
  <2>. HIDE DEF n
  <2>2. /\ t.pc = "reserve" /\ t.held = s.held /\ t.dropped = s.dropped
        /\ t.excused = s.excused /\ t.claimed = s.claimed
    BY <1>1 DEF Attempt
  <2>. HIDE DEF t, s
  <2>3. Needs(t) = 0
    BY <2>2 DEF Needs
  <2>4. MemoOK(t, caps)
    BY <1>2, <1>3, <2>1, <2>2, <2>3 DEF MemoOK
  <2>. QED
    BY <2>1, <2>4, MemosRest
<1>7. CASE ReserveChunk(r)
  <2>. DEFINE m == IF ChunkCounts(r) THEN s.rem - s.n ELSE s.rem
              t == [s EXCEPT !.pc = "chunk", !.rem = m, !.n = 0]
              u == IF t.rem = 0 THEN NextDebit(r, t) ELSE t
  <2>1. W(r, u) /\ s.pc = "reserve" /\ UNCHANGED <<caps, mark, known>>
    BY <1>1, <1>7 DEF ReserveChunk, Attempt
  <2>2. m \in Nat
    BY <1>1, <2>1 DEF IInv, RequestsOK, BusyOK, Attempt
  <2>. HIDE DEF m
  <2>3. /\ t \in Attempt /\ t.pc = "chunk" /\ t.held = s.held /\ t.dropped = s.dropped
        /\ t.excused = s.excused /\ t.claimed = s.claimed
    BY <1>1, <2>2 DEF Attempt
  <2>. HIDE DEF t, s
  <2>4. /\ t.dropped => t.excused
        /\ t.held # {} => t.claimed # -1
        /\ ~t.excused => \A x \in t.held : caps[x] # None /\ caps[x].ttl >= 0
    BY <1>2, <1>3, <2>1, <2>3
  <2>5. MemoOK(NextDebit(r, t), caps)
    BY <2>3, <2>4, MemoNextDebit
  <2>6. Needs(t) = 0
    BY <2>3 DEF Needs
  <2>7. MemoOK(t, caps)
    BY <2>3, <2>4, <2>6 DEF MemoOK
  <2>8. MemoOK(u, caps)
    BY <2>5, <2>7
  <2>. HIDE DEF u
  <2>. QED
    BY <2>1, <2>8, MemosRest
<1>. QED
  BY <1>4, <1>5, <1>6, <1>7

(* What a request needs is never negative, so the sweep takes none of its  *)
(* memos.                                                                  *)
LEMMA MemoSwept ==
    ASSUME IInv, MemosOK, NEW how \in Read, sweep(how)
    PROVE  MemosOK'
<1>1. /\ req' = req /\ rememberHorizon(how)
      /\ caps' = [b \in Bucket |-> IF caps[b] # None /\ caps[b].ttl < 0 THEN None ELSE caps[b]]
  BY DEF sweep
<1>2. ASSUME NEW r \in Request
      PROVE  MemoOK(req[r], caps')
  <2>. DEFINE s == req[r]
  <2>1. /\ s \in Attempt /\ MemoOK(s, caps)
        /\ \A b \in Bucket : caps[b] # None => caps[b].ttl \in Int
        /\ s.held \subseteq Bucket /\ s.left \in Nat
        /\ s.claimed # -1 => s.claimed \in Nat
    BY MemoOf
  <2>2. ASSUME ~s.excused, NEW b \in s.held
        PROVE  caps'[b] # None /\ caps'[b].ttl >= Needs(s)
    <3>1. /\ s.claimed # -1 /\ caps[b] # None /\ caps[b].ttl >= Needs(s)
          /\ b \in Bucket /\ caps[b].ttl \in Int
      BY <2>1, <2>2 DEF MemoOK
    <3>2. Needs(s) \in Nat
      BY <2>1, <3>1 DEF Needs
    <3>3. ~(caps[b].ttl < 0)
      BY <3>1, <3>2
    <3>. QED
      BY <1>1, <3>1, <3>3
  <2>. QED
    BY <2>1, <2>2 DEF MemoOK
<1>3. MarkOK'
  BY <1>1, MarkClimbs
<1>. QED
  BY <1>1, <1>2, <1>3 DEF MemosOK, MarkOK

(* A tick takes the same from a request's life and from its memos. *)
LEMMA MemoTicks ==
    ASSUME IInv, MemosOK, TokenTick
    PROVE  MemosOK'
<1>1. ASSUME NEW r \in Request
      PROVE  MemoOK(req'[r], caps')
  <2>. DEFINE s == req[r]
              x == Larger(0, s.left - 1)
              t == [s EXCEPT !.left = x]
  <2>1. /\ s \in Attempt /\ MemoOK(s, caps)
        /\ caps \in [Bucket -> CapMemo \cup {None}]
        /\ \A b \in Bucket : caps[b] # None => caps[b].ttl \in Int
        /\ s.held \subseteq Bucket /\ s.left \in Nat
    BY MemoOf
  <2>2. req'[r] = t /\ (s.pc = "idle" \/ (s.pc = "serving" /\ s.left > 0))
    BY <2>1 DEF TokenTick, Attempt
  <2>3. s.left > 0 => x = s.left - 1
    BY <2>1 DEF Larger
  <2>. HIDE DEF x
  <2>4. /\ t.pc = s.pc /\ t.held = s.held /\ t.dropped = s.dropped
        /\ t.excused = s.excused /\ t.claimed = s.claimed /\ t.left = x
    BY <2>1 DEF Attempt
  <2>. HIDE DEF t, s
  <2>5. CASE s.pc = "idle"
    <3>1. t.held = {}
      BY <2>1, <2>4, <2>5 DEF MemoOK
    <3>2. MemoOK(t, caps')
      BY <2>1, <2>4, <3>1 DEF MemoOK
    <3>. QED
      BY <2>2, <3>2
  <2>6. CASE s.pc = "serving" /\ s.left > 0
    <3>1. Needs(t) = x /\ Needs(s) = s.left /\ x = s.left - 1
      BY <2>3, <2>4, <2>6 DEF Needs
    <3>2. ASSUME ~s.excused, NEW b \in s.held
          PROVE  caps'[b] # None /\ caps'[b].ttl >= x
      <4>1. /\ caps[b] # None /\ caps[b].ttl >= s.left /\ b \in Bucket
            /\ caps[b].ttl \in Int /\ caps[b] \in CapMemo
        BY <2>1, <3>1, <3>2 DEF MemoOK
      <4>. DEFINE y == Larger(-1, caps[b].ttl - 1)
                  f == [caps[b] EXCEPT !.ttl = y]
      <4>2. caps'[b] = f
        BY <4>1 DEF TokenTick, CapMemo
      <4>3. y \in -1..MaxCapMemoTTL /\ y >= x
        BY <2>1, <3>1, <4>1, TokensAssumption DEF Larger, CapMemo
      <4>. HIDE DEF y
      <4>4. f \in CapMemo /\ f.ttl = y
        BY <4>1, <4>3 DEF CapMemo
      <4>. HIDE DEF f
      <4>. QED
        BY <4>2, <4>3, <4>4, NoneAssumption
    <3>3. MemoOK(t, caps')
      BY <2>1, <2>4, <2>6, <3>1, <3>2 DEF MemoOK
    <3>. QED
      BY <2>2, <3>3
  <2>. QED
    BY <2>2, <2>5, <2>6
<1>2. UNCHANGED <<mark, known>>
  BY DEF TokenTick
<1>. QED
  BY <1>1, <1>2 DEF MemosOK

(* Every request that was admitted is charged to the buckets it was        *)
(* admitted against, for any timeouts up to the ceiling of a memo: their   *)
(* memos outlive it, however the timeout is edited, the buckets are swept  *)
(* and other requests claim the same memos (getEntry, sweep, debitBucket). *)
(* Without the ceiling the memo of a request that lives longer goes first. *)
THEOREM AdmittedIsCharged ==
    ASSUME WithinCeiling
    PROVE  TokenSpec => []DebitLands
<1>1. TokenInit => MemosOK
  <2>. SUFFICES ASSUME TokenInit PROVE MemosOK
    OBVIOUS
  <2>1. \A r \in Request : req[r] = NoRequest /\ known = 0
    BY DEF TokenInit
  <2>2. MemoOK(NoRequest, caps)
    BY NoRequestType DEF MemoOK
  <2>. QED
    BY <2>1, <2>2 DEF MemosOK, TokenInit
<1>2. IInv /\ MemosOK /\ [TokenNext]_tpm => MemosOK'
  <2>. SUFFICES ASSUME IInv, MemosOK, [TokenNext]_tpm PROVE MemosOK'
    OBVIOUS
  <2>1. ASSUME NEW r \in Request, Step(r) PROVE MemosOK'
    <3>1. ASSUME NEW how \in Read, NEW c,
                 \/ OwnerOf[r] # None /\ c \in Cap[OwnerOf[r]] \ {0} /\ admitUserTPM(r, c, how)
                 \/ KeyOf[r] # None /\ c \in Cap[KeyOf[r]] \ {0} /\ Allow(r, c, how)
          PROVE  MemosOK'
      BY <3>1, MemoAdmits
    <3>2. CASE admitUncapped(r) \/ AllowUncapped(r) \/ CancelAt(r) \/ Serve(r)
      BY <3>2, MemoProceeds
    <3>3. CASE \/ \E c \in Cost : recordTokenUsage(r, c)
               \/ debitBucket(r) \/ ReadBurst(r) \/ ReserveChunk(r)
      BY <3>3, MemoDebited
    <3>. QED
      BY <2>1, <3>1, <3>2, <3>3 DEF Step
  <2>2. ASSUME NEW t \in Timeout, SetTimeout(t) PROVE MemosOK'
    BY <2>2 DEF SetTimeout, MemosOK, MemoOK, Needs
  <2>3. CASE UNCHANGED tpm
    BY <2>3 DEF tpm, MemosOK, MemoOK, Needs
  <2>. QED
    BY <2>1, <2>2, <2>3, MemoSwept, MemoTicks DEF TokenNext
<1>3. MemosOK => DebitLands
  BY DEF MemosOK, MemoOK, DebitLands
<1>. QED
  BY <1>1, <1>2, <1>3, Inductive, PTL DEF TokenSpec
=============================================================================
