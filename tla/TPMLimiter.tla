----------------------------- MODULE TPMLimiter -----------------------------
(***************************************************************************)
(* The tokens-per-minute limiter (internal/ratelimit/tpm_limiter.go).      *)
(*                                                                         *)
(* A request is admitted on one placeholder token of its owner's bucket    *)
(* and one of its key's, and its real cost is debited when it is over.  A  *)
(* bucket nobody uses is swept; a memo of its cap lives on, for as long as *)
(* any request admitted against it can, so that a late debit rebuilds the  *)
(* bucket.                                                                 *)
(*                                                                         *)
(* Time is a tick, the minute a bucket refills in.  A level may be         *)
(* negative: debt.  The cap a request carries, its key's or its owner's    *)
(* and this member's share of it, is read afresh for every request, so it  *)
(* may differ from the bucket's.  The kill switches, the headers and the   *)
(* throttle log are left out.                                              *)
(***************************************************************************)
EXTENDS Integers

CONSTANTS
    Request,
    Key, Owner, None,   \* a bucket per key and one per owner
    KeyOf, OwnerOf,     \* per request; None for a session's key, for no owner
    Cap,                \* per bucket, the caps requests may carry; 0 is none
    Cost,               \* totals a request may end with
    IdleCutoff,         \* ticks, ten in the code
    Timeout,            \* values of request_timeout, in ticks a request lives,
                        \* which is twenty times the setting
    DefaultTimeout,
    MinCapMemoTTL, MaxCapMemoTTL,
    MaxArrivals,        \* requests that come
    MaxUpset            \* reads without an answer and edits of the timeout

Bucket == Key \cup Owner

ASSUME TokensAssumption ==
    /\ None \notin Bucket
    /\ KeyOf \in [Request -> Key \cup {None}] /\ OwnerOf \in [Request -> Owner \cup {None}]
    /\ Cap \in [Bucket -> SUBSET Nat] /\ Cost \subseteq Nat
    /\ IdleCutoff \in Nat /\ MinCapMemoTTL \in Nat /\ MaxCapMemoTTL \in Nat
    /\ Timeout \subseteq Nat /\ DefaultTimeout \in Timeout
    /\ MaxArrivals \in Nat /\ MaxUpset \in Nat

Larger(x, y)  == IF x > y THEN x ELSE y
Smaller(x, y) == IF x < y THEN x ELSE y

(* capMemoTTL: twice the life of a request, between a floor and a ceiling. *)
capMemoTTL(t) == Smaller(MaxCapMemoTTL, Larger(MinCapMemoTTL, 2 * t))

VARIABLES
    buckets,    \* per bucket, level, cap, ticks since its last use and how far
                \* off its last reservation is, in tokens; None when absent
    caps,       \* per bucket, its memo: cap and ticks left, None when absent
    timeout,    \* the setting request_timeout
    mark,       \* lastGoodHorizon
    req,        \* per request, where it is
    known,      \* history: the longest timeout a read has answered
    ledger,     \* history: per bucket, its level had it never been swept
    deep,       \* history: the ledger owed more than the cutoff pays off
    arrivals, upset     \* how often

books == <<ledger, deep>>
count == <<arrivals, upset>>
tpm   == <<buckets, caps, timeout, mark, known, req, books, count>>

NoRequest ==
    [ pc |-> "idle", held |-> {}, due |-> 0, claimed |-> -1, excused |-> FALSE,
      left |-> 0, at |-> None, cost |-> 0, rem |-> 0, n |-> 0, dropped |-> FALSE ]

Horizon == {capMemoTTL(t) : t \in Timeout}
AnyCap  == UNION {Cap[b] : b \in Bucket}

TokenEntry ==
    [ level : Int, cap : AnyCap \ {0}, idle : 0..(IdleCutoff + 1), due : Nat ]
CapMemo == [ tpm : AnyCap \ {0}, ttl : -1..MaxCapMemoTTL ]

ASSUME NoneAssumption == None \notin TokenEntry /\ None \notin CapMemo

(* held are the buckets the request is admitted against, due how far off   *)
(* its reservation is, claimed the shortest timeout its memos were claimed *)
(* under, left the ticks to its deadline; at, cost, rem and n are the      *)
(* bucket being debited, the total, what is left of it and the chunk.      *)
Attempt ==
    [ pc : {"idle", "handback", "key", "admitted", "serving", "debit", "chunk", "reserve"},
      held : SUBSET Bucket, due : Nat, claimed : Timeout \cup {-1}, excused : BOOLEAN,
      left : Nat, at : Bucket \cup {None}, cost : Nat, rem : Nat, n : Nat,
      dropped : BOOLEAN ]

TokenTypeOK ==
    /\ buckets \in [Bucket -> TokenEntry \cup {None}]
    /\ \A b \in Bucket : buckets[b] # None => buckets[b].level <= buckets[b].cap
    /\ caps \in [Bucket -> CapMemo \cup {None}]
    /\ timeout \in Timeout /\ known \in Timeout \cup {0} /\ mark \in Horizon \cup {0}
    /\ req \in [Request -> Attempt] /\ \A r \in Request : req[r].rem <= req[r].cost
    /\ ledger \in [Bucket -> [level : Int, cap : Nat]] /\ deep \in [Bucket -> BOOLEAN]
    /\ arrivals \in 0..MaxArrivals /\ upset \in 0..MaxUpset

TokenInit ==
    /\ buckets = [b \in Bucket |-> None] /\ caps = [b \in Bucket |-> None]
    /\ timeout = DefaultTimeout /\ mark = 0 /\ known = 0
    /\ req = [r \in Request |-> NoRequest]
    /\ ledger = [b \in Bucket |-> [level |-> 0, cap |-> 0]]
    /\ deep = [b \in Bucket |-> FALSE]
    /\ arrivals = 0 /\ upset = 0

Arrives == arrivals < MaxArrivals /\ arrivals' = arrivals + 1
Upset   == upset < MaxUpset /\ upset' = upset + 1

-----------------------------------------------------------------------------
(* golang.org/x/time/rate, from how the limiter uses it.                   *)

Reserved(e, n) ==
    [e EXCEPT !.level = @ - n, !.due = Larger(0, n - e.level)]

(* CancelAt gives the token back unless a later reservation counts on it.  *)
Restores(e, due) == e.due = due

(* History: b's level is l and its cap c, had no sweep ever come.          *)
Books(b, l, c) ==
    /\ ledger' = [ledger EXCEPT ![b] = [level |-> l, cap |-> c]]
    /\ deep' = [deep EXCEPT ![b] = l < c /\ (@ \/ l < -(IdleCutoff * c))]

(* What the ledger says of b once a bucket of cap c is published for it.   *)
Owing(b, c) ==
    IF buckets[b] = None /\ ledger[b].level = ledger[b].cap
    THEN c ELSE Smaller(ledger[b].level, c)

-----------------------------------------------------------------------------
(* The horizon a memo is kept for.                                         *)

(* readHorizon: the store answers, runs out of time, or fails, and a read  *)
(* without an answer returns the default.                                  *)
readHorizon(how) == capMemoTTL(IF how = "answered" THEN timeout ELSE DefaultTimeout)

(* rememberHorizon: the mark only climbs. *)
rememberHorizon(how) ==
    /\ mark' = Larger(mark, readHorizon(how))
    /\ IF how = "answered"
       THEN known' = Larger(known, timeout) /\ UNCHANGED upset
       ELSE Upset /\ UNCHANGED known

(* memoHorizon: a read that timed out falls back to the mark. *)
memoHorizon(how) ==
    IF how = "slow" THEN Larger(mark, readHorizon(how)) ELSE readHorizon(how)

(* What the code says it may lose: an admission whose read failed, or ran  *)
(* out of time before any read had seen a timeout as long.                 *)
Excused(how) ==
    \/ how = "failed"
    \/ how = "slow" /\ timeout > known

(* newTPMEntry: a full minute. *)
newTPMEntry(c) == [level |-> c, cap |-> c, idle |-> 0, due |-> 0]

(* getEntry's bucket: built, or adjusted in place (withCap). *)
Resolved(b, c) ==
    IF buckets[b] = None THEN newTPMEntry(c)
    ELSE [buckets[b] EXCEPT !.cap = c, !.level = Smaller(@, c), !.idle = 0]

(* Mutant: every admission restamps the memo with its own horizon. *)
RestampedMemo(b, c, h) == [tpm |-> c, ttl |-> h]

(* getEntry's memo: the deadline is only ever pushed out. *)
Claimed(b, c, h) ==
    [tpm |-> c, ttl |-> IF caps[b] = None THEN h ELSE Larger(caps[b].ttl, h)]

-----------------------------------------------------------------------------
(* Admission.                                                              *)

W(r, s) == req' = [req EXCEPT ![r] = s]

(* getEntry, and the token taken or not; s is the request's next state.    *)
(* The code takes the entry under l.mu and reserves on it right after: a   *)
(* sweep in between would find a bucket just used, and a cap edit in       *)
(* between changes the burst but not the one token, so it is one step.     *)
Stage(r, s, b, c, how, take) ==
    LET e == Resolved(b, c)
    IN  /\ buckets' = [buckets EXCEPT ![b] = IF take THEN Reserved(e, 1) ELSE e]
        /\ caps' = [caps EXCEPT ![b] = Claimed(b, c, memoHorizon(how))]
        /\ rememberHorizon(how)
        /\ Books(b, IF take THEN Owing(b, c) - 1 ELSE Owing(b, c), c)
        /\ W(r, [s EXCEPT !.excused = @ \/ Excused(how),
                          !.claimed = IF s.claimed = -1 THEN timeout ELSE Smaller(@, timeout)])
        /\ UNCHANGED timeout

AfterOwner(r) == IF KeyOf[r] = None THEN "admitted" ELSE "key"

(* admitUserTPM, for a keyed request (Middleware) or a session's           *)
(* (UserMiddleware, which has no further stage): one token is reserved,    *)
(* and kept if it is there now.                                            *)
admitUserTPM(r, c, how) ==
    LET o == OwnerOf[r]
        l == Resolved(o, c).level
    IN  /\ req[r].pc = "idle" /\ Arrives
        /\ Stage(r, [NoRequest EXCEPT
                       !.pc = IF l < 1 THEN "handback" ELSE AfterOwner(r),
                       !.held = {o}, !.due = Larger(0, 1 - l)],
                 o, c, how, TRUE)

(* No owner, or one without a cap. *)
admitUncapped(r) ==
    /\ req[r].pc = "idle" /\ Arrives
    /\ OwnerOf[r] = None \/ 0 \in Cap[OwnerOf[r]]
    /\ W(r, [NoRequest EXCEPT !.pc = AfterOwner(r)])
    /\ UNCHANGED <<buckets, caps, timeout, mark, known, books, upset>>

(* Middleware's key stage: Allow, and when it refuses the owner's token is *)
(* handed back.                                                            *)
Allow(r, c, how) ==
    LET k == KeyOf[r]
        ok == Resolved(k, c).level >= 1
    IN  /\ req[r].pc = "key"
        /\ Stage(r, [req[r] EXCEPT
                       !.pc = IF ok THEN "admitted"
                              ELSE IF req[r].held = {} THEN "idle" ELSE "handback",
                       !.held = IF ok THEN @ \cup {k} ELSE @],
                 k, c, how, ok)
        /\ UNCHANGED arrivals

(* effectiveTPM is zero: no cap on this key. *)
AllowUncapped(r) ==
    /\ req[r].pc = "key" /\ 0 \in Cap[KeyOf[r]]
    /\ W(r, [req[r] EXCEPT !.pc = "admitted"])
    /\ UNCHANGED <<buckets, caps, timeout, mark, known, books, count>>

(* CancelAt, by the stage that refused. *)
CancelAt(r) ==
    LET o == OwnerOf[r]
        e == buckets[o]
    IN  /\ req[r].pc = "handback"
        /\ W(r, NoRequest)
        /\ IF Restores(e, req[r].due)
           THEN /\ buckets' = [buckets EXCEPT ![o].level = Smaller(e.cap, e.level + 1),
                                              ![o].due = Larger(0, e.due - 1)]
                /\ Books(o, Smaller(e.cap, ledger[o].level + 1), e.cap)
           ELSE UNCHANGED <<buckets, books>>
        /\ UNCHANGED <<caps, timeout, mark, known, count>>

(* The proxy reads request_timeout once, and falls back to the default     *)
(* when the store does not answer.  A request that may live longer than    *)
(* the timeout its memos were claimed under, a raise since then, is the    *)
(* gap the code admits to.                                                 *)
Serve(r) ==
    /\ req[r].pc = "admitted"
    /\ \E t \in {timeout, DefaultTimeout} :
         /\ W(r, [req[r] EXCEPT !.pc = "serving", !.left = t,
                                !.excused = @ \/ t > req[r].claimed])
         /\ IF t = timeout THEN UNCHANGED upset ELSE Upset
    /\ UNCHANGED <<buckets, caps, timeout, mark, known, books, arrivals>>

-----------------------------------------------------------------------------
(* The debit.                                                              *)

(* The key's bucket first, then the owner's. *)
Debits(s, b) == [s EXCEPT !.pc = "debit", !.at = b, !.rem = s.cost, !.n = 0]

Over(s) == [NoRequest EXCEPT !.dropped = s.dropped, !.excused = s.excused]

NextDebit(r, s) ==
    IF s.at = KeyOf[r] /\ OwnerOf[r] # None THEN Debits(s, OwnerOf[r]) ELSE Over(s)

(* recordTokenUsage: Debit by key, or DebitUser for a session. *)
recordTokenUsage(r, tokens) ==
    LET s == [req[r] EXCEPT !.cost = tokens]
        b == IF KeyOf[r] = None THEN OwnerOf[r] ELSE KeyOf[r]
    IN  /\ req[r].pc = "serving"
        /\ W(r, IF tokens = 0 \/ b = None THEN Over(s) ELSE Debits(s, b))
        /\ UNCHANGED <<buckets, caps, timeout, mark, known, books, count>>

(* debitBucket under the lock: the bucket, or a new one at the remembered  *)
(* cap.  With neither, nothing is charged.                                 *)
debitBucket(r) ==
    LET s == req[r]
        b == s.at
        found == buckets[b] # None \/ caps[b] # None
        c == IF buckets[b] = None THEN caps[b].tpm ELSE buckets[b].cap
    IN  /\ s.pc = "debit"
        /\ IF found
           THEN /\ buckets' = [buckets EXCEPT ![b] = Resolved(b, c)]
                /\ Books(b, Owing(b, c), c)
                /\ W(r, [s EXCEPT !.pc = "chunk"])
           ELSE /\ W(r, NextDebit(r, [s EXCEPT !.dropped = @ \/ b \in s.held]))
                /\ UNCHANGED <<buckets, books>>
        /\ UNCHANGED <<caps, timeout, mark, known, count>>

(* The burst is read for every chunk. *)
ReadBurst(r) ==
    LET s == req[r]
    IN  /\ s.pc = "chunk"
        /\ W(r, [s EXCEPT !.pc = "reserve", !.n = Smaller(s.rem, buckets[s.at].cap)])
        /\ UNCHANGED <<buckets, caps, timeout, mark, known, books, count>>

(* Mutant: a chunk counts whether or not it was reserved. *)
CountsUnreserved(r) == TRUE

(* A chunk larger than the burst, which an edit may have cut since it was  *)
(* read, reserves nothing and counts for nothing.                          *)
ChunkCounts(r) == req[r].n <= buckets[req[r].at].cap

ReserveChunk(r) ==
    LET s == req[r]
        e == buckets[s.at]
        t == [s EXCEPT !.pc = "chunk", !.rem = IF ChunkCounts(r) THEN @ - s.n ELSE @, !.n = 0]
    IN  /\ s.pc = "reserve"
        /\ buckets' = [buckets EXCEPT ![s.at] = IF s.n <= e.cap THEN Reserved(e, s.n) ELSE e]
        /\ Books(s.at, ledger[s.at].level - (s.rem - t.rem), e.cap)
        /\ W(r, IF t.rem = 0 THEN NextDebit(r, t) ELSE t)
        /\ UNCHANGED <<caps, timeout, mark, known, count>>

-----------------------------------------------------------------------------
(* sweep: buckets unused past the cutoff and memos past their deadline go, *)
(* then the mark is refreshed.                                             *)
sweep(how) ==
    /\ buckets' = [b \in Bucket |->
                     IF buckets[b] # None /\ buckets[b].idle > IdleCutoff
                     THEN None ELSE buckets[b]]
    /\ caps' = [b \in Bucket |->
                  IF caps[b] # None /\ caps[b].ttl < 0 THEN None ELSE caps[b]]
    /\ rememberHorizon(how)
    /\ UNCHANGED <<timeout, req, books, arrivals>>

SetTimeout(t) ==
    /\ timeout' = t /\ Upset
    /\ UNCHANGED <<buckets, caps, mark, req, known, books, arrivals>>

(* A minute: every bucket refills by its cap.  Requests live no longer     *)
(* than their deadline, and what they do before and after being served     *)
(* takes no time.                                                          *)
TokenTick ==
    /\ \A r \in Request : \/ req[r].pc = "idle"
                          \/ req[r].pc = "serving" /\ req[r].left > 0
    /\ buckets' = [b \in Bucket |->
         IF buckets[b] = None THEN None
         ELSE [buckets[b] EXCEPT !.level = Smaller(buckets[b].cap, @ + buckets[b].cap),
                                 !.idle = Smaller(@ + 1, IdleCutoff + 1),
                                 !.due = Larger(0, @ - buckets[b].cap)]]
    /\ caps' = [b \in Bucket |->
         IF caps[b] = None THEN None ELSE [caps[b] EXCEPT !.ttl = Larger(-1, @ - 1)]]
    /\ req' = [r \in Request |-> [req[r] EXCEPT !.left = Larger(0, @ - 1)]]
    /\ ledger' = [b \in Bucket |->
         [ledger[b] EXCEPT !.level = Smaller(ledger[b].cap, @ + ledger[b].cap)]]
    /\ deep' = [b \in Bucket |-> deep[b] /\ ledger[b].level < 0]
    /\ UNCHANGED <<timeout, mark, known, count>>

Read == {"answered", "slow", "failed"}

Step(r) ==
    \/ \E how \in Read :
         \/ OwnerOf[r] # None /\ \E c \in Cap[OwnerOf[r]] \ {0} : admitUserTPM(r, c, how)
         \/ KeyOf[r] # None /\ \E c \in Cap[KeyOf[r]] \ {0} : Allow(r, c, how)
    \/ admitUncapped(r) \/ AllowUncapped(r) \/ CancelAt(r) \/ Serve(r)
    \/ \E c \in Cost : recordTokenUsage(r, c)
    \/ debitBucket(r) \/ ReadBurst(r) \/ ReserveChunk(r)

TokenNext ==
    \/ \E r \in Request : Step(r)
    \/ \E how \in Read : sweep(how)
    \/ \E t \in Timeout : SetTimeout(t)
    \/ TokenTick

TokenSpec == TokenInit /\ [][TokenNext]_tpm
-----------------------------------------------------------------------------
(* A request admitted against a budget is charged to it, however long it   *)
(* streams and whatever is swept or edited meanwhile.  The code gives up   *)
(* three cases: at the claim request_timeout was read while the store      *)
(* failed, or the read ran out of time before any had seen a timeout as    *)
(* long, or the timeout the proxy read was longer than the claim's.        *)
DebitLands == \A r \in Request : req[r].dropped => req[r].excused

(* No bucket is ever fuller than it would be had it never been swept,      *)
(* rebuilt or resized: an idle sweep forgives no debt (unless it was more  *)
(* than the idle cutoff pays off), and every chunk of a debit that counts  *)
(* was reserved.                                                           *)
SpendCounted ==
    \A b \in Bucket : (buckets[b] # None /\ ~deep[b]) => buckets[b].level <= ledger[b].level
=============================================================================
