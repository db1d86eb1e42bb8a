------------------------- MODULE QuotaPollingProofs -------------------------
(***************************************************************************)
(* The settings cache under the poll loop never keeps a value that a write *)
(* has replaced, for any goroutines, values and bounds.                    *)
(***************************************************************************)
EXTENDS QuotaPolling, TLAPS

(* A write that took effect has its last eviction still to come, or was    *)
(* reported as failed to a caller that evicts nothing.                     *)
Pending ==
    \/ lost = "unevicted"
    \/ \E w \in Writer : writers[w].pc = "evict"

(* What makes CacheFresh inductive: a fill that its generation still lets  *)
(* in carries the row as it is, or an eviction to come undoes it.          *)
FillOK(r) ==
    /\ r.gen <= cacheGen
    /\ r.pc = "install" => r.value \in Row
    /\ r.pc = "install" /\ r.gen = cacheGen => r.value = row \/ Pending

FillsOK == \A c \in Client : FillOK(reads[c])

StoreInv == StoreTypeOK /\ FillsOK /\ CacheFresh

LoopState ==
    [pc : {"boot", "advise", "read", "clear", "release", "wait", "poll"}, interval : 0..1, handled : BOOLEAN]

RefreshState ==
    [pc : {"idle", "snaps", "interval", "apply", "replace", "recover"},
     reading : Readings, interval : 0..1]

QuotaTypeOK ==
    /\ loop \in LoopState
    /\ refresh \in [Reader -> RefreshState]
    /\ advice \in BOOLEAN /\ pinned \in BOOLEAN /\ reading \in Readings
    /\ nudges \in 0..MaxNudges

(* The inductive invariant. *)
IInv == StoreInv /\ QuotaTypeOK

ReadState == [pc : {"idle", "query", "install", "done"}, gen : Nat, value : Row \cup {"failed"}]
WriteState == [pc : {"idle", "exec", "evict", "lookup", "notify"},
               value : Row, tx : BOOLEAN, ok : BOOLEAN]

-----------------------------------------------------------------------------
(***************************************************************************)
(* Steps of the store, by what they do to it.                              *)
(***************************************************************************)

(* A step of a read: nothing is written, and the read it leaves is right.  *)
LEMMA ReadMoves ==
    ASSUME StoreInv, NEW c \in Client, NEW r \in ReadState, FillOK(r),
           Reads(c, r), UNCHANGED <<row, cacheGen, writers, lost>>,
           cache' = cache \/ (cache' \in Row /\ (cache' = row \/ Pending)),
           events' \in 0..Capacity, writes' \in 0..MaxWrites, dbFaults' \in 0..MaxDBFaults
    PROVE  StoreInv'
  <1>. USE DEF StoreInv
  <1>1. StoreTypeOK'
    BY DEF StoreTypeOK, Reads, ReadState
  <1>2. reads' = [reads EXCEPT ![c] = r] /\ reads \in [Client -> ReadState]
    BY DEF StoreTypeOK, Reads, ReadState
  <1>3. Pending' = Pending
    BY DEF Pending
  <1>4. FillsOK'
    BY <1>2, <1>3 DEF FillsOK, FillOK
  <1>5. CacheFresh'
    BY DEF CacheFresh, Pending
  <1>. QED BY <1>1, <1>4, <1>5

(* A step of a write that evicts nothing: a row that changes leaves an     *)
(* eviction to come, and none that was to come is forgotten.               *)
LEMMA WriteMoves ==
    ASSUME StoreInv, NEW w \in Writer, NEW x \in WriteState,
           Writes(w, x), UNCHANGED <<cache, cacheGen>>,
           row' \in Row, lost' \in {"none", "unheard", "unevicted"},
           row' = row \/ Pending',
           Pending => Pending',
           reads' \in [Client -> ReadState],
           \A c \in Client : reads'[c] = reads[c] \/ (reads'[c].pc # "install" /\ reads'[c].gen = 0),
           events' \in 0..Capacity, writes' \in 0..MaxWrites, dbFaults' \in 0..MaxDBFaults
    PROVE  StoreInv'
  <1>. USE DEF StoreInv
  <1>1. StoreTypeOK'
    BY DEF StoreTypeOK, Writes, ReadState, WriteState
  <1>2. FillsOK'
    BY DEF StoreTypeOK, FillsOK, FillOK
  <1>3. CacheFresh'
    BY DEF CacheFresh, Pending
  <1>. QED BY <1>1, <1>2, <1>3

(* An eviction leaves no fill under way that may still be installed. *)
LEMMA Evicts ==
    ASSUME StoreInv, NEW w \in Writer, NEW x \in WriteState,
           Writes(w, x), evictLocked, UNCHANGED <<row, reads>>,
           events' \in 0..Capacity, writes' \in 0..MaxWrites, dbFaults' \in 0..MaxDBFaults
    PROVE  StoreInv'
  <1>. USE DEF StoreInv
  <1>1. StoreTypeOK'
    BY DEF StoreTypeOK, Writes, evictLocked, WriteState
  <1>2. FillsOK'
    BY DEF StoreTypeOK, FillsOK, FillOK, evictLocked
  <1>3. CacheFresh'
    BY DEF CacheFresh, evictLocked
  <1>. QED BY <1>1, <1>2, <1>3

(* What a goroutine takes from the cache or the store is a right read. *)
LEMMA BeginsRead ==
    ASSUME StoreInv, NEW c \in Client, beginRead(c),
           UNCHANGED <<row, cache, cacheGen, writers, events, lost, writes, dbFaults>>
    PROVE  StoreInv'
  <1>. DEFINE hit  == [pc |-> "done", gen |-> 0, value |-> cache]
              miss == [pc |-> "query", gen |-> cacheGen, value |-> Absent]
              r    == IF cache # "none" THEN hit ELSE miss
  <1>1. r \in ReadState /\ FillOK(r)
    BY DEF StoreInv, StoreTypeOK, ReadState, FillOK, Row
  <1>2. Reads(c, r)
    BY DEF beginRead
  <1>. HIDE DEF r
  <1>. QED BY <1>1, <1>2, ReadMoves DEF StoreInv, StoreTypeOK

(* A read handed to its caller is over. *)
LEMMA EndsRead ==
    ASSUME StoreInv, NEW c \in Client, Reads(c, NoRead),
           UNCHANGED <<row, cache, cacheGen, writers, events, lost, writes, dbFaults>>
    PROVE  StoreInv'
  <1>1. NoRead \in ReadState /\ FillOK(NoRead)
    BY DEF StoreInv, StoreTypeOK, NoRead, ReadState, FillOK, Row
  <1>. QED BY <1>1, ReadMoves DEF StoreInv, StoreTypeOK

LEMMA Queries ==
    ASSUME StoreInv, NEW c \in Client, queryRow(c)
    PROVE  StoreInv'
  <1>. USE DEF StoreInv
  <1>1. reads[c] \in ReadState /\ FillOK(reads[c])
    BY DEF StoreTypeOK, ReadState, FillsOK
  <1>2. CASE Reads(c, [reads[c] EXCEPT !.pc = "install", !.value = row]) /\ UNCHANGED dbFaults
    <2>. DEFINE r == [reads[c] EXCEPT !.pc = "install", !.value = row]
    <2>1. r \in ReadState /\ FillOK(r)
      BY <1>1 DEF StoreTypeOK, ReadState, FillOK
    <2>. HIDE DEF r
    <2>. QED BY <1>2, <2>1, ReadMoves DEF queryRow, StoreTypeOK, r
  <1>3. CASE DBFault /\ Reads(c, [pc |-> "done", gen |-> 0, value |-> "failed"])
    <2>. DEFINE r == [pc |-> "done", gen |-> 0, value |-> "failed"]
    <2>1. r \in ReadState /\ FillOK(r)
      BY DEF StoreTypeOK, ReadState, FillOK
    <2>2. dbFaults' \in 0..MaxDBFaults
      BY <1>3, StoreAssumption DEF DBFault, StoreTypeOK
    <2>. HIDE DEF r
    <2>. QED BY <1>3, <2>1, <2>2, ReadMoves DEF queryRow, StoreTypeOK, r
  <1>. QED BY <1>2, <1>3 DEF queryRow

LEMMA Installs ==
    ASSUME StoreInv, NEW c \in Client, install(c)
    PROVE  StoreInv'
  <1>. USE DEF StoreInv
  <1>1. reads[c] \in ReadState /\ FillOK(reads[c]) /\ reads[c].pc = "install"
    BY DEF StoreTypeOK, ReadState, FillsOK, install
  <1>. DEFINE r == [reads[c] EXCEPT !.pc = "done", !.gen = 0]
  <1>2. r \in ReadState /\ FillOK(r)
    <2>1. r \in ReadState /\ r.gen = 0 /\ r.pc = "done"
      BY <1>1 DEF ReadState
    <2>2. 0 <= cacheGen
      BY DEF StoreTypeOK
    <2>. HIDE DEF r
    <2>. QED BY <2>1, <2>2 DEF FillOK
  <1>3. cache' = cache \/ (cache' \in Row /\ (cache' = row \/ Pending))
    BY <1>1 DEF install, FillOK
  <1>. HIDE DEF r
  <1>. QED BY <1>2, <1>3, ReadMoves DEF install, StoreTypeOK, r

LEMMA Looks ==
    ASSUME StoreInv, NEW w \in Writer, lookup(w)
    PROVE  StoreInv'
  <1>. USE DEF StoreInv
  <1>0. w \in Client /\ writers[w] \in WriteState
    BY DEF Client, StoreTypeOK, WriteState
  <1>1. CASE beginRead(w) /\ UNCHANGED writers
    BY <1>0, <1>1, BeginsRead DEF lookup
  <1>2. CASE Reads(w, NoRead) /\ Writes(w, [writers[w] EXCEPT !.pc = "notify"])
    <2>. DEFINE x == [writers[w] EXCEPT !.pc = "notify"]
    <2>1. x \in WriteState
      BY <1>0 DEF WriteState
    <2>2. Pending => Pending'
      BY <1>2 DEF Pending, lookup, Writes, StoreTypeOK
    <2>3. reads' \in [Client -> ReadState]
      BY <1>0, <1>2 DEF Reads, NoRead, StoreTypeOK, ReadState, Row
    <2>4. \A c \in Client : reads'[c] = reads[c] \/ (reads'[c].pc # "install" /\ reads'[c].gen = 0)
      BY <1>0, <1>2 DEF Reads, NoRead, StoreTypeOK
    <2>. HIDE DEF x
    <2>. QED BY <1>2, <2>1, <2>2, <2>3, <2>4, WriteMoves DEF lookup, StoreTypeOK, x
  <1>. QED BY <1>1, <1>2 DEF lookup

LEMMA Commits ==
    ASSUME StoreInv, NEW w \in Writer, commitRow(w)
    PROVE  StoreInv'
  <1>. USE DEF StoreInv
  <1>. DEFINE x      == writers[w]
              ok     == [x EXCEPT !.pc = "evict"]
              unwell == [x EXCEPT !.pc = "evict", !.ok = FALSE]
              failed == IF x.tx THEN NoWrite ELSE unwell
  <1>1. x \in WriteState /\ x.pc = "exec" /\ x.value \in Row
    BY DEF StoreTypeOK, WriteState, commitRow
  <1>2. NoWrite \in WriteState
    BY DEF NoWrite, WriteState, Row
  <1>3. ok \in WriteState /\ ok.pc = "evict" /\ unwell \in WriteState /\ unwell.pc = "evict"
    BY <1>1 DEF WriteState
  <1>4. \A y : Writes(w, y) => /\ writers'[w] = y
                               /\ \A v \in Writer \ {w} : writers'[v] = writers[v]
    BY DEF Writes, StoreTypeOK
  <1>5. reads' \in [Client -> ReadState] /\ \A c \in Client : reads'[c] = reads[c]
    BY DEF commitRow, StoreTypeOK, ReadState
  <1>6. DBFault => dbFaults' \in 0..MaxDBFaults
    BY StoreAssumption DEF DBFault, StoreTypeOK
  <1>7. CASE row' = x.value /\ Writes(w, ok) /\ UNCHANGED <<lost, dbFaults>>
    <2>1. Pending'
      BY <1>3, <1>4, <1>7 DEF Pending
    <2>. HIDE DEF ok
    <2>. QED BY <1>1, <1>3, <1>5, <1>7, <2>1, WriteMoves DEF commitRow, StoreTypeOK
  <1>8. CASE DBFault /\ Writes(w, failed) /\ UNCHANGED <<row, lost>>
    <2>1. failed \in WriteState
      BY <1>2, <1>3
    <2>2. Pending => Pending'
      BY <1>1, <1>4, <1>8 DEF Pending
    <2>. HIDE DEF failed
    <2>. QED BY <1>5, <1>6, <1>8, <2>1, <2>2, WriteMoves DEF commitRow, StoreTypeOK
  <1>9. CASE /\ DBFault /\ Writes(w, failed) /\ row' = x.value
             /\ lost' = IF x.tx THEN "unevicted" ELSE "unheard"
    <2>1. failed \in WriteState
      BY <1>2, <1>3
    <2>2. Pending'
      BY <1>3, <1>4, <1>9 DEF Pending
    <2>. HIDE DEF failed
    <2>. QED BY <1>1, <1>5, <1>6, <1>9, <2>1, <2>2, WriteMoves DEF commitRow, StoreTypeOK
  <1>. QED BY <1>7, <1>8, <1>9 DEF commitRow

LEMMA EvictionEnds ==
    ASSUME StoreInv, NEW w \in Writer, evict(w)
    PROVE  StoreInv'
  <1>. DEFINE x == writers[w]
              y == IF ~x.ok THEN NoWrite
                   ELSE [x EXCEPT !.pc = IF x.tx /\ x.value # Absent THEN "lookup" ELSE "notify"]
  <1>1. x \in WriteState
    BY DEF StoreInv, StoreTypeOK, WriteState
  <1>2. y \in WriteState
    BY <1>1 DEF NoWrite, WriteState, Row
  <1>3. Writes(w, y)
    BY DEF evict
  <1>. HIDE DEF y
  <1>. QED BY <1>2, <1>3, Evicts DEF evict, StoreInv, StoreTypeOK

LEMMA WritesBegin ==
    ASSUME StoreInv, NEW w \in Writer, beginSet(w) \/ beginTx(w)
    PROVE  StoreInv'
  <1>. USE DEF StoreInv
  <1>1. writes' \in 0..MaxWrites
    BY StoreAssumption DEF beginSet, beginTx, Write, StoreTypeOK
  <1>2. CASE beginSet(w)
    <2>1. PICK v \in Row : Writes(w, [pc |-> "exec", value |-> v, tx |-> FALSE, ok |-> TRUE])
      BY <1>2 DEF beginSet
    <2>2. [pc |-> "exec", value |-> v, tx |-> FALSE, ok |-> TRUE] \in WriteState
      BY DEF WriteState
    <2>. QED BY <1>1, <1>2, <2>1, <2>2, Evicts DEF beginSet, StoreTypeOK
  <1>3. CASE beginTx(w)
    <2>1. PICK v \in Row : Writes(w, [pc |-> "exec", value |-> v, tx |-> TRUE, ok |-> TRUE])
      BY <1>3 DEF beginTx
    <2>2. [pc |-> "exec", value |-> v, tx |-> TRUE, ok |-> TRUE] \in WriteState
      BY DEF WriteState
    <2>3. Pending => Pending'
      BY <1>3, <2>1 DEF Pending, beginTx, Writes, StoreTypeOK
    <2>4. reads' \in [Client -> ReadState]
      BY <1>3 DEF beginTx, StoreTypeOK, ReadState
    <2>. QED BY <1>1, <1>3, <2>1, <2>2, <2>3, <2>4, WriteMoves DEF beginTx, StoreTypeOK
  <1>. QED BY <1>2, <1>3

LEMMA Notifies ==
    ASSUME StoreInv, NEW w \in Writer, notifyChange(w)
    PROVE  StoreInv'
  <1>. USE DEF StoreInv
  <1>1. NoWrite \in WriteState
    BY DEF NoWrite, WriteState, Row
  <1>2. Pending => Pending'
    BY DEF Pending, notifyChange, Writes, StoreTypeOK
  <1>3. reads' \in [Client -> ReadState] /\ events' \in 0..Capacity
    BY StoreAssumption DEF notifyChange, StoreTypeOK, ReadState
  <1>. QED BY <1>1, <1>2, <1>3, WriteMoves DEF notifyChange, StoreTypeOK

(* A step that touches neither rows, reads nor the cache. *)
LEMMA StoreRests ==
    ASSUME StoreInv, UNCHANGED <<row, cache, cacheGen, reads, writers, lost>>,
           events' \in 0..Capacity, writes' \in 0..MaxWrites, dbFaults' \in 0..MaxDBFaults
    PROVE  StoreInv'
  <1>1. Pending' = Pending
    BY DEF Pending
  <1>. QED BY <1>1 DEF StoreInv, StoreTypeOK, FillsOK, FillOK, CacheFresh

LEMMA Expires ==
    ASSUME StoreInv, ExpireEntry
    PROVE  StoreInv'
  <1>1. Pending' = Pending
    BY DEF Pending, ExpireEntry
  <1>. QED BY <1>1 DEF StoreInv, StoreTypeOK, FillsOK, FillOK, CacheFresh, ExpireEntry

LEMMA StoreStep ==
    ASSUME StoreInv, StoreNext
    PROVE  StoreInv'
  <1>1. ASSUME NEW w \in Writer, beginSet(w) \/ beginTx(w) \/ WriteStep(w)
        PROVE  StoreInv'
    <2>1. w \in Client
      BY DEF Client
    <2>. QED BY <1>1, <2>1, WritesBegin, Commits, EvictionEnds, Looks, Notifies, Queries, Installs
             DEF WriteStep, ReadStep
  <1>2. ASSUME NEW c \in Reader, ReadStep(c)
        PROVE  StoreInv'
    BY <1>2, Queries, Installs DEF ReadStep, Client
  <1>3. CASE OtherKeyChanges
    <2>1. events' \in 0..Capacity /\ writes' \in 0..MaxWrites
      BY <1>3, StoreAssumption DEF OtherKeyChanges, Write, StoreInv, StoreTypeOK
    <2>. QED BY <1>3, <2>1, StoreRests DEF OtherKeyChanges, StoreInv, StoreTypeOK
  <1>. QED BY <1>1, <1>2, <1>3, Expires DEF StoreNext

-----------------------------------------------------------------------------
(***************************************************************************)
(* The poll loop and the refreshes touch the store only by reading it, by  *)
(* taking an event from the channel or by failing.                         *)
(***************************************************************************)
LEMMA ReaderIsClient == Loop \in Reader /\ Loop \in Client /\ \A r \in Reader : r \in Client
  BY PollAssumption DEF Client

LEMMA FaultCounts ==
    ASSUME StoreInv, DBFault
    PROVE  dbFaults' \in 0..MaxDBFaults
  BY StoreAssumption DEF StoreInv, StoreTypeOK, DBFault

(* A refresh moves on from where it is. *)
LEMMA RefreshFields ==
    ASSUME NEW x \in RefreshState
    PROVE  /\ \A pc \in {"snaps", "replace", "recover"} : [x EXCEPT !.pc = pc] \in RefreshState
           /\ \A b \in Readings : [x EXCEPT !.pc = "interval", !.reading = b] \in RefreshState
           /\ \A n \in 0..1 : [x EXCEPT !.pc = "apply", !.interval = n] \in RefreshState
  <1>1. ASSUME NEW pc \in {"snaps", "replace", "recover"} PROVE [x EXCEPT !.pc = pc] \in RefreshState
    BY DEF RefreshState
  <1>2. ASSUME NEW b \in Readings
        PROVE  [x EXCEPT !.pc = "interval", !.reading = b] \in RefreshState
    BY DEF RefreshState
  <1>3. ASSUME NEW n \in 0..1
        PROVE  [x EXCEPT !.pc = "apply", !.interval = n] \in RefreshState
    BY DEF RefreshState
  <1>. QED BY <1>1, <1>2, <1>3

LEMMA RefreshRests == Rest \in RefreshState /\ [Rest EXCEPT !.pc = "snaps"] \in RefreshState
  <1>1. ASSUME NEW b \in Readings, NEW n \in 0..1
        PROVE  [pc |-> "idle", reading |-> b, interval |-> n] \in RefreshState
    BY DEF RefreshState
  <1>2. 0 \in 0..1 /\ "fine" \in Readings
    BY PollAssumption
  <1>3. Rest \in RefreshState
    BY <1>1, <1>2 DEF Rest
  <1>. QED BY <1>3, RefreshFields

LEMMA RefreshMoves ==
    ASSUME QuotaTypeOK, NEW r \in Reader, NEW x \in RefreshState, Refreshes(r, x)
    PROVE  refresh' \in [Reader -> RefreshState]
  BY DEF Refreshes, QuotaTypeOK

LEMMA RefreshKeeps ==
    ASSUME IInv, NEW r \in Reader, RefreshStep(r)
    PROVE  IInv'
  <1>. USE DEF IInv
  <1>0. r \in Client
    BY ReaderIsClient
  <1>1. CASE listSnapshots(r)
    <2>1. QuotaTypeOK'
      BY <1>1, RefreshFields, RefreshRests DEF listSnapshots, Refreshes, QuotaTypeOK
    <2>. QED BY <1>1, <2>1, StoreRests DEF listSnapshots, store, StoreInv, StoreTypeOK
  <1>2. CASE readRefreshInterval(r)
    <2>1. GetInt(reads[r].value) \in 0..1
      BY DEF GetInt
    <2>2. QuotaTypeOK'
      <3>1. CASE UNCHANGED refresh
        BY <1>2, <3>1 DEF readRefreshInterval, QuotaTypeOK
      <3>2. CASE Refreshes(r, [refresh[r] EXCEPT !.pc = "apply", !.interval = GetInt(reads[r].value)])
        <4>1. [refresh[r] EXCEPT !.pc = "apply", !.interval = GetInt(reads[r].value)] \in RefreshState
          BY <2>1, RefreshFields DEF QuotaTypeOK
        <4>. QED BY <1>2, <3>2, <4>1, RefreshMoves DEF readRefreshInterval, QuotaTypeOK
      <3>. QED BY <1>2, <3>1, <3>2 DEF readRefreshInterval
    <2>. QED BY <1>0, <1>2, <2>2, BeginsRead, EndsRead DEF readRefreshInterval
  <1>3. CASE refreshFails(r)
    <2>1. QuotaTypeOK'
      BY <1>3, RefreshFields, RefreshRests DEF refreshFails, Refreshes, QuotaTypeOK
    <2>. QED BY <1>3, <2>1, FaultCounts, StoreRests DEF refreshFails, StoreInv, StoreTypeOK
  <1>4. CASE applyPins(r)
    <2>1. QuotaTypeOK'
      BY <1>4, RefreshFields, RefreshRests DEF applyPins, Refreshes, QuotaTypeOK, buildQuotaAdvice
    <2>. QED BY <1>4, <2>1, StoreRests DEF applyPins, store, StoreInv, StoreTypeOK
  <1>5. CASE replaceAdvice(r)
    <2>1. QuotaTypeOK'
      BY <1>5, RefreshFields, RefreshRests DEF replaceAdvice, Refreshes, QuotaTypeOK, buildQuotaAdvice
    <2>. QED BY <1>5, <2>1, StoreRests DEF replaceAdvice, store, StoreInv, StoreTypeOK
  <1>6. CASE releaseRecovered(r)
    <2>1. QuotaTypeOK'
      BY <1>6, RefreshFields, RefreshRests DEF releaseRecovered, Refreshes, QuotaTypeOK, Recovered
    <2>. QED BY <1>6, <2>1, StoreRests DEF releaseRecovered, store, StoreInv, StoreTypeOK
  <1>. QED BY <1>1, <1>2, <1>3, <1>4, <1>5, <1>6 DEF RefreshStep

(* Wherever the loop goes next, it is in a state of its own. *)
LEMMA LoopFields ==
    ASSUME QuotaTypeOK
    PROVE  /\ loop \in LoopState
           /\ \A pc \in {"advise", "read", "poll", "release"} : [loop EXCEPT !.pc = pc] \in LoopState
           /\ [loop EXCEPT !.interval = 0, !.pc = IF loop.handled THEN "wait" ELSE "clear"] \in LoopState
           /\ [loop EXCEPT !.pc = "wait", !.handled = TRUE] \in LoopState
           /\ [pc |-> "wait", interval |-> 1, handled |-> FALSE] \in LoopState
  <1>1. loop \in LoopState
    BY DEF QuotaTypeOK
  <1>2. ASSUME NEW pc \in {"advise", "read", "poll", "release"}
        PROVE  [loop EXCEPT !.pc = pc] \in LoopState
    BY <1>1 DEF LoopState
  <1>3. ASSUME NEW pc \in {"wait", "clear"}, NEW n \in 0..1
        PROVE  [loop EXCEPT !.interval = n, !.pc = pc] \in LoopState
    BY <1>1 DEF LoopState
  <1>4. (IF loop.handled THEN "wait" ELSE "clear") \in {"wait", "clear"}
    OBVIOUS
  <1>5. ASSUME NEW b \in BOOLEAN PROVE [loop EXCEPT !.pc = "wait", !.handled = b] \in LoopState
    BY <1>1 DEF LoopState
  <1>6. [pc |-> "wait", interval |-> 1, handled |-> FALSE] \in LoopState
    BY DEF LoopState
  <1>7. [loop EXCEPT !.interval = 0, !.pc = IF loop.handled THEN "wait" ELSE "clear"] \in LoopState
    <2>1. 0 \in 0..1
      OBVIOUS
    <2>. QED BY <1>3, <1>4, <2>1
  <1>. QED BY <1>1, <1>2, <1>5, <1>6, <1>7

LEMMA LoopKeeps ==
    ASSUME IInv, LoopStep
    PROVE  IInv'
  <1>. USE DEF IInv
  <1>0. Loop \in Reader /\ Loop \in Client
    BY ReaderIsClient
  <1>1. CASE boot
    <2>1. QuotaTypeOK'
      BY <1>0, <1>1, LoopFields, RefreshRests
      DEF boot, LoopBegins, LoopTo, StartRefresh, Refreshes, QuotaTypeOK
    <2>. QED BY <1>0, <1>1, <2>1, BeginsRead, EndsRead DEF boot, LoopBegins, LoopHas
  <1>2. CASE readInterval
    <2>1. QuotaTypeOK'
      BY <1>2, LoopFields DEF readInterval, LoopBegins, LoopTo, QuotaTypeOK
    <2>. QED BY <1>0, <1>2, <2>1, BeginsRead, EndsRead DEF readInterval, LoopBegins, LoopHas
  <1>3. CASE clearQuotaAdvice
    <2>1. QuotaTypeOK'
      BY <1>3, LoopFields DEF clearQuotaAdvice, LoopTo, QuotaTypeOK
    <2>. QED BY <1>3, <2>1, StoreRests DEF clearQuotaAdvice, store, StoreInv, StoreTypeOK
  <1>4. CASE releaseAllQuotaPins
    <2>1. QuotaTypeOK'
      BY <1>4, LoopFields DEF releaseAllQuotaPins, LoopTo, QuotaTypeOK
    <2>. QED BY <1>4, <2>1, StoreRests DEF releaseAllQuotaPins, store, StoreInv, StoreTypeOK
  <1>5. CASE wakeOnEvent
    <2>1. QuotaTypeOK'
      BY <1>5, LoopFields DEF wakeOnEvent, LoopTo, QuotaTypeOK
    <2>2. events' \in 0..Capacity
      BY <1>5, StoreAssumption DEF wakeOnEvent, StoreInv, StoreTypeOK
    <2>. QED BY <1>5, <2>1, <2>2, StoreRests DEF wakeOnEvent, StoreInv, StoreTypeOK
  <1>6. CASE tick
    <2>1. QuotaTypeOK'
      BY <1>0, <1>6, LoopFields, RefreshRests
      DEF tick, LoopTo, StartRefresh, Refreshes, QuotaTypeOK
    <2>2. dbFaults' \in 0..MaxDBFaults
      BY <1>6, FaultCounts DEF tick, StoreInv, StoreTypeOK
    <2>. QED BY <1>6, <2>1, <2>2, StoreRests DEF tick, StoreInv, StoreTypeOK
  <1>7. CASE pollDone
    <2>1. QuotaTypeOK'
      BY <1>7, LoopFields DEF pollDone, LoopTo, QuotaTypeOK
    <2>. QED BY <1>7, <2>1, StoreRests DEF pollDone, store, StoreInv, StoreTypeOK
  <1>8. CASE subscribe
    <2>1. QuotaTypeOK'
      BY <1>8, LoopFields DEF subscribe, LoopTo, QuotaTypeOK
    <2>2. events' \in 0..Capacity
      BY <1>8, StoreAssumption DEF subscribe
    <2>. QED BY <1>8, <2>1, <2>2, StoreRests DEF subscribe, StoreInv, StoreTypeOK
  <1>. QED BY <1>1, <1>2, <1>3, <1>4, <1>5, <1>6, <1>7, <1>8 DEF LoopStep

LEMMA NudgeKeeps ==
    ASSUME IInv, NEW n \in Nudge, NudgeQuotaPoll(n)
    PROVE  IInv'
  <1>. USE DEF IInv
  <1>1. n \in Reader
    BY PollAssumption
  <1>2. QuotaTypeOK'
    <2>1. refresh' \in [Reader -> RefreshState]
      BY <1>1, RefreshRests, RefreshMoves DEF NudgeQuotaPoll, StartRefresh
    <2>2. nudges' \in 0..MaxNudges
      BY PollAssumption DEF NudgeQuotaPoll, QuotaTypeOK
    <2>. QED BY <2>1, <2>2 DEF NudgeQuotaPoll, QuotaTypeOK
  <1>. QED BY <1>2, StoreRests DEF NudgeQuotaPoll, store, StoreInv, StoreTypeOK

LEMMA InitHolds == PollInit => IInv
  <1>. SUFFICES ASSUME PollInit PROVE IInv
    OBVIOUS
  <1>1. StoreTypeOK
    BY StoreAssumption DEF PollInit, StoreInit, StoreTypeOK, NoRead, NoWrite, Row
  <1>2. FillsOK /\ CacheFresh
    BY DEF PollInit, StoreInit, FillsOK, FillOK, CacheFresh, NoRead
  <1>3. QuotaTypeOK
    <2>1. ASSUME NEW b \in BOOLEAN, NEW n \in 0..1
          PROVE  [pc |-> "boot", interval |-> n, handled |-> b] \in LoopState
      BY DEF LoopState
    <2>2. 0 \in 0..1 /\ FALSE \in BOOLEAN /\ 0 \in 0..MaxNudges
      BY PollAssumption
    <2>. QED BY <2>1, <2>2, RefreshRests DEF PollInit, QuotaTypeOK
  <1>. QED BY <1>1, <1>2, <1>3 DEF IInv, StoreInv

LEMMA StepKeeps ==
    ASSUME IInv, [PollNext]_polling
    PROVE  IInv'
  <1>1. CASE StoreNext /\ UNCHANGED quota
    BY <1>1, StoreStep DEF IInv, quota, QuotaTypeOK
  <1>2. CASE UNCHANGED polling
    BY <1>2, StoreRests DEF polling, store, quota, IInv, QuotaTypeOK, StoreInv, StoreTypeOK
  <1>. QED BY <1>1, <1>2, RefreshKeeps, NudgeKeeps, LoopKeeps DEF PollNext

(***************************************************************************)
(* The invariant holds throughout, for any readers, writers, values and    *)
(* bounds.                                                                 *)
(***************************************************************************)
THEOREM Inductive == PollSpec => []IInv
  BY InitHolds, StepKeeps, PTL DEF PollSpec

(* The store, the poll loop and every refresh keep their types. *)
THEOREM TypeCorrect == PollSpec => []PollTypeOK
  <1>1. IInv => PollTypeOK
    BY DEF IInv, StoreInv, QuotaTypeOK, LoopState, RefreshState, PollTypeOK
  <1>. QED BY <1>1, Inductive, PTL

(* However reads, writes, failed acknowledgements, evictions and expiries  *)
(* interleave, no value a write has replaced stays in the cache past that  *)
(* write's last eviction (install, evictLocked, Set, SetTx).               *)
THEOREM CacheNeverStale == PollSpec => []CacheFresh
  <1>1. IInv => CacheFresh
    BY DEF IInv, StoreInv
  <1>. QED BY <1>1, Inductive, PTL

-----------------------------------------------------------------------------
(***************************************************************************)
(* A loop that is switched off is woken.                                   *)
(***************************************************************************)

(* A write that readers will hear of has its eviction still to come, or    *)
(* one was reported as failed.                                             *)
Unheard ==
    \/ lost # "none"
    \/ \E w \in Writer : writers[w].pc = "evict" /\ writers[w].ok

(* Something is on its way to the loop. *)
Coming ==
    \/ Unheard \/ events > 0
    \/ \E w \in Writer : writers[w].pc \in {"lookup", "notify"}

(* A sharper CacheFresh: the eviction that a cached value or a fill waits  *)
(* for is that of a write the loop will hear of.                           *)
SharpOK ==
    /\ \A w \in Writer : writers[w].pc = "exec" => writers[w].ok
    /\ cache \in {"none", row} \/ Unheard
    /\ \A c \in Client :
          reads[c].pc = "install" /\ reads[c].gen = cacheGen => reads[c].value = row \/ Unheard

(* The loop reads where it has taken an event, or in its refresh.          *)
WhereOK ==
    /\ reads[Loop].pc # "idle" =>
          \/ loop.pc \in {"boot", "read"}
          \/ loop.pc \in {"advise", "poll"} /\ refresh[Loop].pc = "interval"
    /\ refresh[Loop].pc # "idle" => loop.pc \in {"advise", "poll"}

(* An "off" it has read or runs by is the row's, or something is coming.   *)
OffOK ==
    \/ row = "off" \/ Coming
    \/ /\ reads[Loop].pc \in {"install", "done"} => reads[Loop].value # "off"
       /\ loop.pc \in {"wait", "clear", "release"} => loop.interval # 0

WakeOK == SharpOK /\ WhereOK /\ OffOK

(* A step of a read: what it may install carries the row or is excused.    *)
LEMMA SharpReads ==
    ASSUME StoreInv, SharpOK, NEW c \in Client, NEW r, Reads(c, r),
           UNCHANGED <<row, cacheGen, writers, lost>>,
           r.pc = "install" /\ r.gen = cacheGen => r.value = row \/ Unheard,
           cache' \in {"none", cache, row} \/ Unheard
    PROVE  SharpOK'
  <1>1. Unheard' = Unheard
    BY DEF Unheard
  <1>2. reads' = [reads EXCEPT ![c] = r] /\ reads \in [Client -> ReadState]
    BY DEF StoreInv, StoreTypeOK, Reads, ReadState
  <1>3. \A d \in Client :
            reads'[d].pc = "install" /\ reads'[d].gen = cacheGen => reads'[d].value = row \/ Unheard
    BY <1>2 DEF SharpOK
  <1>. QED BY <1>1, <1>3 DEF SharpOK

(* A step that leaves the store but for its counters alone. *)
LEMMA SharpRests ==
    ASSUME SharpOK, UNCHANGED <<row, cacheGen, reads, writers, lost>>, cache' \in {"none", cache}
    PROVE  SharpOK'
  <1>1. Unheard' = Unheard
    BY DEF Unheard
  <1>. QED BY <1>1 DEF SharpOK

LEMMA SharpBegins ==
    ASSUME StoreInv, SharpOK, NEW c \in Client, beginRead(c),
           UNCHANGED <<row, cache, cacheGen, writers, lost>>
    PROVE  SharpOK'
  <1>. DEFINE r == IF cache # "none" THEN [pc |-> "done", gen |-> 0, value |-> cache]
                   ELSE [pc |-> "query", gen |-> cacheGen, value |-> Absent]
  <1>1. Reads(c, r) /\ r.pc # "install"
    BY DEF beginRead
  <1>. HIDE DEF r
  <1>. QED BY <1>1, SharpReads

LEMMA SharpEnds ==
    ASSUME StoreInv, SharpOK, NEW c \in Client, Reads(c, NoRead),
           UNCHANGED <<row, cache, cacheGen, writers, lost>>
    PROVE  SharpOK'
  BY SharpReads DEF NoRead

LEMMA SharpFills ==
    ASSUME StoreInv, SharpOK, NEW c \in Client, ReadStep(c)
    PROVE  SharpOK'
  <1>1. reads[c] \in ReadState
    BY DEF StoreInv, StoreTypeOK, ReadState
  <1>2. CASE queryRow(c)
    <2>1. PICK r : /\ Reads(c, r)
                   /\ r.pc = "install" => r.value = row
      <3>1. CASE Reads(c, [reads[c] EXCEPT !.pc = "install", !.value = row])
        <4>1. [reads[c] EXCEPT !.pc = "install", !.value = row].value = row
          BY <1>1 DEF ReadState
        <4>. QED BY <3>1, <4>1
      <3>2. CASE Reads(c, [pc |-> "done", gen |-> 0, value |-> "failed"])
        BY <3>2
      <3>. QED BY <1>2, <3>1, <3>2 DEF queryRow
    <2>. QED BY <1>2, <2>1, SharpReads DEF queryRow
  <1>3. CASE install(c)
    <2>. DEFINE r == [reads[c] EXCEPT !.pc = "done", !.gen = 0]
    <2>1. Reads(c, r) /\ r.pc # "install"
      BY <1>1, <1>3 DEF install, ReadState
    <2>2. cache' \in {"none", cache, row} \/ Unheard
      BY <1>3 DEF install, SharpOK
    <2>. HIDE DEF r
    <2>. QED BY <1>3, <2>1, <2>2, SharpReads DEF install
  <1>. QED BY <1>2, <1>3 DEF ReadStep

(* An eviction leaves nothing cached and no fill that may be installed.    *)
LEMMA SharpEvicts ==
    ASSUME StoreInv, evictLocked, UNCHANGED <<row, reads>>,
           \A w \in Writer : writers'[w].pc = "exec" => writers'[w].ok
    PROVE  SharpOK'
  <1>1. \A c \in Client : reads'[c].gen # cacheGen'
    BY DEF StoreInv, StoreTypeOK, FillsOK, FillOK, evictLocked
  <1>. QED BY <1>1 DEF SharpOK, evictLocked

(* A step of one writer that evicts nothing. *)
LEMMA SharpWrites ==
    ASSUME StoreInv, SharpOK, NEW w \in Writer, WriteStep(w), ~evict(w)
    PROVE  SharpOK'
  <1>. DEFINE x == writers[w]
  <1>0. w \in Client /\ x \in WriteState /\ writers \in [Writer -> WriteState]
    BY DEF Client, StoreInv, StoreTypeOK, WriteState
  <1>1. CASE ReadStep(w)
    BY <1>0, <1>1, SharpFills
  <1>2. CASE lookup(w)
    <2>1. CASE beginRead(w) /\ UNCHANGED writers
      BY <1>0, <1>2, <2>1, SharpBegins DEF lookup
    <2>2. CASE Reads(w, NoRead) /\ Writes(w, [x EXCEPT !.pc = "notify"])
      <3>1. Unheard' = Unheard /\ \A v \in Writer : writers'[v].pc = "exec" => writers'[v].ok
        BY <1>0, <1>2, <2>2 DEF lookup, Writes, Unheard, WriteState, SharpOK
      <3>2. reads' = [reads EXCEPT ![w] = NoRead] /\ NoRead.pc # "install"
        BY <2>2 DEF Reads, NoRead
      <3>. QED BY <1>2, <3>1, <3>2 DEF lookup, SharpOK, StoreInv, StoreTypeOK
    <2>. QED BY <1>2, <2>1, <2>2 DEF lookup
  <1>3. CASE notifyChange(w)
    <2>1. writers' = [writers EXCEPT ![w] = NoWrite] /\ NoWrite.pc # "exec" /\ x.pc = "notify"
      BY <1>3 DEF notifyChange, Writes, NoWrite
    <2>2. \A v \in Writer : writers'[v].pc = "exec" => writers'[v].ok
      BY <1>0, <2>1 DEF SharpOK
    <2>3. Unheard /\ (lost # "unheard" \/ Pending) => Unheard'
      BY <1>0, <1>3, <2>1 DEF notifyChange, Unheard, Pending
    <2>4. CASE lost = "unheard" /\ ~Pending
      BY <1>3, <2>2, <2>4
      DEF notifyChange, SharpOK, StoreInv, CacheFresh, FillsOK, FillOK, Pending
    <2>5. CASE lost # "unheard" \/ Pending
      BY <1>3, <2>2, <2>3, <2>5 DEF notifyChange, SharpOK
    <2>. QED BY <2>4, <2>5
  <1>4. CASE commitRow(w)
    <2>1. x.pc = "exec" /\ x.ok
      BY <1>4 DEF commitRow, SharpOK
    <2>2. \A v \in Writer : writers'[v].pc = "exec" => writers'[v].ok
      <3>1. /\ [x EXCEPT !.pc = "evict"].pc = "evict"
            /\ [x EXCEPT !.pc = "evict", !.ok = FALSE].pc = "evict"
            /\ NoWrite.pc = "idle"
        BY <1>0 DEF NoWrite, WriteState
      <3>2. PICK y : Writes(w, y) /\ y.pc # "exec"
        BY <1>4, <3>1 DEF commitRow
      <3>. QED BY <1>0, <3>2 DEF Writes, SharpOK
    <2>3. Unheard => Unheard'
      BY <1>0, <1>4, <2>1 DEF commitRow, Writes, NoWrite, WriteState, Unheard
    <2>4. row' = row \/ Unheard'
      BY <1>0, <1>4, <2>1 DEF commitRow, Writes, NoWrite, WriteState, Unheard
    <2>. QED BY <1>4, <2>2, <2>3, <2>4 DEF commitRow, SharpOK
  <1>. QED BY <1>1, <1>2, <1>3, <1>4 DEF WriteStep

LEMMA SharpStore ==
    ASSUME StoreInv, SharpOK, StoreNext
    PROVE  SharpOK'
  <1>1. ASSUME NEW w \in Writer, evict(w) PROVE SharpOK'
    <2>. DEFINE x == writers[w]
    <2>0. x \in WriteState /\ writers \in [Writer -> WriteState]
      BY DEF StoreInv, StoreTypeOK, WriteState
    <2>1. /\ NoWrite.pc = "idle"
          /\ \A pc \in {"lookup", "notify"} : [x EXCEPT !.pc = pc].pc = pc
      BY <2>0 DEF NoWrite, WriteState
    <2>2. PICK y : Writes(w, y) /\ y.pc # "exec"
      BY <1>1, <2>1 DEF evict
    <2>3. \A v \in Writer : writers'[v].pc = "exec" => writers'[v].ok
      BY <2>0, <2>2 DEF Writes, SharpOK
    <2>. QED BY <1>1, <2>3, SharpEvicts DEF evict
  <1>2. ASSUME NEW w \in Writer, beginSet(w) PROVE SharpOK'
    <2>1. \A v \in Writer : writers'[v].pc = "exec" => writers'[v].ok
      BY <1>2 DEF beginSet, Writes, SharpOK, StoreInv, StoreTypeOK
    <2>. QED BY <1>2, <2>1, SharpEvicts DEF beginSet
  <1>3. ASSUME NEW w \in Writer, beginTx(w) PROVE SharpOK'
    <2>1. \A v \in Writer : writers'[v].pc = "exec" => writers'[v].ok
      BY <1>3 DEF beginTx, Writes, SharpOK, StoreInv, StoreTypeOK
    <2>2. Unheard => Unheard'
      BY <1>3 DEF beginTx, Writes, Unheard, StoreInv, StoreTypeOK
    <2>. QED BY <1>3, <2>1, <2>2 DEF beginTx, SharpOK
  <1>4. ASSUME NEW w \in Writer, WriteStep(w), ~evict(w) PROVE SharpOK'
    BY <1>4, SharpWrites
  <1>5. ASSUME NEW c \in Reader, ReadStep(c) PROVE SharpOK'
    BY <1>5, SharpFills, ReaderIsClient
  <1>6. CASE ExpireEntry \/ OtherKeyChanges
    BY <1>6, SharpRests DEF ExpireEntry, OtherKeyChanges
  <1>. QED BY <1>1, <1>2, <1>3, <1>4, <1>5, <1>6 DEF StoreNext

(* Nothing the store does keeps from the loop what is coming, and a row    *)
(* that changes sends something.                                           *)
LEMMA StoreSends ==
    ASSUME StoreInv, SharpOK, StoreNext
    PROVE  (Coming \/ row' # row) => Coming'
  <1>0. writers \in [Writer -> WriteState] /\ events \in Nat
    BY StoreAssumption DEF StoreInv, StoreTypeOK, WriteState
  <1>1. ASSUME NEW w \in Writer, evict(w) PROVE (Coming \/ row' # row) => Coming'
    <2>. DEFINE x == writers[w]
                pc == IF x.tx /\ x.value # Absent THEN "lookup" ELSE "notify"
    <2>1. x \in WriteState /\ x.pc = "evict"
      BY <1>0, <1>1 DEF evict
    <2>2. x.ok => writers' = [writers EXCEPT ![w] = [x EXCEPT !.pc = pc]]
      BY <1>1 DEF evict, Writes
    <2>3. [x EXCEPT !.pc = pc].pc \in {"lookup", "notify"}
      BY <2>1 DEF WriteState
    <2>4. x.ok => Coming'
      BY <1>0, <2>2, <2>3 DEF Coming
    <2>5. /\ \A v \in Writer \ {w} : writers'[v] = writers[v]
          /\ lost # "none" => lost' # "none"
          /\ events' = events /\ row' = row
      BY <1>0, <1>1 DEF evict, Writes, evictLocked
    <2>. QED BY <2>1, <2>4, <2>5 DEF Coming, Unheard
  <1>2. ASSUME NEW w \in Writer, beginSet(w) \/ beginTx(w)
        PROVE  (Coming \/ row' # row) => Coming'
    <2>1. /\ \A v \in Writer \ {w} : writers'[v] = writers[v]
          /\ writers[w].pc = "idle"
          /\ lost # "none" => lost' # "none"
          /\ events' = events /\ row' = row
      BY <1>0, <1>2 DEF beginSet, beginTx, Writes, evictLocked
    <2>. QED BY <2>1 DEF Coming, Unheard
  <1>3. ASSUME NEW w \in Writer, commitRow(w) PROVE (Coming \/ row' # row) => Coming'
    <2>. DEFINE x == writers[w]
    <2>1. x \in WriteState /\ x.pc = "exec" /\ x.ok
      BY <1>0, <1>3 DEF commitRow, SharpOK
    <2>2. /\ \A v \in Writer \ {w} : writers'[v] = writers[v]
          /\ lost # "none" => lost' # "none"
          /\ events' = events
      BY <1>0, <1>3 DEF commitRow, Writes
    <2>3. Coming => Coming'
      BY <2>1, <2>2 DEF Coming, Unheard
    <2>4. row' # row => Unheard'
      BY <1>0, <1>3, <2>1 DEF commitRow, Writes, NoWrite, WriteState, Unheard
    <2>. QED BY <2>3, <2>4 DEF Coming
  <1>4. ASSUME NEW w \in Writer, lookup(w) PROVE (Coming \/ row' # row) => Coming'
    <2>. DEFINE x == writers[w]
    <2>1. x \in WriteState /\ x.pc = "lookup"
      BY <1>0, <1>4 DEF lookup
    <2>2. [x EXCEPT !.pc = "notify"].pc = "notify"
      BY <2>1 DEF WriteState
    <2>3. writers'[w].pc \in {"lookup", "notify"}
      BY <1>0, <1>4, <2>1, <2>2 DEF lookup, Writes
    <2>4. row' = row
      BY <1>4 DEF lookup
    <2>. QED BY <2>3, <2>4 DEF Coming
  <1>5. ASSUME NEW w \in Writer, notifyChange(w) PROVE (Coming \/ row' # row) => Coming'
    <2>1. events' > 0 /\ row' = row
      BY <1>0, <1>5, StoreAssumption DEF notifyChange
    <2>. QED BY <2>1 DEF Coming
  <1>6. ASSUME NEW c \in Client, ReadStep(c) PROVE (Coming \/ row' # row) => Coming'
    BY <1>6 DEF ReadStep, queryRow, install, Coming, Unheard
  <1>7. CASE ExpireEntry \/ OtherKeyChanges
    BY <1>0, <1>7 DEF ExpireEntry, OtherKeyChanges, Coming, Unheard
  <1>8. \A w \in Writer : w \in Client
    BY DEF Client
  <1>. QED BY <1>1, <1>2, <1>3, <1>4, <1>5, <1>6, <1>7, <1>8, ReaderIsClient
           DEF StoreNext, WriteStep

(* The loop's read, as a step of the store may move it. *)
LEMMA StoreReads ==
    ASSUME StoreInv, StoreNext
    PROVE  \/ reads'[Loop] = reads[Loop]
           \/ /\ reads[Loop].pc # "idle" /\ reads'[Loop].pc \in {"install", "done"}
              /\ reads'[Loop].value \in {row, reads[Loop].value, "failed"}
              /\ reads[Loop].pc = "query" => reads'[Loop].value \in {row, "failed"}
  <1>0. /\ reads \in [Client -> ReadState] /\ Loop \in Client /\ Loop \notin Writer
        /\ Writer \subseteq Client
    BY PollAssumption, StoreAssumption DEF StoreInv, StoreTypeOK, ReadState, Client
  <1>1. ASSUME NEW w \in Writer, beginSet(w) \/ beginTx(w) \/ commitRow(w) \/ evict(w)
                                 \/ notifyChange(w)
        PROVE  reads' = reads
    BY <1>1 DEF beginSet, beginTx, commitRow, evict, notifyChange
  <1>2. ASSUME NEW w \in Writer, lookup(w) PROVE reads'[Loop] = reads[Loop]
    BY <1>0, <1>2 DEF lookup, beginRead, Reads
  <1>3. ASSUME NEW c \in Client \ {Loop}, ReadStep(c) PROVE reads'[Loop] = reads[Loop]
    BY <1>0, <1>3 DEF ReadStep, queryRow, install, Reads
  <1>4. CASE queryRow(Loop)
    <2>. DEFINE r == [reads[Loop] EXCEPT !.pc = "install", !.value = row]
    <2>1. r.pc = "install" /\ r.value = row
      BY <1>0 DEF ReadState
    <2>2. \/ reads' = [reads EXCEPT ![Loop] = r]
          \/ reads' = [reads EXCEPT ![Loop] = [pc |-> "done", gen |-> 0, value |-> "failed"]]
      BY <1>4 DEF queryRow, Reads
    <2>. HIDE DEF r
    <2>. QED BY <1>0, <1>4, <2>1, <2>2 DEF queryRow
  <1>5. CASE install(Loop)
    <2>. DEFINE r == [reads[Loop] EXCEPT !.pc = "done", !.gen = 0]
    <2>1. r.pc = "done" /\ r.value = reads[Loop].value
      BY <1>0 DEF ReadState
    <2>2. reads' = [reads EXCEPT ![Loop] = r] /\ reads[Loop].pc = "install"
      BY <1>5 DEF install, Reads
    <2>. HIDE DEF r
    <2>. QED BY <1>0, <2>1, <2>2
  <1>6. CASE ExpireEntry \/ OtherKeyChanges
    BY <1>6 DEF ExpireEntry, OtherKeyChanges
  <1>. QED BY <1>0, <1>1, <1>2, <1>3, <1>4, <1>5, <1>6, ReaderIsClient
           DEF StoreNext, WriteStep, ReadStep

(* Steps outside the store bring or take nothing but events. *)
LEMMA ComingRests ==
    ASSUME UNCHANGED <<lost, writers, events>>
    PROVE  Coming' = Coming /\ Unheard' = Unheard
  BY DEF Coming, Unheard

LEMMA WakeStore ==
    ASSUME IInv, WakeOK, StoreNext, UNCHANGED quota
    PROVE  WakeOK'
  <1>. USE DEF IInv, WakeOK
  <1>1. SharpOK'
    BY SharpStore
  <1>2. loop' = loop /\ refresh' = refresh
    BY DEF quota
  <1>3. WhereOK'
    BY <1>2, StoreReads DEF WhereOK
  <1>4. reads[Loop].pc \in {"idle", "query", "install", "done"}
    BY ReaderIsClient DEF StoreInv, StoreTypeOK
  <1>5. OffOK'
    <2>. SUFFICES ASSUME row' # "off", ~Coming' PROVE OffOK'
      BY DEF OffOK
    <2>1. row' = row /\ ~Coming
      BY StoreSends
    <2>. QED BY <1>2, <1>4, <2>1, StoreReads DEF OffOK
  <1>. QED BY <1>1, <1>3, <1>5

(* A read that begins: an "off" in the cache is the row's, or excused.     *)
LEMMA OffBegins ==
    ASSUME IInv, SharpOK, beginRead(Loop)
    PROVE  /\ reads'[Loop].pc # "install"
           /\ reads'[Loop].pc = "done" /\ reads'[Loop].value = "off" => row = "off" \/ Coming
  <1>1. reads \in [Client -> ReadState] /\ Loop \in Client
    BY ReaderIsClient DEF IInv, StoreInv, StoreTypeOK, ReadState
  <1>2. reads'[Loop] = IF cache # "none" THEN [pc |-> "done", gen |-> 0, value |-> cache]
                       ELSE [pc |-> "query", gen |-> cacheGen, value |-> Absent]
    BY <1>1 DEF beginRead, Reads
  <1>. QED BY <1>2 DEF SharpOK, Coming

LEMMA WakeRefresh ==
    ASSUME IInv, WakeOK, NEW r \in Reader, RefreshStep(r)
    PROVE  WakeOK'
  <1>. USE DEF WakeOK
  <1>0. /\ r \in Client /\ Loop \in Client /\ refresh \in [Reader -> RefreshState]
        /\ reads \in [Client -> ReadState] /\ loop' = loop /\ row' = row /\ Loop \in Reader
    BY ReaderIsClient
    DEF IInv, QuotaTypeOK, StoreInv, StoreTypeOK, ReadState, RefreshStep, listSnapshots,
        readRefreshInterval, refreshFails, applyPins, replaceAdvice, releaseRecovered, store
  <1>1. UNCHANGED <<row, cache, cacheGen, writers, events, lost>>
    BY DEF RefreshStep, listSnapshots, readRefreshInterval, refreshFails, applyPins,
           replaceAdvice, releaseRecovered, store
  <1>2. Coming' = Coming
    BY <1>1, ComingRests
  <1>3. CASE readRefreshInterval(r)
    <2>1. CASE beginRead(r) /\ UNCHANGED refresh
      <3>1. SharpOK'
        BY <1>0, <1>1, <2>1, SharpBegins DEF IInv
      <3>2. CASE r = Loop
        <4>1. refresh[Loop].pc = "interval" /\ loop.pc \in {"advise", "poll"}
          BY <1>3, <3>2 DEF readRefreshInterval, WhereOK
        <4>2. WhereOK'
          BY <1>0, <2>1, <4>1 DEF WhereOK
        <4>3. OffOK'
          BY <1>0, <1>2, <2>1, <3>2, <4>1, OffBegins DEF OffOK
        <4>. QED BY <3>1, <4>2, <4>3
      <3>3. CASE r # Loop
        <4>1. reads'[Loop] = reads[Loop]
          BY <1>0, <2>1, <3>3 DEF beginRead, Reads
        <4>. QED BY <1>0, <1>2, <2>1, <3>1, <4>1 DEF WhereOK, OffOK
      <3>. QED BY <3>2, <3>3
    <2>2. ASSUME Reads(r, NoRead), NEW x, x.pc = "apply", Refreshes(r, x)
          PROVE  WakeOK'
      <3>1. SharpOK'
        BY <1>0, <1>1, <2>2, SharpEnds DEF IInv
      <3>2. /\ reads'[Loop] = IF r = Loop THEN NoRead ELSE reads[Loop]
            /\ refresh'[Loop] = IF r = Loop THEN x ELSE refresh[Loop]
        BY <1>0, <2>2 DEF Reads, Refreshes
      <3>3. NoRead.pc = "idle" /\ (r = Loop => loop.pc \in {"advise", "poll"})
        BY <1>3 DEF readRefreshInterval, WhereOK, NoRead
      <3>4. WhereOK'
        BY <1>0, <3>2, <3>3 DEF WhereOK
      <3>5. OffOK'
        BY <1>0, <1>2, <3>2, <3>3 DEF OffOK
      <3>. QED BY <3>1, <3>4, <3>5
    <2>3. [refresh[r] EXCEPT !.pc = "apply", !.interval = GetInt(reads[r].value)].pc = "apply"
      BY <1>0 DEF RefreshState
    <2>. QED BY <1>3, <2>1, <2>2, <2>3 DEF readRefreshInterval
  <1>4. CASE ~readRefreshInterval(r)
    <2>1. PICK x : Refreshes(r, x) /\ refresh[r].pc \notin {"idle", "interval"} /\ reads' = reads
      BY <1>4 DEF RefreshStep, listSnapshots, refreshFails, applyPins, replaceAdvice,
                  releaseRecovered, store
    <2>2. SharpOK'
      BY <1>1, <2>1, SharpRests
    <2>3. refresh'[Loop] = refresh[Loop] \/ r = Loop
      BY <1>0, <2>1 DEF Refreshes
    <2>4. WhereOK'
      BY <1>0, <2>1, <2>3 DEF WhereOK
    <2>5. OffOK'
      BY <1>0, <1>2, <2>1 DEF OffOK
    <2>. QED BY <2>2, <2>4, <2>5
  <1>. QED BY <1>3, <1>4

(* The loop takes an event before it reads, and sleeps on what it read.    *)
LEMMA WakeLoop ==
    ASSUME IInv, WakeOK, LoopStep
    PROVE  WakeOK'
  <1>. USE DEF WakeOK
  <1>0. /\ Loop \in Reader /\ Loop \in Client /\ refresh \in [Reader -> RefreshState]
        /\ reads \in [Client -> ReadState] /\ loop \in LoopState /\ NoRead.pc = "idle"
    BY ReaderIsClient
    DEF IInv, QuotaTypeOK, StoreInv, StoreTypeOK, ReadState, NoRead
  <1>1. UNCHANGED <<row, cache, cacheGen, writers, lost>>
    BY DEF LoopStep, boot, subscribe, readInterval, clearQuotaAdvice, releaseAllQuotaPins,
           wakeOnEvent, tick, pollDone, store
  <1>2. \A pc \in {"advise", "read", "poll", "release"} :
            [loop EXCEPT !.pc = pc].pc = pc /\ [loop EXCEPT !.pc = pc].interval = loop.interval
    BY <1>0 DEF LoopState
  <1>3. ASSUME LoopBegins, UNCHANGED events, loop.pc \in {"boot", "read"} PROVE WakeOK'
    <2>1. Coming' = Coming
      BY <1>1, <1>3, ComingRests
    <2>2. SharpOK'
      BY <1>0, <1>1, <1>3, SharpBegins DEF IInv, LoopBegins
    <2>3. WhereOK'
      BY <1>3 DEF LoopBegins, WhereOK
    <2>4. OffOK'
      BY <1>1, <1>3, <2>1, OffBegins DEF LoopBegins, OffOK
    <2>. QED BY <2>2, <2>3, <2>4
  <1>4. ASSUME NEW n, LoopHas(n), UNCHANGED events, NEW x, loop' = x,
               x.pc \in {"advise", "wait", "clear"},
               x.pc \in {"wait", "clear"} => x.interval = n,
               refresh'[Loop] = refresh[Loop] \/ x.pc = "advise",
               loop.pc \in {"boot", "read"}
        PROVE  WakeOK'
    <2>1. Coming' = Coming
      BY <1>1, <1>4, ComingRests
    <2>2. reads'[Loop] = NoRead
      BY <1>0, <1>4 DEF LoopHas, Reads
    <2>3. SharpOK'
      BY <1>0, <1>1, <1>4, SharpEnds DEF IInv, LoopHas
    <2>4. WhereOK'
      BY <1>0, <1>4, <2>2 DEF WhereOK
    <2>5. OffOK'
      BY <1>0, <1>1, <1>4, <2>1, <2>2 DEF OffOK, LoopHas, GetInt
    <2>. QED BY <2>3, <2>4, <2>5
  <1>5. CASE boot
    <2>1. CASE LoopBegins
      BY <1>3, <1>5, <2>1 DEF boot
    <2>2. CASE LoopHas(0) /\ LoopTo([loop EXCEPT !.pc = "advise"]) /\ UNCHANGED refresh
      BY <1>2, <1>4, <1>5, <2>2 DEF boot, LoopTo
    <2>3. CASE LoopHas(1) /\ LoopTo([loop EXCEPT !.pc = "advise"]) /\ StartRefresh(Loop)
      BY <1>2, <1>4, <1>5, <2>3 DEF boot, LoopTo
    <2>. QED BY <1>5, <2>1, <2>2, <2>3 DEF boot
  <1>6. CASE readInterval
    <2>. DEFINE pc == IF loop.handled THEN "wait" ELSE "clear"
                x  == [loop EXCEPT !.interval = 0, !.pc = pc]
                y  == [pc |-> "wait", interval |-> 1, handled |-> FALSE]
    <2>1. CASE LoopBegins
      BY <1>3, <1>6, <2>1 DEF readInterval
    <2>2. x.pc \in {"wait", "clear"} /\ x.interval = 0 /\ y.pc = "wait" /\ y.interval = 1
      BY <1>0 DEF LoopState
    <2>3. CASE LoopHas(0) /\ LoopTo(x) /\ UNCHANGED refresh
      <3>1. loop' = x /\ refresh' = refresh /\ UNCHANGED events /\ loop.pc = "read"
        BY <1>6, <2>3 DEF LoopTo, readInterval
      <3>. HIDE DEF x
      <3>. QED BY <1>4, <2>2, <2>3, <3>1
    <2>4. CASE LoopHas(1) /\ LoopTo(y) /\ UNCHANGED refresh
      <3>1. loop' = y /\ refresh' = refresh /\ UNCHANGED events /\ loop.pc = "read"
        BY <1>6, <2>4 DEF LoopTo, readInterval
      <3>. HIDE DEF y
      <3>. QED BY <1>4, <2>2, <2>4, <3>1
    <2>. QED BY <1>6, <2>1, <2>3, <2>4 DEF readInterval
  <1>7. CASE clearQuotaAdvice \/ releaseAllQuotaPins
    <2>1. UNCHANGED <<reads, events, refresh>>
      BY <1>7 DEF clearQuotaAdvice, releaseAllQuotaPins, store
    <2>2. /\ loop.pc \in {"clear", "release"} /\ loop'.pc \in {"release", "wait"}
          /\ loop'.interval = loop.interval
      BY <1>0, <1>7 DEF clearQuotaAdvice, releaseAllQuotaPins, LoopTo, LoopState
    <2>3. Coming' = Coming
      BY <1>1, <2>1, ComingRests
    <2>4. SharpOK'
      BY <1>1, <2>1, SharpRests
    <2>. QED BY <1>1, <2>1, <2>2, <2>3, <2>4 DEF WhereOK, OffOK
  <1>8. CASE wakeOnEvent
    <2>1. reads' = reads /\ refresh' = refresh /\ loop.pc = "wait" /\ loop'.pc = "read"
      BY <1>2, <1>8 DEF wakeOnEvent, LoopTo
    <2>2. SharpOK'
      BY <1>1, <2>1, SharpRests
    <2>3. reads[Loop].pc = "idle" /\ refresh[Loop].pc = "idle"
      BY <2>1 DEF WhereOK
    <2>. QED BY <2>1, <2>2, <2>3 DEF WhereOK, OffOK
  <1>9. CASE tick \/ pollDone
    <2>1. /\ UNCHANGED <<reads, events>> /\ loop.pc \in {"wait", "poll"}
          /\ loop.pc = "poll" => refresh[Loop].pc = "idle" /\ loop'.pc = "read"
          /\ loop'.pc \in {"poll", "read"}
          /\ refresh'[Loop] = refresh[Loop] \/ loop'.pc = "poll"
      BY <1>2, <1>9 DEF tick, pollDone, store, LoopTo
    <2>2. reads[Loop].pc = "idle"
      BY <2>1 DEF WhereOK
    <2>3. SharpOK'
      BY <1>1, <2>1, SharpRests
    <2>4. WhereOK'
      BY <2>1, <2>2 DEF WhereOK
    <2>. QED BY <2>1, <2>2, <2>3, <2>4 DEF OffOK
  <1>10. CASE subscribe
    <2>1. /\ reads' = reads /\ refresh' = refresh /\ loop.pc = "advise" /\ loop'.pc = "read"
          /\ refresh[Loop].pc = "idle"
      BY <1>2, <1>10 DEF subscribe, LoopTo
    <2>2. SharpOK'
      BY <1>1, <2>1, SharpRests
    <2>3. reads[Loop].pc = "idle"
      BY <2>1 DEF WhereOK
    <2>. QED BY <2>1, <2>2, <2>3 DEF WhereOK, OffOK
  <1>. QED BY <1>5, <1>6, <1>7, <1>8, <1>9, <1>10 DEF LoopStep

LEMMA WakeNudge ==
    ASSUME IInv, WakeOK, NEW n \in Nudge, NudgeQuotaPoll(n)
    PROVE  WakeOK'
  <1>. USE DEF WakeOK
  <1>1. /\ UNCHANGED <<row, cache, cacheGen, reads, writers, events, lost, loop>>
        /\ refresh'[Loop] = refresh[Loop]
    BY PollAssumption DEF NudgeQuotaPoll, store, StartRefresh, Refreshes, IInv, QuotaTypeOK
  <1>2. Coming' = Coming
    BY <1>1, ComingRests
  <1>3. SharpOK'
    BY <1>1, SharpRests
  <1>. QED BY <1>1, <1>2, <1>3 DEF WhereOK, OffOK

LEMMA AlwaysWoken == PollSpec => []WakeOK
  <1>1. PollInit => WakeOK
    BY ReaderIsClient
    DEF PollInit, StoreInit, NoRead, NoWrite, Rest, WakeOK, SharpOK, WhereOK, OffOK
  <1>2. IInv /\ WakeOK /\ [PollNext]_polling => WakeOK'
    <2>. SUFFICES ASSUME IInv, WakeOK, [PollNext]_polling PROVE WakeOK'
      OBVIOUS
    <2>1. CASE UNCHANGED polling
      <3>1. UNCHANGED <<row, cache, cacheGen, reads, writers, events, lost, loop, refresh>>
        BY <2>1 DEF polling, store, quota
      <3>2. Coming' = Coming /\ SharpOK'
        BY <3>1, ComingRests, SharpRests DEF WakeOK
      <3>. QED BY <3>1, <3>2 DEF WakeOK, WhereOK, OffOK
    <2>. QED BY <2>1, WakeStore, WakeRefresh, WakeNudge, WakeLoop DEF PollNext
  <1>. QED BY <1>1, <1>2, Inductive, PTL DEF PollSpec

(* However many events a full channel drops and however writes, evictions  *)
(* and stale fills cross the loop's read, the loop never sleeps without a  *)
(* timer on a value that a write has replaced, unless an event is on its   *)
(* way or the write was reported as failed (settingsIntervalLoop,          *)
(* notifyChange, evictLocked).                                             *)
THEOREM OffNeverOverslept == PollSpec => []OffLoopIsWoken
  <1>1. WakeOK => OffLoopIsWoken
    BY DEF WakeOK, OffOK, OffLoopIsWoken, Coming, Unheard, GetInt
  <1>. QED BY <1>1, AlwaysWoken, PTL

-----------------------------------------------------------------------------
(***************************************************************************)
(* Who advises while polling is off.                                       *)
(***************************************************************************)

(* The loop has dropped the advice and has not seen polling on since. *)
Off == loop.handled \/ loop.pc = "release"

(* Polling is switched off with no advice left, and what comes back is     *)
(* published by a nudge's refresh that read a positive interval: the loop  *)
(* itself never advises while polling is off (DisableQuotaAdvice,          *)
(* RefreshQuotaAdvice).                                                    *)
LateAdviceIsANudges ==
    [][(Off' /\ advice' /\ ~(Off /\ advice)) =>
          \E n \in Nudge : refresh[n].pc = "replace" /\ refresh[n].interval > 0]_polling

(* The loop polls only while it is on. *)
HandledOK ==
    /\ loop.pc \in {"boot", "advise", "poll"} => ~loop.handled
    /\ loop.handled \/ loop.pc \in {"clear", "release"} => loop.interval = 0

LEMMA HandledKept ==
    ASSUME IInv, HandledOK, [PollNext]_polling
    PROVE  HandledOK'
  <1>0. loop \in LoopState
    BY DEF IInv, QuotaTypeOK
  <1>1. ASSUME loop' = loop PROVE HandledOK'
    BY <1>1 DEF HandledOK
  <1>2. CASE (StoreNext /\ UNCHANGED quota) \/ UNCHANGED polling
    BY <1>1, <1>2 DEF quota, polling
  <1>3. ASSUME NEW r \in Reader, RefreshStep(r) PROVE HandledOK'
    BY <1>1, <1>3 DEF RefreshStep, listSnapshots, readRefreshInterval, refreshFails, applyPins,
                      replaceAdvice, releaseRecovered
  <1>4. ASSUME NEW n \in Nudge, NudgeQuotaPoll(n) PROVE HandledOK'
    BY <1>1, <1>4 DEF NudgeQuotaPoll
  <1>5. CASE boot \/ subscribe \/ wakeOnEvent \/ tick \/ pollDone
    <2>1. loop' = loop \/ \E pc \in {"advise", "read", "poll"} :
              /\ loop' = [loop EXCEPT !.pc = pc]
              /\ pc = "poll" => loop.interval > 0
              /\ pc = "advise" => loop.pc = "boot"
      BY <1>5 DEF boot, subscribe, wakeOnEvent, tick, pollDone, LoopBegins, LoopTo
    <2>. QED BY <1>0, <1>1, <2>1 DEF HandledOK, LoopState
  <1>6. CASE readInterval
    <2>1. \/ loop' = loop
          \/ loop' = [loop EXCEPT !.interval = 0, !.pc = IF loop.handled THEN "wait" ELSE "clear"]
          \/ loop' = [pc |-> "wait", interval |-> 1, handled |-> FALSE]
      BY <1>6 DEF readInterval, LoopBegins, LoopTo
    <2>2. ASSUME NEW pc \in {"wait", "clear"}, loop' = [loop EXCEPT !.interval = 0, !.pc = pc]
          PROVE  HandledOK'
      BY <1>0, <2>2 DEF HandledOK, LoopState
    <2>3. CASE loop' = [pc |-> "wait", interval |-> 1, handled |-> FALSE]
      BY <2>3 DEF HandledOK
    <2>4. (IF loop.handled THEN "wait" ELSE "clear") \in {"wait", "clear"}
      OBVIOUS
    <2>. QED BY <1>1, <2>1, <2>2, <2>3, <2>4
  <1>7. CASE clearQuotaAdvice \/ releaseAllQuotaPins
    BY <1>0, <1>7 DEF clearQuotaAdvice, releaseAllQuotaPins, LoopTo, HandledOK, LoopState
  <1>. QED BY <1>2, <1>3, <1>4, <1>5, <1>6, <1>7 DEF PollNext, LoopStep

LEMMA AdviceStep ==
    ASSUME IInv, HandledOK, WhereOK, PollNext, Off', advice', ~(Off /\ advice)
    PROVE  \E n \in Nudge : refresh[n].pc = "replace" /\ refresh[n].interval > 0
  <1>0. loop \in LoopState /\ refresh \in [Reader -> RefreshState]
    BY DEF IInv, QuotaTypeOK
  <1>1. ASSUME advice' => advice, Off' => Off PROVE FALSE
    BY <1>1
  <1>2. CASE StoreNext /\ UNCHANGED quota
    BY <1>1, <1>2 DEF quota, Off
  <1>3. ASSUME NEW n \in Nudge, NudgeQuotaPoll(n) PROVE FALSE
    BY <1>1, <1>3 DEF NudgeQuotaPoll, Off
  <1>4. CASE LoopStep
    <2>1. CASE clearQuotaAdvice
      BY <2>1 DEF clearQuotaAdvice
    <2>2. CASE ~clearQuotaAdvice
      <3>1. advice' => advice
        BY <1>4, <2>2 DEF LoopStep, boot, subscribe, readInterval, releaseAllQuotaPins,
                          wakeOnEvent, tick, pollDone
      <3>2. \/ loop' = loop \/ loop.pc = "release"
            \/ \E pc \in {"advise", "read", "poll"} : loop' = [loop EXCEPT !.pc = pc]
            \/ \E pc \in {"wait", "clear"} : loop' = [loop EXCEPT !.interval = 0, !.pc = pc]
            \/ loop' = [pc |-> "wait", interval |-> 1, handled |-> FALSE]
        <4>1. (IF loop.handled THEN "wait" ELSE "clear") \in {"wait", "clear"}
          OBVIOUS
        <4>2. CASE readInterval
          BY <4>1, <4>2 DEF readInterval, LoopBegins, LoopTo
        <4>3. CASE boot \/ subscribe \/ releaseAllQuotaPins \/ wakeOnEvent \/ tick \/ pollDone
          BY <4>3 DEF boot, subscribe, releaseAllQuotaPins, wakeOnEvent, tick, pollDone, LoopBegins, LoopTo
        <4>. QED BY <1>4, <2>2, <4>2, <4>3 DEF LoopStep
      <3>3. Off' => Off
        <4>1. ASSUME NEW pc \in {"advise", "read", "poll"}, loop' = [loop EXCEPT !.pc = pc]
              PROVE  loop'.pc # "release" /\ loop'.handled = loop.handled
          BY <1>0, <4>1 DEF LoopState
        <4>2. ASSUME NEW pc \in {"wait", "clear"}, loop' = [loop EXCEPT !.interval = 0, !.pc = pc]
              PROVE  loop'.pc # "release" /\ loop'.handled = loop.handled
          BY <1>0, <4>2 DEF LoopState
        <4>3. CASE loop' = [pc |-> "wait", interval |-> 1, handled |-> FALSE]
          BY <4>3 DEF Off
        <4>. QED BY <3>2, <4>1, <4>2, <4>3, Zenon DEF Off
      <3>. QED BY <1>1, <3>1, <3>3
    <2>. QED BY <2>1, <2>2
  <1>5. ASSUME NEW r \in Reader, RefreshStep(r)
        PROVE  r \in Nudge /\ refresh[r].pc = "replace" /\ refresh[r].interval > 0
    <2>1. loop' = loop
      BY <1>5 DEF RefreshStep, listSnapshots, readRefreshInterval, refreshFails, applyPins,
                  replaceAdvice, releaseRecovered
    <2>2. replaceAdvice(r) /\ buildQuotaAdvice(r)
      BY <1>1, <1>5, <2>1
      DEF RefreshStep, listSnapshots, readRefreshInterval, refreshFails, applyPins, replaceAdvice,
          releaseRecovered, Off
    <2>3. refresh[r].pc = "replace" /\ refresh[r].interval > 0
      BY <2>2 DEF replaceAdvice, buildQuotaAdvice
    <2>4. r # Loop
      BY <2>1, <2>3 DEF WhereOK, HandledOK, Off
    <2>. QED BY <2>3, <2>4, PollAssumption
  <1>. QED BY <1>2, <1>3, <1>4, <1>5 DEF PollNext

(* While polling is off the loop publishes nothing, however its own        *)
(* refresh, reads and wakings fall: advice found then is that of a refresh *)
(* beside the loop which read a positive interval (quota_snapshot.go:307). *)
THEOREM OffSpoiltByNudgesOnly == PollSpec => LateAdviceIsANudges
  <1>1. PollInit => HandledOK
    BY DEF PollInit, HandledOK
  <1>2. IInv /\ HandledOK /\ [PollNext]_polling => HandledOK'
    BY HandledKept
  <1>3. IInv /\ HandledOK /\ WakeOK /\ [PollNext]_polling =>
          [(Off' /\ advice' /\ ~(Off /\ advice)) =>
              \E n \in Nudge : refresh[n].pc = "replace" /\ refresh[n].interval > 0]_polling
    BY AdviceStep DEF WakeOK
  <1>. QED BY <1>1, <1>2, <1>3, Inductive, AlwaysWoken, PTL DEF PollSpec, LateAdviceIsANudges
=============================================================================
