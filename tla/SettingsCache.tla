--------------------------- MODULE SettingsCache ---------------------------
(***************************************************************************)
(* The settings repository (internal/settings/settings.go) over one key:   *)
(* its row, the read-through cache with its generation, the two ways a row *)
(* is written, and the subscription of one background loop.                *)
(*                                                                         *)
(* A read and a write are several steps: the lock is not held over a       *)
(* query.  An absence is cached like a value.  The map of generations, the *)
(* callbacks and WarmCache (one more read, at startup) add nothing to one  *)
(* key.                                                                    *)
(***************************************************************************)
EXTENDS Integers

CONSTANTS
    Reader,     \* goroutines that read the key
    Writer,     \* requests that write it; disjoint from Reader
    TxWriter,   \* those of them that write in a transaction of their caller's
    Setting,    \* the values a row may hold
    Absent,     \* no row
    Capacity,   \* of a subscription's channel, 16 in the code
    MaxWrites,
    MaxDBFaults,  \* failed reads, failed writes, lost acknowledgements
    MaxUpset    \* writes, faults and nudges of the poll together

ASSUME StoreAssumption ==
    /\ TxWriter \subseteq Writer /\ Reader \cap Writer = {}
    /\ Capacity \in Nat \ {0} /\ MaxWrites \in Nat /\ MaxDBFaults \in Nat

VARIABLES
    row,        \* the committed row
    cache,      \* the cached read, "none" when there is no live entry
    cacheGen,
    reads,      \* per goroutine, its read
    writers,    \* per writer, its write
    events,     \* events pending in the loop's channel
    lost,       \* history: a write took effect and was reported as failed, and
                \* nothing has made up for it: "unheard" (no event since it was
                \* evicted), "unevicted" (no eviction either)
    writes, dbFaults, nudges

store == <<row, cache, cacheGen, reads, writers, events, lost, writes, dbFaults>>

Row    == Setting \cup {Absent}
Client == Reader \cup Writer

StoreTypeOK ==
    /\ row \in Row
    /\ cache \in Row \cup {"none"}
    /\ cacheGen \in Nat
    /\ reads \in [Client -> [pc : {"idle", "query", "install", "done"},
                             gen : Nat, value : Row \cup {"failed"}]]
    /\ writers \in [Writer -> [pc : {"idle", "exec", "evict", "lookup", "notify"},
                               value : Row, tx : BOOLEAN, ok : BOOLEAN]]
    /\ events \in 0..Capacity
    /\ lost \in {"none", "unheard", "unevicted"}
    /\ writes \in 0..MaxWrites /\ dbFaults \in 0..MaxDBFaults

NoRead  == [pc |-> "idle", gen |-> 0, value |-> Absent]
NoWrite == [pc |-> "idle", value |-> Absent, tx |-> FALSE, ok |-> TRUE]

StoreInit ==
    /\ row \in Row /\ cache = "none" /\ cacheGen = 0
    /\ reads = [c \in Client |-> NoRead] /\ writers = [w \in Writer |-> NoWrite]
    /\ events = 0 /\ lost = "none" /\ writes = 0 /\ dbFaults = 0

Upset   == writes + dbFaults + nudges < MaxUpset
DBFault == Upset /\ dbFaults < MaxDBFaults /\ dbFaults' = dbFaults + 1
Write   == Upset /\ writes < MaxWrites /\ writes' = writes + 1

-----------------------------------------------------------------------------
(* GetChecked.                                                             *)

Reads(c, r) == reads' = [reads EXCEPT ![c] = r]

(* Under the read lock: a live entry answers, a miss captures the          *)
(* generation.  begin is the caller's; this is the whole state change.     *)
beginRead(c) ==
    /\ reads[c].pc = "idle"
    /\ Reads(c, IF cache # "none" THEN [pc |-> "done", gen |-> 0, value |-> cache]
                ELSE [pc |-> "query", gen |-> cacheGen, value |-> Absent])

queryRow(c) ==
    /\ reads[c].pc = "query"
    /\ \/ Reads(c, [reads[c] EXCEPT !.pc = "install", !.value = row]) /\ UNCHANGED dbFaults
       \/ DBFault /\ Reads(c, [pc |-> "done", gen |-> 0, value |-> "failed"])
    /\ UNCHANGED <<row, cache, cacheGen, writers, events, lost, writes>>

(* Mutant: a fill is installed whatever happened since its query. *)
AlwaysInstalls(c) ==
    /\ reads[c].pc = "install"
    /\ cache' = reads[c].value
    /\ Reads(c, [reads[c] EXCEPT !.pc = "done", !.gen = 0])
    /\ UNCHANGED <<row, cacheGen, writers, events, lost, writes, dbFaults>>

install(c) ==
    /\ reads[c].pc = "install"
    /\ cache' = IF cacheGen = reads[c].gen THEN reads[c].value ELSE cache
    /\ Reads(c, [reads[c] EXCEPT !.pc = "done", !.gen = 0])
    /\ UNCHANGED <<row, cacheGen, writers, events, lost, writes, dbFaults>>

(* cacheTTL passes. *)
ExpireEntry ==
    /\ cache # "none" /\ cache' = "none"
    /\ UNCHANGED <<row, cacheGen, reads, writers, events, lost, writes, dbFaults>>

-----------------------------------------------------------------------------
(* Writes.                                                                 *)

evictLocked ==
    /\ cache' = "none" /\ cacheGen' = cacheGen + 1
    /\ lost' = IF lost = "unevicted" THEN "unheard" ELSE lost

Writes(w, x) == writers' = [writers EXCEPT ![w] = x]

(* Set and DeleteKey evict before they write, SetTx and DeleteKeysTx do    *)
(* not.                                                                    *)
beginSet(w) ==
    /\ writers[w].pc = "idle" /\ w \notin TxWriter /\ Write
    /\ \E v \in Row : Writes(w, [pc |-> "exec", value |-> v, tx |-> FALSE, ok |-> TRUE])
    /\ evictLocked
    /\ UNCHANGED <<row, reads, events, dbFaults>>

beginTx(w) ==
    /\ writers[w].pc = "idle" /\ w \in TxWriter /\ Write
    /\ \E v \in Row : Writes(w, [pc |-> "exec", value |-> v, tx |-> TRUE, ok |-> TRUE])
    /\ UNCHANGED <<row, cache, cacheGen, reads, events, lost, dbFaults>>

(* The statement or the commit.  A reported failure may have taken effect; *)
(* a transaction's caller returns on it without another word.              *)
commitRow(w) ==
    /\ writers[w].pc = "exec"
    /\ LET x == writers[w]
           failed == IF x.tx THEN NoWrite ELSE [x EXCEPT !.pc = "evict", !.ok = FALSE]
       IN  \/ /\ row' = x.value /\ Writes(w, [x EXCEPT !.pc = "evict"])
              /\ UNCHANGED <<lost, dbFaults>>
           \/ DBFault /\ Writes(w, failed) /\ UNCHANGED <<row, lost>>
           \/ /\ DBFault /\ Writes(w, failed) /\ row' = x.value
              /\ lost' = IF x.tx THEN "unevicted" ELSE "unheard"
    /\ UNCHANGED <<cache, cacheGen, reads, events, writes>>

(* After the write, whatever it reported: Set, DeleteKey, InvalidateCache, *)
(* NotifyDeleted.                                                          *)
evict(w) ==
    /\ writers[w].pc = "evict"
    /\ evictLocked
    /\ LET x == writers[w]
       IN  Writes(w, IF ~x.ok THEN NoWrite
                     ELSE [x EXCEPT !.pc = IF x.tx /\ x.value # Absent THEN "lookup" ELSE "notify"])
    /\ UNCHANGED <<row, reads, events, writes, dbFaults>>

(* InvalidateCache looks the value up, which may fill the cache again.     *)
lookup(w) ==
    /\ writers[w].pc = "lookup"
    /\ \/ beginRead(w) /\ UNCHANGED writers
       \/ /\ reads[w].pc = "done"
          /\ Reads(w, NoRead) /\ Writes(w, [writers[w] EXCEPT !.pc = "notify"])
    /\ UNCHANGED <<row, cache, cacheGen, events, lost, writes, dbFaults>>

(* Mutant: the change is announced to nobody. *)
NotifiesNobody(w) ==
    /\ writers[w].pc = "notify"
    /\ Writes(w, NoWrite)
    /\ UNCHANGED <<row, cache, cacheGen, reads, events, lost, writes, dbFaults>>

(* A full channel is skipped.  An event makes up for one that never came,  *)
(* unless the failed write is still to evict what a reader would be told.  *)
notifyChange(w) ==
    /\ writers[w].pc = "notify"
    /\ events' = IF events < Capacity THEN events + 1 ELSE events
    /\ lost' = IF lost = "unheard" /\ \A v \in Writer : writers[v].pc = "evict" => writers[v].ok
               THEN "none" ELSE lost
    /\ Writes(w, NoWrite)
    /\ UNCHANGED <<row, cache, cacheGen, reads, writes, dbFaults>>

(* A change of any other key wakes the loop as well.                       *)
OtherKeyChanges ==
    /\ Write /\ events < Capacity /\ events' = events + 1
    /\ UNCHANGED <<row, cache, cacheGen, reads, writers, lost, dbFaults>>

ReadStep(c)  == queryRow(c) \/ install(c)
WriteStep(w) == commitRow(w) \/ evict(w) \/ lookup(w) \/ notifyChange(w) \/ ReadStep(w)

StoreNext ==
    \/ \E w \in Writer : beginSet(w) \/ beginTx(w) \/ WriteStep(w)
    \/ \E c \in Reader : ReadStep(c)
    \/ ExpireEntry \/ OtherKeyChanges

-----------------------------------------------------------------------------
(* Properties.                                                             *)

(* Once every write that took effect has done its last eviction, what the  *)
(* cache holds is what the row holds: a read that overlapped a write never *)
(* pins the old value, or an old absence, for a TTL (settings.go:367).     *)
CacheFresh ==
    \/ cache \in {"none", row}
    \/ lost = "unevicted"
    \/ \E w \in Writer : writers[w].pc = "evict"

=============================================================================
