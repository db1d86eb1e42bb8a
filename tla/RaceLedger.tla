----------------------------- MODULE RaceLedger -----------------------------
(***************************************************************************)
(* What a hedged request promises its client, its log and its bill.        *)
(*                                                                         *)
(* Candidates are launched in the order they are preferred, and none after *)
(* the race is decided.  The client is answered once: by the one winner,   *)
(* or by a failure.  By then every launch has its one record, the winner's *)
(* opening with the answer, and whatever prompt is owed for a launch that  *)
(* did not serve has been charged, once; afterwards the books are closed.  *)
(***************************************************************************)
EXTENDS Integers

CONSTANT NumCandidates

VARIABLES
    stage,     \* the race is open, decided, or the client answered
    launched,  \* how many candidates were launched
    winner,    \* the candidate to be served, 0 while there is none
    records,   \* per candidate, its attempt records
    charges    \* per candidate, the prompts charged to the request

ledger == <<stage, launched, winner, records, charges>>

Candidates == 1..NumCandidates
Launched   == 1..launched

(* One more for each of the candidates in I, none of which had any.        *)
Once(books, I) ==
    [i \in Candidates |-> IF i \in I THEN 1 ELSE books[i]]
Blank(books, I) == \A i \in I : books[i] = 0

Recorded == \A i \in Launched \ {winner} : records[i] = 1

LedgerInit ==
    /\ stage = "open" /\ launched = 1 /\ winner = 0
    /\ records = [i \in Candidates |-> 0]
    /\ charges = [i \in Candidates |-> 0]

Launch ==
    /\ stage = "open" /\ launched < NumCandidates
    /\ launched' = launched + 1
    /\ UNCHANGED <<stage, winner, records, charges>>

Win(i) ==
    /\ stage = "open" /\ i \in Launched /\ records[i] = 0 /\ charges[i] = 0
    /\ stage' = "decided" /\ winner' = i
    /\ UNCHANGED <<launched, records, charges>>

(* A lost launch makes way for the next; the last one ends the race.       *)
Lose(i) ==
    /\ stage = "open" /\ i \in Launched
    /\ Blank(records, {i}) /\ records' = Once(records, {i})
    /\ \/ UNCHANGED charges
       \/ Blank(charges, {i}) /\ charges' = Once(charges, {i})
    /\ \/ /\ launched < NumCandidates /\ launched' = launched + 1 /\ UNCHANGED stage
       \/ /\ launched = NumCandidates /\ UNCHANGED launched
          /\ stage' # "open" => Recorded'
          /\ stage' \in {"open", "decided", "answered"}
    /\ UNCHANGED winner

Abandon ==
    /\ stage = "open" /\ stage' = "decided"
    /\ UNCHANGED <<launched, winner, records, charges>>

Record(I) ==
    /\ stage = "decided" /\ I \subseteq Launched \ {winner}
    /\ Blank(records, I) /\ records' = Once(records, I)
    /\ UNCHANGED <<stage, launched, winner, charges>>

(* Charging is the last thing a race without a winner does.                *)
Charge(I) ==
    /\ stage = "decided" /\ Recorded
    /\ I \subseteq Launched \ {winner}
    /\ Blank(charges, I) /\ charges' = Once(charges, I)
    /\ stage' = IF winner = 0 THEN "answered" ELSE "decided"
    /\ UNCHANGED <<launched, winner, records>>

Serve ==
    /\ stage = "decided" /\ winner # 0 /\ Recorded
    /\ Blank(records, {winner}) /\ records' = Once(records, {winner})
    /\ stage' = "answered"
    /\ UNCHANGED <<launched, winner, charges>>

(* A race that every candidate was too busy for ends with the wait.        *)
Refuse ==
    /\ stage = "decided" /\ winner = 0 /\ Recorded
    /\ stage' = "answered"
    /\ UNCHANGED <<launched, winner, records, charges>>

LedgerNext ==
    \/ Launch \/ Abandon \/ Serve \/ Refuse
    \/ \E i \in Candidates : Win(i) \/ Lose(i)
    \/ \E I \in SUBSET Candidates : Record(I) \/ Charge(I)

LedgerSpec == LedgerInit /\ [][LedgerNext]_ledger
=============================================================================
