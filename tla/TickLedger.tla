----------------------------- MODULE TickLedger -----------------------------
(***************************************************************************)
(* What the bar persister promises (worker/persister.py, worker/db.py:     *)
(* "at-least-once delivery into an exactly-once effect"): every tick of    *)
(* the write-ahead log is counted in its bar once, and only a tick that has*)
(* been counted is settled, that is, never delivered again.                *)
(***************************************************************************)
EXTENDS Integers

CONSTANT Ticks

VARIABLES counted,   \* how many times each tick is in its bar
          settled    \* ticks no consumer will see again

ledger == <<counted, settled>>

Init ==
    /\ counted = [t \in Ticks |-> 0]
    /\ settled = {}

(* A committed batch counts some ticks that were not counted before.       *)
Count(batch) ==
    /\ \A t \in batch : counted[t] = 0
    /\ counted' = [t \in Ticks |-> IF t \in batch THEN 1 ELSE counted[t]]
    /\ UNCHANGED settled

(* Counted ticks are acknowledged.                                         *)
Settle(batch) ==
    /\ \A t \in batch : counted[t] = 1
    /\ settled' = settled \cup batch
    /\ UNCHANGED counted

Next == \E batch \in SUBSET Ticks : Count(batch) \/ Settle(batch)

Spec == Init /\ [][Next]_ledger

============================================================================
