--------------------------- MODULE AttemptLedger ---------------------------
(***************************************************************************)
(* What the attempt allocator of storage/layout.py promises, without any   *)
(* directory: a job is granted a numbered attempt slot nobody was granted  *)
(* before, and a granted slot is committed at most once, by its job.       *)
(* AttemptAllocation is shown to implement it.                             *)
(***************************************************************************)
EXTENDS Naturals

CONSTANT Jobs       \* solve executions (one _write_attempt call each)

VARIABLES slot,     \* slot[j]: attempt number granted to job j, 0 if none
          published \* numbers whose finalized directory exists

ledger == <<slot, published>>

Init == /\ slot = [j \in Jobs |-> 0]
        /\ published \in SUBSET (Nat \ {0})

\* A job is granted a number that is neither published nor granted.
Grant(j) == /\ slot[j] = 0
            /\ slot'[j] \in Nat \ (published \cup {0})
            /\ \A k \in Jobs : slot[k] # slot'[j]
            /\ slot' = [slot EXCEPT ![j] = slot'[j]]
            /\ UNCHANGED published

\* A job publishes the number it was granted.
Publish(j) == /\ slot[j] # 0
              /\ slot[j] \notin published
              /\ published' = published \cup {slot[j]}
              /\ UNCHANGED slot

Next == \E j \in Jobs : Grant(j) \/ Publish(j)

Spec == Init /\ [][Next]_ledger
=============================================================================
