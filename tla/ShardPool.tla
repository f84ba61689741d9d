----------------------------- MODULE ShardPool -----------------------------
(***************************************************************************)
(* What the lock and the index file of a round promise the workers: a job  *)
(* starts with the positions 1 .. n of its queue; a worker takes the first *)
(* one left in a single step; no position is handed out twice.             *)
(***************************************************************************)
EXTENDS Naturals

CONSTANT Workers

VARIABLES taken,  \* positions handed out so far: 1 .. taken
          size,   \* positions of the queue
          hand    \* hand[w]: the position worker w works on, or 0

Free == [w \in Workers |-> 0]

Init == taken = 0 /\ size = 0 /\ hand = Free

\* A job rebuilds the queue and starts its workers.
Start == taken' = 0 /\ size' \in Nat /\ hand' = Free

Take(w) == /\ hand[w] = 0 /\ taken < size
           /\ taken' = taken + 1
           /\ hand' = [hand EXCEPT ![w] = taken + 1]
           /\ UNCHANGED size

\* The worker is through with its shard, skipped it, failed or died.
Return(w) == /\ hand[w] # 0
             /\ hand' = [hand EXCEPT ![w] = 0]
             /\ UNCHANGED <<taken, size>>

\* The job ends or is killed.
Stop == hand' = Free /\ UNCHANGED <<taken, size>>

Next == \/ Start
        \/ \E w \in Workers : Take(w) \/ Return(w)
        \/ Stop

Spec == Init /\ [][Next]_<<taken, size, hand>>
=============================================================================
