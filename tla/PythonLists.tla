----------------------------- MODULE PythonLists -----------------------------
(***************************************************************************)
(* What the code relies on of Python: max, sum, round and sorted.          *)
(***************************************************************************)
EXTENDS Integers, Sequences, FiniteSetsExt, SequencesExt, TLC

Larger(x, y) == IF x > y THEN x ELSE y
Sum(f) == MapThenSumSet(LAMBDA k : f[k], DOMAIN f)

\* Python's round() of n / d: halves go to the even neighbour.
Rounded(n, d) ==
  LET q == n \div d
      twice == 2 * (n % d)
  IN IF twice < d \/ (twice = d /\ q % 2 = 0) THEN q ELSE q + 1

\* sorted by the score of each position, reverse = True: stable.
Descending(s, score) ==
  LET before(i, j) == score[i] > score[j] \/ (score[i] = score[j] /\ i < j)
      order == SortSeq([i \in DOMAIN s |-> i], before)
  IN [i \in DOMAIN s |-> s[order[i]]]
=============================================================================
