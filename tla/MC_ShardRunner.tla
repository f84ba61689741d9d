--------------------------- MODULE MC_ShardRunner ---------------------------
(* Outcome table of a small shard for the run of ShardRunner. *)
EXTENDS ShardRunner

\* Each candidate has its own way to go wrong.
MixedOutcomes == [c \in Cands |->
  {"ok", CASE c = 1 -> "retry" [] c = 2 -> "ok" [] c = 3 -> "early" [] OTHER -> "late"}]
AnyTear == {Whole, Fragment, Bare}
=============================================================================
