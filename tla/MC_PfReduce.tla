---------------------------- MODULE MC_PfReduce ----------------------------
(* A round of two shards with two replay campaigns. *)
EXTENDS PfReduce
TwoReplays == {"replay1", "replay2"}
\* Shard 1 may have software errors, the others have none; a replay may be asked
\* for the shards with errors, if any, or for shard 2.
MayAsk == {{}, {2}}
MayEnd(id) == IF id = <<Source, 1>> THEN {"good", "errors"} ELSE {"good"}
=============================================================================
