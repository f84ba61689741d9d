\* Sessions of a power-flow shard, killed or warned at any moment.
CONSTANTS
  N = 3
  FlushEvery = 2
  MaxLaunches = 3
  Tears <- SomeTears
  Executions <- Mixed
  MaxNum = 1
  MaxDen = 3
SPECIFICATION FairShard
INVARIANT RecordsSound
PROPERTY ShardCompletes
\* A shard that is marked done, or out of launches, stops.
CHECK_DEADLOCK FALSE
