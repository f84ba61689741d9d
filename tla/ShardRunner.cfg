\* Any outcome, any tear: what survives every session.
CONSTANTS
  N = 4
  FlushEvery = 2
  MaxLaunches = 4
  Tears <- AnyTear
  Outcomes <- MixedOutcomes
  Disabled = {2}
  ContinueOnError = TRUE
  MaxNum = 1
  MaxDen = 2
SPECIFICATION FairSpec
INVARIANT SamplesSound
PROPERTIES LossBounded ShardCompletes
\* A shard that is marked done, or out of launches, stops.
CHECK_DEADLOCK FALSE
