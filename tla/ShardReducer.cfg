\* Reduce runs that crash, choke, are forced or list fewer shards.
CONSTANTS
  N = 3
  Lengths = {2, 3}
  OkReports = {"run1", "run2"}
  CheckpointInterval = 2
  ReRuns = FALSE
  MaxCrashes = 2
SPECIFICATION LiveSpec
INVARIANT ReduceSound
PROPERTIES MarkerFollowsReports RoundIsReduced
