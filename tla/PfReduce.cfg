\* Shards, replays and reducers of one power-flow round.
CONSTANTS
  S = 2
  Replays <- TwoReplays
  MaxReduces = 2
  Verdicts <- MayEnd
  Requests <- MayAsk
SPECIFICATION FairSpec
INVARIANT ReplaysSound
PROPERTIES LedgersFit RoundGetsReduced
\* A round that is reduced and replayed to the bound stops.
CHECK_DEADLOCK FALSE
