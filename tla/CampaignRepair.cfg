\* The backfill, one repair campaign and the rebuild over three sources.
CONSTANTS
  N = 3
  Original <- Samples3
  FirstReport <- Reports3
  Dealt <- Dealt3
  Disabled = {7}
  K = 3
  TaskCounts = {1, 2}
  Verdicts <- May
  MaxKills = 1
SPECIFICATION FairRepair
INVARIANTS RowsSound ReportsSound
PROPERTIES RepairedOnce RepairEnds
\* A split that was cut to nothing ends the repair.
CHECK_DEADLOCK FALSE
