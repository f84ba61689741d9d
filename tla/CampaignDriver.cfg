\* Two rounds and two launches; one fault of a power-flow chain, two of others.
SPECIFICATION FairDriver
CONSTANTS
  R = 2
  S = 2
  Budgets <- MC_Budgets
  Modes <- MC_Modes
  MaxCycles = 3
  MaxLaunches = 2
  MaxFaults <- MC_MaxFaults
  Doubling = FALSE
INVARIANT RoundsSound
PROPERTIES SelectionKept ChainRunsDown
CHECK_DEADLOCK FALSE
