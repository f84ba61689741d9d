\* Two jobs; attempts 1 and 2 may be there from earlier runs.
SPECIFICATION FairSpec
CONSTANTS
  Jobs = {j1, j2}
  Files = {"result", "log"}
  OldIndices = {1, 2}
  MaxTries = 4
INVARIANT AttemptsSound
PROPERTIES FinalizedImmutable EveryJobPublishes ImplementsLedger
CHECK_DEADLOCK FALSE
