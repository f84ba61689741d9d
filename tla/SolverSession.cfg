\* A session of three calls with one fallback solver, or three script calls.
CONSTANTS
  Solvers = 2
  MaxCalls = 3
  MaxNoise = 2
  MaxDeaths = 2
  Answers = {"LOCALLY_SOLVED", "LOCALLY_INFEASIBLE", "INVALID_MODEL", "SERVER_EXCEPTION"}
SPECIFICATION FairSpec
INVARIANT SessionSound
PROPERTIES DeliveredMeansReturned CallsReturn
\* After the last call nothing is left to do.
CHECK_DEADLOCK FALSE
