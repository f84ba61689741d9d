\* Small inputs, all of them.
SPECIFICATION Spec
CONSTANTS
  MaxCands = 4
  MaxScreened = 5
  MaxPool = 4
  MaxDealt = 7
  MaxTotal = 5
  MaxLines = 4
  MaxRecords = 3
  Buses = {1, 2, 3, 4}
  MaxBranches = 4
  MaxVariants = 4
  MaxAttempts = 4
  MaxSteps = 3
  MaxPoints = 7
  MaxRegimes = 3
  SmallCase = 2
  MediumCase = 3
  MaxRows = 7
  MaxWorkers = 4
  MaxStored = 2
  Tolerance = 20
  U = 2520
  MaxQuota = 5
  MaxFraction = 2
  MaxExisting = 2
  MaxOffered = 5
  MaxRanked = 7
  MaxCount = 4
  TimeLimits = {400, 1800}
INVARIANTS
  SelectionRight
  NetworksStayWhole
  ScenariosRight
  PfCampaignRight
  LadderHonest
  SampleToolsRight
