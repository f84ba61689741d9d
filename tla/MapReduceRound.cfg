\* A small round: two workers, four candidates, two or three shards.
CONSTANTS M = 4
          Disabled = {1}
          MaxNum = 1
          MaxDen = 2
          Counts = {2, 3}
          Workers = {w1, w2}
          PartialSharding = TRUE
          MaxFaults = 3
SPECIFICATION FairSpec
  
PROPERTIES RoundCompletes ImplementsPool
CHECK_DEADLOCK FALSE
