\* Two workers, two tasks, two kills and one unreadable report.
CONSTANTS N = 2
          Workers = {w1, w2}
          MaxAttempts = 2
          Torn = {"owner", "done"}
          MaxKills = 2
          MaxRaises = 1
SPECIFICATION FairSpec
INVARIANTS CampaignSound AttemptsNearlyBounded
PROPERTY WholeCampaignEnds
CHECK_DEADLOCK FALSE
