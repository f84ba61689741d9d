\* Two archives, two versions, two kills or failures, one replacement.
SPECIFICATION FairSpec
CONSTANTS
  Order <- OrderDef
  Kind <- KindDef
  Expected <- ExpectedDef
  Chunks = 2
  Versions = {1, 2}
  MaxFaults = 2
  MaxNews = 1
\* A torn manifest stops every later run.
CHECK_DEADLOCK FALSE
INVARIANT ArchivesSound
PROPERTY ResumeCompletes
