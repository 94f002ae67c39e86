\* A process group leader that is told to watch its parent.
CONSTANTS
  Mode <- LeaderOrphaned
  MaxFaults = 1
SPECIFICATION FairSpec
CHECK_DEADLOCK FALSE
PROPERTIES
  OrphanEnds
