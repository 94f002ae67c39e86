CONSTANTS
  c1 = c1
  c2 = c2
  Client = {c1, c2}
  Mode <- Modes
  Fault <- AllFaults
  MaxFaults = 1
SPECIFICATION FairSpec
CHECK_DEADLOCK FALSE
INVARIANTS
  TypeOK
PROPERTIES
  SuccessMeansReference
  ImplementsTenure
  AnswersCome
  KeeperEnds
