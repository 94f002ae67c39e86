\* Both processes block and recover, the umbilical may be killed, and a client connects.
CONSTANTS
  c1 = c1
  Client = {c1}
  Fault <- Failures
  HalfPeriod = 1
SPECIFICATION FairSpec
PROPERTIES
  UmbilicalLossKillsChild
  SentryLossKillsChild
  StopEnds
