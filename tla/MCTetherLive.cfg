\* The parent may die; neither the reader of stdout nor an heir has to do anything.
CONSTANTS
  Scenario <- ParentDeath
  Period = 1
  SignalPeriod = 1
  DrainTimeout = 1
  PingPeriod = 1
  Off = 3
  PipeSize = 1
  BufSize = 1
SPECIFICATION FairSpec
CHECK_DEADLOCK FALSE
PROPERTIES
  ParentLossKillsChild
  MonitorEnds
  SilenceEnds
