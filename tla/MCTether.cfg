\* The child or the sentry stops and runs again, or the umbilical is lost; the run ends
\* when the monitor is done.
CONSTANTS
  Scenario <- Stoppages
  Period = 2
  SignalPeriod = 2
  DrainTimeout = 2
  PingPeriod = 1
  Off = 3
  PipeSize = 2
  BufSize = 2
SPECIFICATION Spec
CHECK_DEADLOCK FALSE
INVARIANTS
  TypeOK
PROPERTIES
  ImplementsRelay
  AbortMeansSilence
  GraceIsGiven
