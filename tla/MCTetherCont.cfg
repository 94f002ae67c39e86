\* A sentry that was stopped does not blame the child.
CONSTANTS
  Scenario <- SentryStops
  Period = 2
  SignalPeriod = 2
  DrainTimeout = 2
  PingPeriod = 1
  Off = 3
  PipeSize = 1
  BufSize = 1
SPECIFICATION Spec
CHECK_DEADLOCK FALSE
PROPERTIES
  OutageIsNoSilence
