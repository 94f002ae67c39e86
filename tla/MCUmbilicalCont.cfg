\* Signals only.
CONSTANTS
  Client = {}
  Fault <- Signals
  HalfPeriod = 1
SPECIFICATION Spec
PROPERTIES
  TimeoutMeansSilence
