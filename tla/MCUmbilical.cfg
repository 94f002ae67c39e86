\* Every fault.
CONSTANTS
  Client = {}
  Fault <- AllFaults
  HalfPeriod = 1
SPECIFICATION Spec
INVARIANTS
  TypeOK
  EchoIsAwaited
  CloseIsLast
  TimeoutsHaveCauses
PROPERTIES
  OnlyAlarmsKill
