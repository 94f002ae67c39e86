\* Two things go wrong, of any kind and at any time.
CONSTANTS
  Mode <- AnyMode
  MaxFaults = 2
SPECIFICATION FairSpec
CHECK_DEADLOCK FALSE
INVARIANTS
  TypeOK
  SignalsFindTheirProcess
  GroupsArePinned
  DeathIsNotMissed
  ExitCodeIsRelayed
PROPERTIES
  ImplementsCustody
  SentryLossEndsFamily
  LossEndsProgram
  FamilyEnds
