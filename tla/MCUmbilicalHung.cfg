\* The sentry blocks while a client holds a reference.
CONSTANTS
  c1 = c1
  Client = {c1}
  Fault <- SentrySticks
  HalfPeriod = 1
SPECIFICATION FairSpec
PROPERTIES
  HungSentryKillsChild
