\* Three sentries race for the name, or two compete for it while a client reads it.
CONSTANTS
  s1 = s1
  s2 = s2
  s3 = s3
  c1 = c1
  i1 = i1
  i2 = i2
  i3 = i3
  NoInode = NoInode
  Empty = Empty
  Stale = Stale
  Sentry = {s1, s2, s3}
  Client = {c1}
  Relaxed = {c1}
  Inode = {i1, i2, i3}
  InitialContent = {NoInode, Empty, Stale}
SPECIFICATION Spec
SYMMETRY Symmetry
CONSTRAINT Few
INVARIANTS
  TypeOK
  SingleInstance
  OwnerIsNamed
  RunningIsNamed
  NeverAborts
  ReadLockPinsChild
PROPERTIES
  UnlinksUnderLock
  ImplementsServiceName
