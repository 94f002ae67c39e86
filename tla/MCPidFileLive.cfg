\* One client holds up the shutdown of a sentry while another sentry waits.
\* No symmetry: TLC cannot combine it with liveness.
CONSTANTS
  s1 = s1
  s2 = s2
  c1 = c1
  i1 = i1
  i2 = i2
  i3 = i3
  NoInode = NoInode
  Empty = Empty
  Stale = Stale
  Sentry = {s1, s2}
  Client = {c1}
  Relaxed = {}
  Inode = {i1, i2, i3}
  InitialContent = {NoInode}
SPECIFICATION FairSpec
PROPERTIES
  ShutdownCompletes
  ClientsFinish
  UncontendedCreateEnds
