SPECIFICATION FairSpec
CONSTANTS
  top = top
  sub = sub
  out = out
  outer = outer
  inner = inner
  t1 = t1
  t2 = t2
  i1 = i1
  i2 = i2
  Terminals = {t1, t2}
  Elsewhere = {t2}
  Inodes = {i1}
  Dirs = {top, out}
  None = None
  Empty = Empty
  Absent = Absent
  InRoot = {top}
  RepoOf <- Flat
  Start = top
  MayRefuse = TRUE
PROPERTIES ImplementsLiveView FollowsTerminal FollowsDetach InterruptStops
CHECK_DEADLOCK FALSE
