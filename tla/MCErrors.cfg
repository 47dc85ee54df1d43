SPECIFICATION Spec
CONSTANTS
  top = top
  sub = sub
  out = out
  outer = outer
  inner = inner
  t1 = t1
  t2 = t2
  i1 = i1
  i2 = i2
  Terminals = {t1}
  Elsewhere = {}
  Inodes = {i1}
  Dirs = {top}
  None = None
  Empty = Empty
  Absent = Absent
  InRoot = {top}
  RepoOf <- Flat
  Start = top
  MayRefuse = FALSE
INVARIANTS ErrorReported
CHECK_DEADLOCK FALSE
