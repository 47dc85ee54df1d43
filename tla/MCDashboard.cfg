SPECIFICATION Spec
CONSTANTS
  top = top
  sub = sub
  out = out
  outer = outer
  inner = inner
  t1 = t1
  t2 = t2
  i1 = i1
  i2 = i2
  Terminals = {t1, t2}
  Elsewhere = {}
  Inodes = {i1, i2}
  Dirs = {top, sub, out}
  None = None
  Empty = Empty
  Absent = Absent
  InRoot = {top, sub}
  RepoOf <- Nested
  Start = top
  MayRefuse = TRUE
SYMMETRY Symmetry
CONSTRAINTS InAndOut Uninterrupted
INVARIANTS TypeOK NoLostUpdate ScreenConsistent NoUseAfterFree
PROPERTY ShowsWhatWasSeen
CHECK_DEADLOCK FALSE
