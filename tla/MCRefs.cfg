SPECIFICATION Spec
CONSTANTS
  main = main
  dev = dev
  fix = fix
  Branches = {main, dev, fix}
  Max = 2
  MaxReflog = 6
SYMMETRY Symmetry
INVARIANTS TypeOK LatestFirst CommandChecksOut
CHECK_DEADLOCK FALSE
