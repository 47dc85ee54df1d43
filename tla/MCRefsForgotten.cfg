SPECIFICATION Spec
CONSTANTS
  main = main
  dev = dev
  fix = fix
  Branches = {main, dev, fix}
  Max = 4
  MaxReflog = 4
SYMMETRY Symmetry
INVARIANTS BranchesRemembered
CHECK_DEADLOCK FALSE
