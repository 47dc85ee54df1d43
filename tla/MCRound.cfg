SPECIFICATION MCSpec
CONSTANTS
  f1 = f1
  f2 = f2
  Files = {f1, f2}
  Contents = {1, 2}
  Absent = Absent
  RetryCount = 3
  Maxes <- Heights
  MaxEdits = 2
  MaxFaults = 1
INVARIANTS TypeOK SteadyFileListed NewestCommits CommitLimitKept
PROPERTIES TransientSurvived EventuallyListed
CHECK_DEADLOCK FALSE
