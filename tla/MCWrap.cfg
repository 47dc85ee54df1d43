SPECIFICATION FairSpec
CONSTANTS
  MaxNodes = 4
  MaxNode = 2
  MaxArea = 3
  AllowOversize = FALSE
INVARIANTS TypeOK LinesInside LinesTile NothingLeftOut AskedSuffices
PROPERTIES Terminates
CHECK_DEADLOCK FALSE
