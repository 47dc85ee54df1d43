SPECIFICATION FairSpec
CONSTANTS
  MaxNodes = 2
  MaxNode = 2
  MaxArea = 3
  AllowOversize = TRUE

PROPERTIES Terminates
CHECK_DEADLOCK FALSE
