SPECIFICATION Spec
CONSTANTS
  MaxNodes = 3
  MaxRequired = 2
  MaxBasis = 1
  MaxExpand = 2
  MaxArea = 7
  Word = 32
  MaxPadding = 1
  MaxLines = 3
  MaxLength = 2
INVARIANTS TypeOK PlacedInside NeedsMet AreaFilled AlikeTreatedAlike
INVARIANTS DrawnInside TextShown ChildrenMeasured
CHECK_DEADLOCK FALSE
