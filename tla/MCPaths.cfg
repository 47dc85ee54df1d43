SPECIFICATION Spec
CONSTANTS
  Names = {a, Git, Modules}
  Empty = Empty
  Git = Git
  Modules = Modules
  MaxDepth = 3
INVARIANTS TypeOK PrintedPathResolves PrintedPathMinimal FollowsOutermost
CHECK_DEADLOCK FALSE
