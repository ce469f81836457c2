SPECIFICATION MCSpec
CONSTANTS
  SourceLines <- MCLines
  MaxLines = 8
  Budget = 9
INVARIANTS
  BracesAreBlocks
  CheckedWhereItStarts
PROPERTY
  ImplementsTakenBranches
\* a file ends
CHECK_DEADLOCK FALSE
