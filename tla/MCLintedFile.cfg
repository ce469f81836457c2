SPECIFICATION MCSpec
CONSTANTS
  Names <- MCNames
  ModuleHeaders <- MCModuleHeaders
  OwnNames = {"table.h"}
  NormalTrigger = 2
  TestTrigger = 3
  Lines <- MCLines
  StdNames = {"vector", "map"}
  Verbose = 2
  MaxLines = 30
  Budget = 13
INVARIANTS
  UnconditionalIncludesCount
  NothingAskedWithoutHeader
  LongFunctionsAreShown
PROPERTIES
  DuplicatesAreFound
  OrderErrorsAreInversions
  AlphaErrorsAreInversions
\* a file ends
CHECK_DEADLOCK FALSE
