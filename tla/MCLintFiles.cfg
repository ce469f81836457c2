SPECIFICATION Spec
CONSTANTS
  Categories <- MCCategories
  Prefixed <- MCPrefixed
  CategoryOf <- MCCategoryOf
  CfgFiles <- MCCfgFiles
  CommandLines <- MCCommandLines
  DefaultFilters <- MCDefaultFilters
  CSuppressed <- MCCSuppressed
  KernelSuppressed <- MCKernelSuppressed
  MaxFiles = 3
INVARIANTS
  TypeOK
  FiltersAreRestored
  NestedFiltersWin
  CountsAgree
PROPERTIES
  SuppressedByItsFile
  NolintIsHonoured
  EveryFileGetsItsTurn
\* the process exits
CHECK_DEADLOCK FALSE
