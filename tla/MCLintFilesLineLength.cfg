SPECIFICATION Spec
CONSTANTS
  Categories <- MCCategories
  Prefixed <- MCPrefixed
  CategoryOf <- MCCategoryOf
  CfgFiles <- MCCfgFiles
  CommandLines <- MCCommandLines
  DefaultFilters <- MCDefaultFilters
  CSuppressed <- MCCSuppressed
  KernelSuppressed <- MCKernelSuppressed
  MaxFiles = 3
INVARIANT
  NestedLineLengthWins
\* the process exits
CHECK_DEADLOCK FALSE
