SPECIFICATION MCSpec
CONSTANTS
  TableNames = {n1, n2}
  Tables = {t1, t2}
  Nullptr = nullptr
  MaxOperators = 3
  Maxima = {1, 3, 7}
  ValueIDMax = 7
  MaxSize = 3
  Sites = {int, float, string}
  MaxDepth = 3
INVARIANTS
  PhasesPreventCrashes
  OutputIsTheBottomTable
  SmallIdsComeBack
PROPERTIES
  NothingPrintedWhileDisabled
\* nothing is said of a program that has dereferenced a null pointer
CHECK_DEADLOCK FALSE
