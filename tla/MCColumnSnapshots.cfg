SPECIFICATION MCSpec
CONSTANTS
  Names = {"a"}
  TypeStrings = {"int"}
  ColumnTypes = {"int"}
  Inputs = {"10", "20", "30", "40", "x"}
  TypeCast <- MCTypeCast
  ColumnName = "a"
  ColumnType = "int"
  UInt8Max = 3
  UInt16Max = 5
  UInt32Max = 11
  FreeRows = 6
INVARIANTS
  TypeOK
  RoundTrip
  InvalidIdIsFree
  ScanByBounds
