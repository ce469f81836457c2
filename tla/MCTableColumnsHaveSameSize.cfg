SPECIFICATION MCSpec
CONSTANTS
  Names = {a, b}
  TypeStrings = {"int", "string", "weird"}
  ColumnTypes = {"int", "string"}
  Inputs = {"1", "2", "x"}
  TypeCast <- MCTypeCast
  Rows <- MCRows
  UInt8Max = 1
  UInt16Max = 3
  UInt32Max = 7
  ChunkSizes = {0, 1, 2}
  MaxChunks = 3
  MaxWidth = 3
  MaxColumns = 5
  MaxColumnRows = 2
SYMMETRY NameSymmetry
INVARIANT
  ColumnsHaveSameSize
