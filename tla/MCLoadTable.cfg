SPECIFICATION MCSpec
CONSTANTS
  Names = {"a", "b", ""}
  TypeStrings = {"int", "string", "weird", "a", "b", ""}
  ColumnTypes = {"int", "string"}
  Inputs = {"1", "x", ""}
  TypeCast <- MCTypeCast
  Rows <- MCRows
  UInt8Max = 1
  UInt16Max = 3
  UInt32Max = 7
  ChunkSizes = {0, 1, 2}
  Empty = ""
  Files <- MCFiles
  Sizes = {1, 2, 8}
  MaxChunks = 3
  MaxRows = 4
INVARIANTS
  LoadedIsTheFile
  PrintShowsEveryRow
PROPERTIES
  WellFormedFilesAreLoaded
  ImplementsRowStore
\* load_table ends, and the program at the first exception
CHECK_DEADLOCK FALSE
