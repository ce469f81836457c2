SPECIFICATION TextSpec
CONSTANTS
  Files <- MCFiles
  TextLines = 3
  BracketLines = 4
  BracketChars = 4
INVARIANT
  OperatorFunctionsAreIgnored
\* the text is cleansed once
CHECK_DEADLOCK FALSE
