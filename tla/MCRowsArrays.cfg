SPECIFICATION Spec
CONSTANTS
  Widths <- MCWidths
  IntBits <- MCIntBits
  Columns <- MCColumns
  Text <- MCText
  Null = Null
  Rows <- MCRows
  MaxQueries <- MCMaxQueries
CHECK_DEADLOCK FALSE
INVARIANTS
  Sound
