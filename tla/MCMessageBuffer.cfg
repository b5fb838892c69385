SPECIFICATION Spec
CONSTANTS
  Byte <- MCByte
  Zero = 0
  InitialSize = 2
  Pieces <- MCPieces
  MaxReserve = 2
  MaxSize = 6
INVARIANTS
  TypeOK
PROPERTIES
  ImplementsFifo
