SPECIFICATION FairSpec
CONSTANTS
  c1 = c1
  c2 = c2
  Conn <- MCConn
  MaxQueries = 3
  SizeT = 8
INVARIANTS
  TypeOK
  NoCallbackLost
  OvertakenIsReady
PROPERTIES
  ImplementsService
CHECK_DEADLOCK FALSE
