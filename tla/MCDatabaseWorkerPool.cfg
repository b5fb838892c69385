SPECIFICATION FairSpec
CONSTANTS
  NAsync <- MCNAsync
  NSync <- MCNSync
  Statements <- MCStatements
  AsyncOnly <- MCAsyncOnly
  Text <- MCText
  MaxLosses <- MCMaxLosses
CHECK_DEADLOCK FALSE
INVARIANTS
  TypeOK
  NeverHalfOpen
PROPERTIES
  StatementOutlivesCall
  ImplementsAtMostOnce
