SPECIFICATION Spec
CONSTANTS
  NAsync <- MCNAsync
  NSync <- MCNSync
  Statements <- MCStatements
  AsyncOnly <- MCAsyncOnly
  Text <- MCText
  MaxLosses <- MCMaxLosses
CHECK_DEADLOCK FALSE
INVARIANTS
  StatementsAreCurrent
