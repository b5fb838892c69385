SPECIFICATION FairSpec
CONSTANTS
  MaxPackets <- MCMaxPackets
  SpawnModes <- MCSpawnModes
INVARIANTS
  TypeOK
  NothingLostWhileOpen
  ShutdownAtMostOnce
PROPERTIES
  NoWriteAfterClose
  OnlyNetworkCloses
  ImplementsPipeline
  LeavingCleansUp
  ReadsAreHandled
  WakeUpDrains
