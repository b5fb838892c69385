SPECIFICATION FairSpec
CONSTANTS
  MaxPackets <- MCMaxPackets
  SpawnModes <- MCInlineOnly
PROPERTIES
  EveryAnswerGoesOut
