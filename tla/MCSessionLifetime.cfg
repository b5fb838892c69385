SPECIFICATION Spec
CONSTANTS
  MaxPackets <- MCMaxPackets
  SpawnModes <- MCInlineOnly
INVARIANTS
  NoUseAfterDestruction
