SPECIFICATION FairSpec
CONSTANTS
  Clients <- MCClients
CHECK_DEADLOCK FALSE
INVARIANTS
  TypeOK
  NoSessionLost
PROPERTIES
  ClosedIsRemoved
  ClientsAreTaken
  EndsWhenTold
