SPECIFICATION FairSpec
CONSTANTS
  Clients <- MCClients
CHECK_DEADLOCK FALSE
PROPERTIES
  ServerExits
