SPECIFICATION DrivenSpec
CONSTANTS
  MaxReconnects = 2
  QueueCapacity = 2
  MaxClients = 2
  MaxConnections = 5
CHECK_DEADLOCK FALSE
INVARIANTS
  ConnectionsAreBounded
PROPERTIES
  StaleIsRefused
  RecoversOrFails
