SPECIFICATION Spec
CONSTANTS
  MaxReconnects = 2
  QueueCapacity = 2
  MaxClients = 2
  MaxConnections = 5
CHECK_DEADLOCK FALSE
PROPERTIES
  AcksWhileConnected
