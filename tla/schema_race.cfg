SPECIFICATION SchemaSpec
CONSTANTS
  Services = {"old", "new"}
  Tables = {"t"}
  Plans <- MCPlans
  FirstSchemas <- MCFirstSchemas
  MaxBoots = 1
  MaxFaults = 0
CHECK_DEADLOCK FALSE
INVARIANTS
  SyncedMeansComplete
