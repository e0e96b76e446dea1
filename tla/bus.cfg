SPECIFICATION Spec
CONSTANTS
  Length <- MCLength
  Fits <- MCFits
  MaxTopic = 5
  MaxTenant = 5
  MaxKey = 5
  MaxPayload = 5
  MaxHeaders = 9
  MaxHeaderName = 5
  MaxHeaderValue = 5
  MaxIdentifier = 5
  PublicKeyLength = 1
  NULL = NULL
  Garbled = Garbled
  Touched = {"tenant", "expires-at", "signature"}
  Huge = Huge
  Outbox <- MCOutbox
  Batch <- MCBatch
  Topic = "topic"
  PartitionOf <- MCPartitionOf
  QueueCapacity = 1
  Overrides <- MCOverrides
  Producer = "producer"
  SigningKeys <- MCSigningKeys
  Validity = 1
  MaxSkew = 0
  Normal <- MCNormal
  Prefetch = 2
  MaxTime = 1
  MaxFaults = 1
  MaxAttempts = 3
  MaxRelays = 1
CONSTRAINT Focus
INVARIANTS
  ReceiptsAreDurable
  FirstDeliveriesInOrder
  CommittedWerePassed
  JudgedAsSigned
CHECK_DEADLOCK FALSE
