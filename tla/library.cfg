SPECIFICATION LibrarySpec
CONSTANTS
  Alphabet <- MCAlphabet
  Width <- MCWidth
  StringTokens <- MCStrings
  IntegerOf <- MCIntegerOf
  Rounded <- MCRounded
  MantissaBits = 5
  SafeDigits = 2
  MaxNodes = 5
  MaxDefaultBytes = 26
  MaxDocumentBytes = 600
  MaxStringToken = 25
  MaxNumberToken = 4
  MaxPower = 4
  u1 = u1
  w1 = w1
  r1 = r1
  MaxAmount = 15
  Systems = {"capture", "tcp", "modbus", "audit", "schema", "chunks", "managed", "number", "lexeme", "text", "encode", "decode", "settle", "layout"}
  Decoders <- MCDecoders
  FramesOf <- MCFramesOf
  Outgoing <- MCOutgoing
  MaxFrameBytes = 3
  ReadBytes = 2
  MaxSent = 2
  MaxOperations = 3
  MaxConnections = 2
  DeviceRequests <- MCDeviceRequests
  Framings = {"tcp", "rtu"}
  Units = {0, 1}
  LastUnit = 2
  Addresses = 4
  MaxRead <- MCMaxRead
  MaxWritten <- MCMaxWritten
  Padding = 2
  MaxCalls = 3
  MaxConnects = 2
  Services = {1, 2}
  Plans <- MCPlans
  Tables = {"t", "v"}
  FirstSchemas <- MCFirstSchemas
  MaxBoots = 2
  MaxFaults = 1
  Settings <- StorageSettings
  Writes <- PolicyWrites
  ForeignObjects <- MCForeignObjects
  DnsSuffix <- MCDnsSuffix
  ClientSuffix <- MCClientSuffix
  ReadLimits = {1, 2}
  KeyIdentity <- MCKeyIdentity
  MaxUses = 2
  MaxForeign = 1
  Clients = {u1, w1}
  Uploaders = {u1}
  Retirers = {w1}
  Readers = {r1}
  Versioned = FALSE
  MaxResends = 1
  ChunkBytes = 2
  PageEntries = 2
  Requests <- MCRequests
  Attributes <- MCAttributes
  ContextFields = {"tenant_id"}
  Payloads <- MCPayloads
  BlockedNames = {"password"}
  MaxText = 16
  MarkerBytes = 35
  ChannelSize = 2
  BatchSize = 2
  Senders = 1
  MaxSpans = 2
  MaxEvents = 3
CHECK_DEADLOCK FALSE
INVARIANTS
  CaptureIsExact
  JsonIsExact
  TablesAreLossless
  NumbersAreExact
  FramesStayWhole
  CallsAreTruthful
  AuditIsAccounted
  ReportedSchemaIsThere
  StreamsAreExact
  AttestedIsEncrypted
  AcceptedSettingsWork
