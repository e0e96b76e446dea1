SPECIFICATION LedgerSpec
CONSTANTS
  a1 = a1
  a2 = a2
  a3 = a3
  Allocs = {a1, a2, a3}
  Hosts = {h1, h2}
  MaxBoot = 1
  Namespaces = {n1}
  Receipts = {r1}
  Resources = {"bytes", "inodes"}
  Maximum <- MCMaximum
  Demand <- MCDemand
  NoAuthority = NoAuthority
  NoReceipt = NoReceipt
  NoBinding = NoBinding
INVARIANTS
  CapacityAccounted
  LaunchesAreGrounded
PROPERTIES
  EvidenceIsKept
