SPECIFICATION Spec
CONSTANTS
  h1 = h1
  h2 = h2
  o1 = o1
  o2 = o2
  o3 = o3
  Allocs = {a1}
  Hosts = {h1}
  Ops = {o1, o2}
  Namespaces = {n1}
  MaxBoot = 1
  MaxFaults = 1
  Volumes = 1
  Receipts = {r1}
  Receipt = r1
  OpHost <- MCOpHost
  Resources = {"bytes"}
  Maximum <- MCMaximum
  Demand <- MCDemand
  NoAuthority = NoAuthority
  NoReceipt = NoReceipt
  NoBinding = NoBinding
  Free = Free
  Guardian = Guardian
  NoAlloc = NoAlloc
  NoNamespace = NoNamespace
  NoHelper = NoHelper
INVARIANTS
  PartialImagesAreRebuilt
