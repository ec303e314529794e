CONSTANTS
  ann = ann
  bob = bob
  s1 = s1
  s2 = s2
  s3 = s3
  s4 = s4
  theLock = theLock
  Clients = {ann, bob}
  Nobody = Nobody
  Outsider = Outsider
  Batch <- Batches
  Golden <- Backup
  Before <- Deployed
  RollbackId = 2
  HistMax = 3
  LockOf <- SharedLock
  Locks = {theLock}
  Settings <- CliEverySetting
  MaxOutside = 1
  eve = eve
  fay = fay
  n1 = n1
  n2 = n2
  n3 = n3
  n4 = n4
  NcCallers = {eve, fay}
  Payloads <- NcBatches
  SectionOf <- NcSections
  SectionOrder <- NcOrder
  Factory <- NcFactory
  Archive <- NcArchive
  NcSettings <- NcEverySetting
  kim = kim
  lou = lou
  mia = mia
  IxCalls = {kim, lou, mia}
  IxSettings <- IxEverySetting
  IxNodes <- IxNodeNames
  IxKind <- IxKinds
  IxAbove <- IxTree
  IxLoaded <- IxLoadedNodes
  IxLines = {1, 2, 3}
  MaxIxFaults = 2
SPECIFICATION CandidatesSpec
INVARIANTS
  TypesOK
  CandidateHolds
  SessionHolds
PROPERTIES
  RunningIsMeant
  OkDelivers
  StartBringsUp
  EveryCallReturns
