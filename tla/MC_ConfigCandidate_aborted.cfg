CONSTANTS
  ann = ann
  bob = bob
  s1 = s1
  s2 = s2
  s3 = s3
  s4 = s4
  theLock = theLock
  Clients = {ann, bob}
  Nobody = Nobody
  Outsider = Outsider
  Batch <- Batches
  Golden <- Backup
  Before <- Deployed
  RollbackId = 1
  HistMax = 3
  LockOf <- SharedLock
  Locks = {theLock}
  Settings <- BrokenEdits
  MaxOutside = 1
SPECIFICATION Spec
INVARIANT AbortedUntouched
