CONSTANTS
  Clients = {c1, c2}
  Daemons = {d1, d2}
  Versions = {v1, v2}
  Spawners = {c1, c2}
  None = None
  Asks <- TwiceAsking
  Conflicts <- LiveCommits
  Uploads <- Transfers
  Calls <- CallsAndNone
  jo = jo
  pat = pat
  DcCallers = {jo, pat}
  DcSettings <- DcEverySetting
  BaseOf <- DaemonOf
  DcTables <- ProcessTables
  DvSettings <- DvEverySetting
  DvHosts <- TwoControllers
  DvAttempts = 2
  MaxDvTroubles = 2
  DvTables <- NeighborTables
SPECIFICATION SessionsSpec
INVARIANTS
  TypesOK
  ExactlyOnce
  ServingIsReachable
  DialoguesHold
  CallsDoWhatTheySay
  ReadsAreTrue
PROPERTY EveryCallReturns
