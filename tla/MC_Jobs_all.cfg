CONSTANTS
  j1 = j1
  j2 = j2
  tar = tar
  precheck = precheck
  Jobs = {j1, j2}
  Readers = {r1}
  Images = {tar}
  Requests <- MixedRequests
  Server = Server
  PreCheck = precheck
  None = None
  s1 = s1
  s2 = s2
  TsJobs = {s1, s2}
  TsNames = {"bgp", "core_bgp_x"}
  TsWithin <- LongerHoldsShorter
  TsProcessOf <- InProcesses
  TsNone = None
  MaxPolls = 2
  MaxProbeFailures = 2
  MaxTaken = 1
  TsKills = 1
  OrcDevices <- OneAfterAnother
  OrcSettings <- AllRuns
  OrcKills = 1
  c1 = c1
  c2 = c2
  c3 = c3
  Caps = {c1, c2, c3}
  CapSettings <- CaptureSettings
  CapPaths = {"p1", "p2", "p3"}
  MaxCapFaults = 1
  u1 = u1
  u2 = u2
  BdCallers = {u1, u2}
  BdSettings <- BdEverySetting
  SgSite <- SgArtifacts
  SgSettings <- SgEverySetting
SPECIFICATION JobsSpec
INVARIANTS
  TypesOK
  LoadsAreSound
  DoneIsFresh
  ShowIsTrue
  CapturesAreSound
  BuildsAreTold
PROPERTIES
  NeverRegresses
  EveryJobEnds
