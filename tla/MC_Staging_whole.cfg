CONSTANTS
  SgSite <- SgArtifacts
  SgSettings <- SgEverySetting
INIT SgInit
NEXT SgNext
INVARIANT OkIsWhole
CHECK_DEADLOCK FALSE
