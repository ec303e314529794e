CONSTANTS
  j1 = j1
  j2 = j2
  tar = tar
  precheck = precheck
  Jobs = {j1, j2}
  Readers = {r1}
  Images = {tar}
  Requests <- MixedRequests
  Server = Server
  PreCheck = precheck
  None = None
SPECIFICATION Spec
PROPERTY DoneStays
