CONSTANTS
  Clients = {c1, c2}
  Daemons = {d1}
  Versions = {v1, v2}
  Spawners = {c1, c2}
  None = None
SPECIFICATION Spec
INVARIANT StaleIsRetired
