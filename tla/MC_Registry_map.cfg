CONSTANTS
  x = x
  y = y
  hx1 = hx1
  hx2 = hx2
  hy = hy
  a = a
  b = b
  nick = nick
  ip1 = ip1
  ip2 = ip2
  None = None
  Procs = {p, q}
  Watcher = watcher
  Names = {a, b, nick}
  Chassis = {x, y}
  Hosts = {hx1, hx2, hy}
  Addrs = {ip1, ip2}
  HostsOf <- TwoChassis
  SystemName <- Named
  Nicks = {nick}
  Settings <- DeviceEdits
  t1 = t1
  t2 = t2
  t3 = t3
  d1 = d1
  d2 = d2
  e1 = e1
  e2 = e2
  e3 = e3
  Tickers = {t1, t2, t3}
  ProcessOf <- Threads
  DeviceOrder <- InTurn
  Events = {e1, e2, e3}
  On <- EventOn
  Stamp <- EventAt
  Alertworthy = {e1, e2}
  Overlap = 1
  Lookback = 1
  SeenCap = 2
  MaxPerDevice = 2
  MaxTime = 3
  NoCursor = NoCursor
  SpoolSettings <- SpoolPlans
  GateThreads = {g1, g2}
  Interval = 2
  GateEnd = 7
  GateCalls = 2
  b1 = b1
  b2 = b2
  f1 = f1
  f2 = f2
  f3 = f3
  j1 = j1
  j2 = j2
  j3 = j3
  h1 = h1
  h2 = h2
  r1 = r1
  r2 = r2
  r3 = r3
  k1 = k1
  k2 = k2
  ArCallers = {f1, f2, f3}
  ArProcess <- InProcess
  ArSettings <- ArEverySetting
  TpCallers = {j1, j2, j3}
  TpSettings <- TpEverySetting
  RcCallers = {r1, r2, r3}
  RcSettings <- RcEverySetting
  GnCallers = {k1, k2}
  GnSettings <- GnEverySetting
SPECIFICATION RegistrySpec
INVARIANTS
  TypesOK
  MapHolds
  EventsHold
  BackupsAreSound
  TemplatesHold
  MountsHold
  GnmiHolds
PROPERTIES
  NamesSurvive
  AddressConverges
  PacedBehindThePast
  StoresKeep
