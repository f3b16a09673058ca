SPECIFICATION Spec
CONSTANTS
  OvNodes = {o1, o2}
  MaxAddresses = 3
  MaxHandshakes = 2
  MeshNodes = {m1, m2, m3}
  MaxGenerations = 2
  MaxChallenges = 2
  MaxInFlight = 3
  Nodes = {n1, n2, n3}
  Values = {v1, v2}
  NoVote = NoVote
  RegionOf <- TwoRegions
  Coroutines = {c1}
  Unrestricted = FALSE
  MaxTerms = 3
  MaxEntries = 2
  Routers = {p1, p2, p3}
  MaxTunnels = 2
  MaxP2PTasks = 1
  MaxPings = 1
  StreamSessions = {s1, s2}
  StreamTools = {t1, t2}
  BatchSize = 2
  MaxBatches = 1
  MaxStreams = 2
  Gateways = {g1, g2}
  Clouds = {c1}
  Certs = {k1}
  CcTunnels = {u1, u2}
  MaxCcRestarts = 1
  MaxRotations = 2
  Sockets = {w1, w2, w3}
  Tenants = {ta, tb}
  AdminTenant = ta
  Chats = {x1, all}
  Global = all
  MaxFanouts = 1
INVARIANTS PeersAreAttested RegionsAgree TablesMatchTheNetwork ViewersSeeTheTruth
CHECK_DEADLOCK FALSE
