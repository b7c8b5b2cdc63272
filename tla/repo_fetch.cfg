SPECIFICATION Spec
CONSTANTS
  o1 = o1
  o2 = o2
  o3 = o3
  o5 = o5
  o6 = o6
  o4 = o4
  main = main
  top = top
  sub = sub
  Nil = Nil
  Objs = {o1, o2}
  Links <- PairLinks
  Commits = {o1, o2}
  Refs = {main}
  Clashes <- PlainRefs
  Protected = {}
  Servers = {s1, s2}
  Pushes = {p1}
  MaxCmds = 0
  ThinBases = FALSE
  Purges = FALSE
  LatePuts = FALSE
  Keep = 0
  Grace = 1
  OrphanAge = 2
  Backoff = 1
  MinPacks = 2
  Large = 9
  MaxDropped = 9
  MaxAttempts = 2
  Seed <- PackEach
  SeedRefs <- MainAtA
  SeedDrops = {o2}
  MaxClock = 1
  MaxRequests = 0
  MaxRounds = 1
  MaxFetches = 1
  MaxResets = 1
  MaxRestores = 0
  MaxFaults = 1
SYMMETRY Alike
PROPERTY FetchServed
CHECK_DEADLOCK FALSE
