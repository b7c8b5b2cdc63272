SPECIFICATION ServeSpec
CONSTANTS
  o1 = o1
  o2 = o2
  o3 = o3
  o5 = o5
  o6 = o6
  o4 = o4
  main = main
  top = top
  sub = sub
  Nil = Nil
  Objs = {o1, o2}
  Links <- PairLinks
  Commits = {o1, o2}
  Refs = {main, top}
  Clashes <- PlainRefs
  Protected = {main}
  Servers = {s1, s2}
  Pushes = {p1, p2}
  MaxCmds = 2
  ThinBases = FALSE
  Purges = FALSE
  LatePuts = FALSE
  Keep = 1
  Grace = 1
  OrphanAge = 2
  Backoff = 1
  MinPacks = 9
  Large = 9
  MaxDropped = 9
  MaxAttempts = 2
  Seed <- PackOfA
  SeedRefs <- BothAtA
  SeedDrops = {}
  MaxClock = 0
  MaxRequests = 0
  MaxRounds = 0
  MaxFetches = 0
  MaxResets = 0
  MaxRestores = 0
  MaxFaults = 0
SYMMETRY Alike
PROPERTY OneRefBook
CHECK_DEADLOCK FALSE
