SPECIFICATION FairSpec
CONSTANTS
  o1 = o1
  o2 = o2
  o3 = o3
  o5 = o5
  o6 = o6
  o4 = o4
  main = main
  top = top
  sub = sub
  Nil = Nil
  Objs = {o1, o2}
  Links <- PairLinks
  Commits = {o1, o2}
  Refs = {main}
  Clashes <- PlainRefs
  Protected = {}
  Servers = {s1}
  Pushes = {p1}
  MaxCmds = 1
  ThinBases = FALSE
  Purges = FALSE
  LatePuts = FALSE
  Keep = 1
  Grace = 1
  OrphanAge = 2
  Backoff = 1
  MinPacks = 2
  Large = 9
  MaxDropped = 9
  MaxAttempts = 2
  Seed <- PackOfAB
  SeedRefs <- MainAtA
  SeedDrops = {o2}
  MaxClock = 2
  MaxRequests = 0
  MaxRounds = 2
  MaxFetches = 0
  MaxResets = 0
  MaxRestores = 0
  MaxFaults = 1
PROPERTIES Cleaned KeptHistory
CHECK_DEADLOCK FALSE
