SPECIFICATION Spec
CONSTANTS
  o1 = o1
  o2 = o2
  o3 = o3
  o5 = o5
  o6 = o6
  o4 = o4
  main = main
  top = top
  sub = sub
  Nil = Nil
  Objs = {o1, o2, o3}
  Links <- LineLinks
  Commits = {o1, o2, o3}
  Refs = {main}
  Clashes <- PlainRefs
  Protected = {}
  Servers = {s1}
  Pushes = {p1}
  MaxCmds = 1
  ThinBases = FALSE
  Purges = TRUE
  LatePuts = FALSE
  Keep = 1
  Grace = 1
  OrphanAge = 2
  Backoff = 1
  MinPacks = 2
  Large = 2
  MaxDropped = 9
  MaxAttempts = 2
  Seed <- PackOfAB
  SeedRefs <- MainAtA
  SeedDrops = {o2}
  MaxClock = 2
  MaxRequests = 1
  MaxRounds = 1
  MaxFetches = 0
  MaxResets = 0
  MaxRestores = 1
  MaxFaults = 0
INVARIANT Complete
CHECK_DEADLOCK FALSE
