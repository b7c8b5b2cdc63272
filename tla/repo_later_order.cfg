SPECIFICATION Spec
CONSTANTS
  o1 = o1
  o2 = o2
  o3 = o3
  o5 = o5
  o6 = o6
  o4 = o4
  main = main
  top = top
  sub = sub
  Nil = Nil
  Objs = {o1, o2, o3}
  Links <- LineLinks
  Commits = {o1, o2, o3}
  Refs = {main}
  Clashes <- PlainRefs
  Protected = {}
  Servers = {s1}
  Pushes = {p1, p2}
  MaxCmds = 1
  ThinBases = FALSE
  Purges = FALSE
  LatePuts = FALSE
  Keep = 1
  Grace = 1
  OrphanAge = 2
  Backoff = 1
  MinPacks = 2
  Large = 9
  MaxDropped = 9
  MaxAttempts = 2
  Seed <- PackOfAB
  SeedRefs <- MainAtA
  SeedDrops = {o2}
  MaxClock = 1
  MaxRequests = 1
  MaxRounds = 0
  MaxFetches = 0
  MaxResets = 0
  MaxRestores = 0
  MaxFaults = 0
INVARIANT Clonable
CHECK_DEADLOCK FALSE
