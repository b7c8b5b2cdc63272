SPECIFICATION ServeSpec
CONSTANTS
  o1 = o1
  o2 = o2
  o3 = o3
  o5 = o5
  o6 = o6
  o4 = o4
  main = main
  top = top
  sub = sub
  Nil = Nil
  Objs = {o1, o2, o3}
  Links <- ForkLinks
  Commits = {o1, o2, o3}
  Refs = {main, top, sub}
  Clashes <- NestedRefs
  Protected = {main}
  Servers = {s1, s2}
  Pushes = {p1, p2}
  MaxCmds = 1
  ThinBases = FALSE
  Purges = FALSE
  LatePuts = TRUE
  Keep = 1
  Grace = 1
  OrphanAge = 2
  Backoff = 1
  MinPacks = 9
  Large = 9
  MaxDropped = 9
  MaxAttempts = 2
  Seed <- PackOfA
  SeedRefs <- MainAtA
  SeedDrops = {}
  MaxClock = 0
  MaxRequests = 0
  MaxRounds = 0
  MaxFetches = 0
  MaxResets = 0
  MaxRestores = 0
  MaxFaults = 1
SYMMETRY Alike
INVARIANTS TypeOK NoClash PackedOnce
PROPERTIES OneRefBook ProtectedForward
CHECK_DEADLOCK FALSE
