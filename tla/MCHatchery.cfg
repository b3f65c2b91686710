CONSTANTS
  s1 = s1
  s2 = s2
  r1 = r1
  r2 = r2
  Agents <- TwoAgents
  Scopes = {s1, s2}
  Requests = {r1, r2}
  minInstances = 1
  maxInstances = 2
  maxRestarts = 1
  MaxCrashes = 2
SPECIFICATION FairSpec
CHECK_DEADLOCK FALSE
INVARIANTS TypeOK AliveInScope PausedIsQuiet
PROPERTY MinimumRestored
