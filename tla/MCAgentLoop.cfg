CONSTANTS
  f1 = f1
  f2 = f2
  drifter = drifter
  propagator = propagator
  deltaer = deltaer
  Loops = {f1, f2, drifter}
  role <- MCrole
  Hashes = {1}
  MaxDocuments = 1
  MaxDeliver = 2
  Faults = {"transient", "late", "permanent", "ackwait", "cooldown", "rejection", "executor", "feed"}
  MaxFailures = 1
SPECIFICATION FairSpec
\* The agents rest when there is nothing to do.
CHECK_DEADLOCK FALSE
INVARIANTS TypeOK MemoryNotAhead OnlyAllowedAdvance
 
