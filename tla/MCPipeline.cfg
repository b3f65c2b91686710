\* Two handlers race for a redelivered proposal, two executors for its action,
\* while the scope moves on and restarts.
SPECIFICATION FairSpec
CONSTANTS
  g1 = g1
  g2 = g2
  x1 = x1
  x2 = x2
  Governors = {g1, g2}
  Executors = {x1, x2}
  Rules <- FirstEdge
  Drifts <- CalmAndHigh
  ModesUsed = {"YOLO", "MITL", "MASTER"}
  MaxDeliver = 3
  MaxProposals = 1
  MaxEpoch = 2
  MaxRun = 2
  NoRow = NoRow
INVARIANTS HumanGate DecidedOnceProcessed
PROPERTIES AppliedAsApproved EveryProposalHandled
