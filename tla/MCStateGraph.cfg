\* Two callers racing through a whole turn of the cycle and into the next one,
\* across a reset.
SPECIFICATION FairSpec
CONSTANTS
  c1 = c1
  c2 = c2
  Callers = {c1, c2}
  Rules <- ShippedRules
  Drifts <- CalmAndHigh
  ResetNodes <- HeadOfCycle
  MaxEpoch = 6
  MaxRun = 2
  NoRow = NoRow
  Nobody = Nobody
INVARIANTS EpochTellsNode OneAdvancePerEpoch AuditMatchesRow
PROPERTIES GovernedMovesPermitted CellSpec EveryCallReturns
