CONSTANTS
  OversightSteps = 3
  GovernorSteps = 3
  MaxDeliver = 3
  MaxFailures = 2
SPECIFICATION FairSpec
CHECK_DEADLOCK FALSE
INVARIANTS TypeOK ActsOnAdmissible 
PROPERTY DeliveryEnds
