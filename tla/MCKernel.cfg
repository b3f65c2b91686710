\* The two strict modes, scores 0..3, a tolerance of one.
SPECIFICATION KernelSpec
CONSTANTS
  Dims <- TwoDims
  MaxScore = 3
  Eps = 1
  Rules <- ShippedRules
  ModesUsed <- StrictModes
  MaxSteps = 2
INVARIANTS LossBounded WorseDriftNoBetter
 
