\* Three calls in flight, three failures, a cooldown of two ticks.
SPECIFICATION FairBreaker
CONSTANTS
  c1 = c1
  c2 = c2
  c3 = c3
  Callers = {c1, c2, c3}
  Threshold = 3
  Cooldown = 2
 
PROPERTIES ClosesWhenWell
