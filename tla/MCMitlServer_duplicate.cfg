\* The watchdog and the finality consumer submit at the same time.
SPECIFICATION Spec
CONSTANTS
  r1 = r1
  r2 = r2
  Reviewers = {r1}
  Producers = {"watchdog", "consumer"}
  Watchdog = "watchdog"
  Scopes = {"deal"}
  Prefixes <- OwnPrefix
  MaxAdvances = 1
  MaxReviews = 2
INVARIANTS OneReviewPerScope
