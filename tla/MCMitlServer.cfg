\* Two requests, the watchdog and the finality consumer, one scope.
SPECIFICATION FairSpec
CONSTANTS
  r1 = r1
  r2 = r2
  Reviewers = {r1, r2}
  Producers = {"watchdog", "consumer"}
  Watchdog = "watchdog"
  Scopes = {"deal"}
  Prefixes <- OwnPrefix
  MaxAdvances = 1
  MaxReviews = 2
INVARIANTS TypeOK
PROPERTIES NoAnswerLost 
