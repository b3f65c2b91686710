SPECIFICATION Spec
CONSTANTS
  a = a
  g = g
  w1 = w1
  w2 = w2
  s1 = s1
  s2 = s2
  r1 = r1
  e1 = e1
  Claims = {a}
  Goals = {g}
  Wordings = {w1, w2}
  Resembles <- All
  Alike <- All
  Links <- About
  Extractions <- Sayings
  MinConfidence = 1
  Syncers = {s1}
  Resolvers = {r1}
  Evaluators = {e1}
  MaxRows = 2
  MaxSyncs = 3
PROPERTIES GoalsOnlyAdvance
CHECK_DEADLOCK FALSE
