\* Two evaluators, one contradiction, one answer of a human, one failure.
SPECIFICATION Spec
CONSTANTS
  watchdog = watchdog
  governance = governance
  k1 = k1
  Beta = 3
  Depth = 3
  Evaluators = {watchdog, governance}
  Contradictions = {k1}
  Qualities = {95}
  Claims = {0, 3}
  Options = {"approve_finality", "defer"}
  MaxAnswers = 1
  MaxDeliver = 2
  Faults = {"decision", "snapshot", "history", "insert", "executor"}
  MaxFailures = 1
SYMMETRY Symmetry
INVARIANTS TypeOK OpenThroughoutBlocks  WordBehindCertificate RecordedUnlessFailed
