CONSTANTS
  kTimeout = 10
  TestTypes = {"SIGACTIONMASK"}
SPECIFICATION Spec
INVARIANT InterruptedVerdictTrue
