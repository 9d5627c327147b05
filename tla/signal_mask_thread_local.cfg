CONSTANTS
  kTimeout = 10
  TestTypes = {"SIGMASK"}
SPECIFICATION Spec
PROPERTY NotReceivedVerdictTrue
