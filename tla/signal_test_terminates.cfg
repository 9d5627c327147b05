CONSTANTS
  kTimeout = 10
  TestTypes = {"HANDLER", "SIGNAL", "SIGACTION", "SIGMASK", "SIGACTIONMASK", "MISSING"}
SPECIFICATION FairSpec
INVARIANT TypeOK
PROPERTY RunSignalTestTerminates
