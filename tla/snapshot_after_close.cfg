CONSTANTS
  t1 = t1
  t2 = t2
  Threads <- MCThreads
  Owner = t1
  Ops <- MCSnapshotDestroyOps
  MaxOps = 2
  NumTcs = 1
  kMaxEnclaveCreateAttempts = 5
SPECIFICATION Spec
INVARIANT ClosedCallsSkipGate
