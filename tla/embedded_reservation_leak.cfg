CONSTANTS
  kMaxEnclaveCreateAttempts = 5
SPECIFICATION Spec
INVARIANT ReservationReleasedOnReturn
