CONSTANTS
  a1 = a1
  a2 = a2
  b1 = b1
  Zero = zero
  Request <- MCRequest
  OutpointOf <- OneVault
  DigestOf <- MCDigestOf
  TTL = 1
  MaxTime = 0
  MaxInFlight = 3
SPECIFICATION Spec
INVARIANT AtMostOneSuccessor
CHECK_DEADLOCK FALSE
