CONSTANTS
  a1 = a1
  a2 = a2
  b1 = b1
  Zero = zero
  Request <- MCRequest
  OutpointOf <- OneVault
  DigestOf <- MCDigestOf
  TTL = 1
  MaxTime = 2
  MaxInFlight = 3
SPECIFICATION Spec
INVARIANTS TypeOK AuditedBeforeSigned LeaseExclusive AuditAnchored

CHECK_DEADLOCK FALSE
