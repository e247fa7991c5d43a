CONSTANTS
  l1 = l1
  l2 = l2
  r1 = r1
  r2 = r2
  r3 = r3
  phone = phone
  laptop = laptop
  Nil = Nil
  Logins <- MCLogins
  Refreshes <- MCRefreshes
  Fingerprints <- MCFingerprints
  FingerprintOf <- MCFingerprintOf
  MaxFaults = 1
SPECIFICATION Spec
SYMMETRY MCSymmetry
CHECK_DEADLOCK FALSE
INVARIANTS TypeOK ForkNeedsOverlap RevokedForReason PurgeHolds HonestClient StaysOnDevice DoubleNeedsOverlap SessionMovesOn
PROPERTIES
  ImplementsSessions
