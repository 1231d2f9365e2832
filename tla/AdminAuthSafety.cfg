SPECIFICATION Spec
SYMMETRY Symmetry
CONSTRAINTS OneLink Few
CONSTANTS
  a1 = a1
  s1 = s1
  s2 = s2
  s3 = s3
  p1 = p1
  k1 = k1
  c1 = c1
  c2 = c2
  None = None
  Admins <- MCAdmins
  Sessions <- MCSessions
  PasswordLinks <- MCPasswordLinks
  SecretLinks <- MCSecretLinks
  OwnerOf <- MCOwnerOf
  Calls <- MCCalls
  MaxFaults = 1
INVARIANTS
  TypeOK
  OldCredentialsOut
  Reachable
  OneSuccessor
  SingleUse
CHECK_DEADLOCK FALSE
