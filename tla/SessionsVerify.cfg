SPECIFICATION Spec
CONSTANTS
  u1 = u1
  s1 = s1
  s2 = s2
  v1 = v1
  p1 = p1
  c1 = c1
  c2 = c2
  None = None
  Users <- MCUsers
  Sessions <- MCSessions
  VerifyLinks <- MCVerify
  ResetLinks <- MCReset
  OwnerOf <- MCOwnerOf
  Calls <- MCCalls
  MaxFaults = 0
INVARIANT NoTokensForBlocked
CHECK_DEADLOCK FALSE
