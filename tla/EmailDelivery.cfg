SPECIFICATION FairSpec
CONSTANTS
  e1 = e1
  e2 = e2
  None = None
  Emails <- MCEmails
  MaxRetries = 2
  MaxTries = 2
  MaxFaults = 2
INVARIANTS
  TypeOK
  Accounted
  SentOnce
  OneCopy
PROPERTIES
  KeepsOutbox
  Reconnects
  Settles
CHECK_DEADLOCK FALSE
