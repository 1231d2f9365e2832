SPECIFICATION Spec
SYMMETRY Symmetry
CONSTANTS
  t1 = t1
  c1 = c1
  c2 = c2
  c3 = c3
  None = None
  Tickets <- MCTickets
  Calls <- MCCalls
  MaxMessages = 4
  MaxFaults = 1
INVARIANTS
  TypeOK
  NoReplyOverlooked
  Whole
PROPERTIES
  DoneStaysDone
CHECK_DEADLOCK FALSE
