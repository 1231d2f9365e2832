SPECIFICATION FairSpec
CONSTANTS
  u1 = u1
  c1 = c1
  b1 = b1
  o1 = o1
  o2 = o2
  Users <- MCUsers
  Courses <- MCCourses
  Ebooks <- NoEbooks
  Orders <- MCOrders
  Notices <- OneNotice
  Terms <- OneTerm
  MaxRetries = 1
  MaxTime = 1
  MaxFaults = 2
  MaxCrashes = 1
  MaxEdits = 0
PROPERTIES
  PaymentSettles
  PurchaseActivates
CHECK_DEADLOCK FALSE
