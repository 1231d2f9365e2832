SPECIFICATION Spec
CONSTANTS
  u1 = u1
  c1 = c1
  b1 = b1
  o1 = o1
  o2 = o2
  Users <- MCUsers
  Courses <- MCCourses
  Ebooks <- MCEbooks
  Orders <- MCOrders
  Notices <- MCNotices
  Terms <- OneTerm
  MaxRetries = 1
  MaxTime = 2
  MaxFaults = 0
  MaxCrashes = 0
  MaxEdits = 0
CONSTRAINT OneOrderOpen
PROPERTY RefusedIsDuplicate
CHECK_DEADLOCK FALSE
