SPECIFICATION Spec
CONSTANTS
  u1 = u1
  c1 = c1
  b1 = b1
  o1 = o1
  o2 = o2
  Users <- MCUsers
  Courses <- MCCourses
  Ebooks <- MCEbooks
  Orders <- MCOrders
  Notices <- MCNotices
  Terms <- OneTerm
  MaxRetries = 1
  MaxTime = 1
  MaxFaults = 0
  MaxCrashes = 1
  MaxEdits = 0
PROPERTY WindowStays
CHECK_DEADLOCK FALSE
