SPECIFICATION Spec
CONSTANTS
  u1 = u1
  c1 = c1
  b1 = b1
  o1 = o1
  o2 = o2
  Users <- MCUsers
  Courses <- MCCourses
  Ebooks <- MCEbooks
  Orders <- MCOrders
  Notices <- MCNotices
  Terms <- MCTerms
  MaxRetries = 1
  MaxTime = 1
  MaxFaults = 1
  MaxCrashes = 1
  MaxEdits = 1
SYMMETRY OrderSymmetry
CONSTRAINTS
  TwoTroubles
  TwoCalls
  EditedFirst
INVARIANTS
  TypeOK
  TasksAreForCompleted
  NoTaskForgotten
  PublishedOnce
PROPERTIES
  AccessNeverShrinks
  KeepsPromise
CHECK_DEADLOCK FALSE
