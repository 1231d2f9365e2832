SPECIFICATION Spec
CONSTRAINTS
  OneProduct
  TwoLessons
SYMMETRY Symmetry
CONSTANTS
  c1 = c1
  m1 = m1
  l1 = l1
  l2 = l2
  b1 = b1
  n1 = n1
  n2 = n2
  r1 = r1
  r2 = r2
  r3 = r3
  None = None
  Courses <- MCCourses
  Modules <- MCModules
  Lessons <- MCLessons
  Ebooks <- MCEbooks
  ModuleOf <- MCModuleOf
  CourseOf <- MCCourseOf
  Names <- MCNames
  Requests <- MCRequests
  MaxFaults = 1
INVARIANTS
  TypeOK
  NoDangling
  InStep
  RowsKept
  SoldCoursesIntact
CHECK_DEADLOCK FALSE
