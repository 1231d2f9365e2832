SPECIFICATION FairSpec
CONSTRAINT OneRow
CONSTANTS
  u1 = u1
  c1 = c1
  r1 = r1
  r2 = r2
  e1 = e1
  None = None
  Users <- MCUsers
  Courses <- MCCourses
  Uploads <- MCUploads
  Edits <- MCEdits
  MaxRetries = 1
  MaxTime = 1
  MaxFaults = 1
  MaxCrashes = 1
INVARIANTS
  TypeOK
  NoDangling
  FilesAccounted
  NoUploadForgotten
  RetriesFindNoFile
  EditsKept
PROPERTIES
  UploadsEnd
CHECK_DEADLOCK FALSE
