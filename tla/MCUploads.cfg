\* An upload that was answered, or a user who has left or has nothing to send,
\* does nothing more.
CHECK_DEADLOCK FALSE
SPECIFICATION UploadsSpec
CONSTANTS
  a = a
  b = b
  top = top
  sub = sub
  Bad = bad
  NoPath = noPath
  Paths = {a, b}
  DirOf <- MCDirOf
  Above <- MCAbove
  Bodies <- MCBodies
  PickedPaths = {p, q}
  Concurrency = 2
  MaxItems = 3
INVARIANTS
  OutcomesAreTrue
  NoPathIsInherited
  SentOnce
PROPERTIES
  OnlyWantedIsSent
  UploadsEnd
