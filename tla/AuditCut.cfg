CONSTANTS
  r1 = r1
  r2 = r2
  n1 = n1
  n2 = n2
  s1 = s1
  s2 = s2
  s3 = s3
  s4 = s4
  pod1 = pod1
  pod2 = pod2
  p1 = p1
  p2 = p2
  p3 = p3
  Owner <- MCOwner
  Name <- MCName
  nameOf <- MCnameOf
  Session <- MCSession
  Pod <- MCPod
  Limit = 2
  NoRow = NoRow
  Proc = {p1, p2}
  MaxBoot = 2
  MaxKey = 1
  MaxRows <- RowsCut
  Parts = {"trail"}
SPECIFICATION RowsSpec
INVARIANT CutsHideAfterCheckpoint
CHECK_DEADLOCK FALSE
