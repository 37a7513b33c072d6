CONSTANTS
  r1 = r1
  r2 = r2
  n1 = n1
  n2 = n2
  Owner <- MCOwner
  Name <- MCName
  nameOf <- MCnameOf
  c1 = c1
  c2 = c2
  Accessor = {c1}
  Binding = {db, db2}
  None = None
SPECIFICATION LiveSpec
PROPERTY OrphansAreSettled
CHECK_DEADLOCK FALSE
