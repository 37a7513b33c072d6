CONSTANTS
  r1 = r1
  r2 = r2
  n1 = n1
  n2 = n2
  Owner <- MCOwner
  Name <- MCName
  nameOf <- MCnameOf
  c1 = c1
  c2 = c2
  Accessor <- MCAccessor
  Binding = {db}
  None = None
SPECIFICATION Spec
INVARIANT AnsweredIsNotConfirmed
CHECK_DEADLOCK FALSE
