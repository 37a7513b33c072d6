CONSTANTS
  a1 = a1
  a2 = a2
  replica = replica
  Owner <- MCOwner
  Name <- MCName
  nameOf <- MCnameOf
  OwnerTTL = 4
  FenceAfter = 2
  Heartbeat = 1
  Lag = 1
SPECIFICATION Spec

PROPERTY RefusedOnlyWhileHeld
CHECK_DEADLOCK FALSE
