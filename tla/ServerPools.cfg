CONSTANTS
  k1 = k1
  k2 = k2
  a = a
  b = b
  c = c
  None = None
  Parts = {"keys", "queue", "sizes"}
  Key = {k1, k2}
  Client = {a, b}
  Conn = {1}
  Cred = {1, 2}
  Base = 1
  Replicas = {1}
  QueueFactor = 2
  ShareDen = 10
SPECIFICATION PoolsSpec
SYMMETRY Symmetry
VIEW View
INVARIANTS PoolsTypeOK NoLostWakeup AccountsMatch RotationCutsNothing
PROPERTY RetiringServesNobody
CHECK_DEADLOCK FALSE
