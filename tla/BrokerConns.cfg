SPECIFICATION LiveSpec
CONSTANTS
  c1 = c1
  c2 = c2
  c3 = c3
  w1 = w1
  w2 = w2
  NoConn = NoConn
  Conn <- MCConn
  Workload <- MCWorkload
  workloadOf <- MCWorkloadOf
  MaxPendingConns = 2
  AdmissionConcurrency = 1
  MaxConns = 2
  MaxLeasesPerActor = 1
  MaxLeasesPerAgent = 2
  PerDatabase = 2
  Pooling = {TRUE, FALSE}
INVARIANTS
  ShutdownMissesNobody
  CredentialsWithinCaps
  SleepersAreBlocked
  GoneHoldsNothing
  NoCircularWait
PROPERTIES
  ShutdownCompletes
CHECK_DEADLOCK FALSE
