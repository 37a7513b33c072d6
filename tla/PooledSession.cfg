SPECIFICATION Spec
CONSTANTS
  c1 = c1
  c2 = c2
  s1 = s1
  NoConn = NoConn
  Conn = {c1, c2}
  Stmt = {s1}
  Profile = {"transactions", "refusals", "prepared", "escaping", "copying"}
  Messages <- MCMessages
  Pipelining <- MCPipelining
  MaxMessages <- MCMaxMessages
  Meets <- MCMeets
CHECK_DEADLOCK FALSE
SYMMETRY ConnSymmetry
VIEW View
INVARIANTS
  TypeOK
  OneOwner
  IdleIsClean
  RestartCutsNothing
  DrainWakes
  
  CancelHitsOwn
  
