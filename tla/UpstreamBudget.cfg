SPECIFICATION Spec
CONSTANTS
  Callers = {c1}
  Conns = {k1, k2}
  Gone = Gone
  NoConn = NoConn
  NoCaller = NoCaller
INVARIANTS
  RequestBudget
CHECK_DEADLOCK FALSE
