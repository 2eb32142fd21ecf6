SPECIFICATION BusySpec
CONSTANTS
  Callers = {c1}
  Conns = {k1, k2}
  Gone = Gone
  NoConn = NoConn
  NoCaller = NoCaller
PROPERTIES
  WedgeEnds
CHECK_DEADLOCK FALSE
