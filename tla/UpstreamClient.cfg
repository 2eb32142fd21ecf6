SPECIFICATION FairSpec
CONSTANTS
  Callers = {c1, c2, c3}
  Conns = {k1, k2}
  Gone = Gone
  NoConn = NoConn
  NoCaller = NoCaller
INVARIANTS
  TypeOK
  NoConnectionLeaked
PROPERTIES
  RetryElsewhere
  FreshConnectionKept
  CallsEnd
CHECK_DEADLOCK FALSE
