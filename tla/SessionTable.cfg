SPECIFICATION Spec
CONSTANTS
  Tasks = {t1, t2}
  Clients <- MCClients
  NoClient = NoClient
  Header <- MCHeader
  Stdio = {}
  StdioKey = "stdio"
  NoKey = "none"
  Objs = {o1, o2, o3, o4}
  NoObj = NoObj
  Sizes = {1, 3, 5}
  MaxSessions = 1
  MaxPayloads = 2
  MaxBytes = 3
  MaxDelivered = 3
  a = a
  b = b
  n1 = n1
  n2 = n2
SYMMETRY MCSymmetry
VIEW LiveOnly
INVARIANTS
  TypeOK
  Isolation
  EvidenceIsLongestSuffix
PROPERTIES
  ImplementsPrivateSessions
