SPECIFICATION MCSpec
CONSTANTS
  Slots = {s1, s2}
  Tools <- MCTools
  Fields <- MCFields
  Values <- MCValues
  Policy <- MCPolicy
  Resolvable <- MCResolvable
  Calls <- AllCalls
  Plans <- AllPlans
  Requests = {r1, r2, r3}
  NoRequest = NoRequest
  Said <- MCSaid
  Headcounts <- MCHeadcounts
  Contradictory <- MCContradictory
  Results <- MCResults
  MaxGates = 2
  MaxSeen = 1
  x = x
  p1 = p1
  p2 = p2
  r1 = r1
  r2 = r2
  r3 = r3
INVARIANTS
  TypeOK
  GateBudget
  InventedNeverSeen
  ReleasedFieldsDisclosed
  PreflightKept
PROPERTIES
  GatesWereShown
  AssumptionsStand
  GateYields
CHECK_DEADLOCK FALSE
