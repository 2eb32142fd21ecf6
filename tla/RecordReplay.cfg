SPECIFICATION Spec
CONSTANTS
  Tasks = {t1, t2}
  page = page
  Params <- MCParams
  Values <- MCValues
  Default <- MCDefault
  Requests <- MCRequests
  Texts = {"data"}
  Errors = {"failure"}
  Specs <- MCSpecs
  Rank <- MCRank
SYMMETRY MCSymmetry
INVARIANTS
  TypeOK
  GenuineAnswers
  RecordedReplays
  OutagesNotReplayed
PROPERTIES
  SettledRecordings
