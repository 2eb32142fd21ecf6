SPECIFICATION Spec
CHECK_DEADLOCK FALSE
CONSTANTS
    None = None
    Values <- MCValues
    Kind <- MCKind
    Amount <- MCAmount
    Scenarios <- MCScenarios
    Said <- MCSaid
    Contradictory <- MCContradictory
    Checks <- MCChecks
    Calls <- MCCalls
    Answers <- MCAnswers
    Plan <- MCPlan
    SELF_CHECK <- MCSELF_CHECK
    Returned <- MCReturned
    Options <- MCOptions
    MAX_GATES_PER_SESSION = 1
    MaxCalls = 2
PROPERTIES
    ConfirmedOnlyByUpstream
