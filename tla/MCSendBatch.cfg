SPECIFICATION FairSpec
CONSTANTS
    MaxTokens = 4
    Window = 2
    Outcomes <- MCOutcomes
    Pending = Pending
INVARIANTS
    WindowBound
    ResultsInTokenOrder
    PrepareErrorForEveryToken
PROPERTIES
    ImplementsBatch
    BatchReturns
CHECK_DEADLOCK FALSE
