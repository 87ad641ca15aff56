SPECIFICATION Spec
CONSTANTS
    MaxTokens = 2
    Window = 2
    Outcomes <- MCOutcomes
    Pending = Pending
INVARIANT BatchTimeoutIsRetryable
CHECK_DEADLOCK FALSE
