SPECIFICATION Spec
INVARIANTS
    UniformVerdict
    OnlyAReadBodyDecides
    RetryableIsTransient
CHECK_DEADLOCK FALSE
